-------------------------- MODULE EventStoreProofs --------------------------
(* Theorems about EventStore, for every value of its constants: types, what  *)
(* row locks, the unique index and the foreign keys guarantee however       *)
(* transactions interleave, and that the rows of the tables and the rows of *)
(* the log are in step, in both directions.                                 *)
EXTENDS EventStore, FiniteSetTheorems, TLAPS

-----------------------------------------------------------------------------
(* The operators of GraphModel.                                             *)

LEMMA EmptyDbType == EmptyDb \in Db
  BY DEF EmptyDb, Db

LEMMA OverlayType ==
  ASSUME NEW D, NEW R, NEW base \in [D -> R], NEW delta \in [D -> R]
  PROVE  Overlay(base, delta) \in [D -> R]
  BY DEF Overlay

LEMMA OverlayDbType ==
  ASSUME NEW d \in Db, NEW delta \in Db
  PROVE  OverlayDb(d, delta) \in Db
<1>1. /\ d.nodes \in [NodeIds -> NodeRow \cup {NoRow}]
      /\ delta.nodes \in [NodeIds -> NodeRow \cup {NoRow}]
      /\ d.edges \in [EdgeIds -> EdgeRow \cup {NoRow}]
      /\ delta.edges \in [EdgeIds -> EdgeRow \cup {NoRow}]
      /\ d.embeddings \in [NodeIds \X Models -> Vectors \cup {NoRow}]
      /\ delta.embeddings \in [NodeIds \X Models -> Vectors \cup {NoRow}]
  BY DEF Db
<1>2. /\ Overlay(d.nodes, delta.nodes) \in [NodeIds -> NodeRow \cup {NoRow}]
      /\ Overlay(d.edges, delta.edges) \in [EdgeIds -> EdgeRow \cup {NoRow}]
      /\ Overlay(d.embeddings, delta.embeddings)
           \in [NodeIds \X Models -> Vectors \cup {NoRow}]
  BY <1>1, OverlayType
<1> QED
  BY <1>2 DEF OverlayDb, Db

\* The tag of a statement tells which record it is.
LEMMA StatementTags ==
  ASSUME NEW s \in Statement
  PROVE  /\ s.type = "NODE_CREATED" => s \in NodeCreated
         /\ s.type = "NODE_UPDATED" => s \in NodeUpdated
         /\ s.type = "NODE_RETRACTED" => s \in NodeRetracted
         /\ s.type = "EDGE_ADDED" => s \in EdgeAdded
         /\ s.type = "EDGE_UPDATED" => s \in EdgeUpdated
         /\ s.type = "EDGE_RETRACTED" => s \in EdgeRetracted
         /\ s.type = "EMBEDDING_STORED" => s \in EmbeddingStored
         /\ s.type = "NODES_MERGED" => s \in NodesMerged
         /\ s.type \in {"REMAP_SOURCE", "REMAP_TARGET"} => s \in Remap
         /\ s.type \in {"MOVE_SOURCE", "MOVE_TARGET"} => s \in Move
  BY DEF Statement, Event, NodeCreated, NodeUpdated, NodeRetracted, EdgeAdded,
         EdgeUpdated, EdgeRetracted, EmbeddingStored, RawInputReceived,
         NodesMerged, Remap, Move

LEMMA EventTags ==
  ASSUME NEW event \in Event
  PROVE  /\ event.type = "NODE_CREATED" => event \in NodeCreated
         /\ event.type = "NODE_RETRACTED" => event \in NodeRetracted
         /\ event.type = "EDGE_ADDED" => event \in EdgeAdded
         /\ event.type = "EDGE_RETRACTED" => event \in EdgeRetracted
         /\ event.type = "EMBEDDING_STORED" => event \in EmbeddingStored
         /\ event.type = "NODES_MERGED" => event \in NodesMerged
  BY DEF Event, NodeCreated, NodeUpdated, NodeRetracted, EdgeAdded, EdgeUpdated,
         EdgeRetracted, EmbeddingStored, RawInputReceived, NodesMerged

\* The row an edge is added with has a valid_from.
LEMMA AddedAt ==
  ASSUME NEW s \in Statement, s.type = "EDGE_ADDED"
  PROVE  s \in Event /\ s \in EdgeAdded /\ s.valid_from \in Times
<1>1. s \in Event /\ s.valid_from # NoTime
  BY DEF Statement, Remap, Move
<1> QED
  BY <1>1, StatementTags DEF EdgeAdded

\* The time of its transaction makes an event a statement, and is used for a
\* missing valid_from only.
LEMMA AtType ==
  ASSUME NEW event \in Event, NEW now \in Times
  PROVE  /\ At(event, now) \in Event
         /\ At(event, now) \in Statement
         /\ At(event, now).type = event.type
         /\ event.type # "EDGE_ADDED" => At(event, now) = event
         /\ event.type = "EDGE_ADDED" =>
              /\ event \in EdgeAdded
              /\ At(event, now).ns = event.ns
              /\ At(event, now).id = event.id
              /\ At(event, now).source = event.source
              /\ At(event, now).target = event.target
              /\ At(event, now).attrs = event.attrs
              /\ event.valid_from \in {NoTime, At(event, now).valid_from}
<1>1. CASE event.type = "EDGE_ADDED" /\ event.valid_from = NoTime
  <2>1. event \in EdgeAdded
    BY <1>1 DEF Event, NodeCreated, NodeUpdated, NodeRetracted, EdgeAdded,
         EdgeUpdated, EdgeRetracted, EmbeddingStored, RawInputReceived, NodesMerged
  <2>2. At(event, now) = [event EXCEPT !.valid_from = now]
    BY <1>1 DEF At
  <2>3. /\ At(event, now) \in EdgeAdded
        /\ At(event, now).type = event.type
        /\ At(event, now).valid_from = now
        /\ At(event, now).ns = event.ns
        /\ At(event, now).id = event.id
        /\ At(event, now).source = event.source
        /\ At(event, now).target = event.target
        /\ At(event, now).attrs = event.attrs
    BY <2>1, <2>2 DEF EdgeAdded
  <2>4. now # NoTime
    BY GraphAssumption
  <2> QED
    BY <1>1, <2>1, <2>3, <2>4 DEF Event, Statement
<1>2. CASE ~(event.type = "EDGE_ADDED" /\ event.valid_from = NoTime)
  <2>1. At(event, now) = event
    BY <1>2 DEF At
  <2>2. event \in Statement
    BY <1>2 DEF Statement
  <2> QED
    BY <2>1, <2>2, StatementTags
<1> QED
  BY <1>1, <1>2

LEMMA StatementsType ==
  ASSUME NEW event \in Event, event \in Statement
  PROVE  Statements(event) \in Seq(Statement)
<1>1. event \in Statement
  OBVIOUS
<1>2. CASE event.type = "NODES_MERGED"
  <2>1. event \in NodesMerged
    BY <1>1, <1>2, StatementTags
  <2>2. /\ event.ns \in Namespaces /\ event.kept \in NodeIds
        /\ event.removed \in NodeIds
    BY <2>1 DEF NodesMerged
  <2>3. [type |-> "REMAP_SOURCE", from |-> event.removed, to |-> event.kept] \in Statement
    BY <2>2 DEF Statement, Remap
  <2>4. [type |-> "REMAP_TARGET", from |-> event.removed, to |-> event.kept] \in Statement
    BY <2>2 DEF Statement, Remap
  <2>5. [type |-> "NODE_RETRACTED", ns |-> event.ns, id |-> event.removed] \in Statement
    BY <2>2 DEF Statement, Event, NodeRetracted
  <2> QED
    BY <1>2, <2>3, <2>4, <2>5 DEF Statements
<1>3. CASE event.type = "RAW_INPUT_RECEIVED"
  BY <1>3 DEF Statements
<1>4. CASE event.type \notin {"NODES_MERGED", "RAW_INPUT_RECEIVED"}
  BY <1>1, <1>4 DEF Statements
<1> QED
  BY <1>2, <1>3, <1>4

LEMMA PatchedType ==
  ASSUME NEW fields, NEW attrs \in [fields -> Values], NEW patch \in Patch(fields)
  PROVE  Patched(attrs, patch) \in [fields -> Values]
<1>1. PICK chosen \in SUBSET fields : patch \in [chosen -> Values]
  BY DEF Patch
<1> QED
  BY <1>1 DEF Patched

\* A statement leaves a node in every node row it writes, and an edge in every
\* edge row.
LEMMA NodeAfterType ==
  ASSUME NEW nodes \in [NodeIds -> NodeRow \cup {NoRow}], NEW s \in Statement,
         NEW n \in NodesWritten(nodes, s)
  PROVE  n \in NodeIds /\ NodeAfter(nodes[n], s) \in NodeRow
<1>0. n \in NodeIds /\ s.type \in {"NODE_CREATED", "NODE_UPDATED", "NODE_RETRACTED"}
  BY DEF NodesWritten
<1>1. CASE s.type = "NODE_CREATED"
  <2>1. s.ns \in Namespaces /\ s.key \in Keys \cup {NoKey} /\ s.attrs \in NodeAttrs
    BY <1>1, StatementTags DEF NodeCreated
  <2>2. CASE nodes[n] = NoRow
    BY <1>0, <1>1, <2>1, <2>2 DEF NodeAfter, NodeRow
  <2>3. CASE nodes[n] # NoRow
    <3>1. nodes[n] \in NodeRow
      BY <1>0, <2>3
    <3>2. NodeAfter(nodes[n], s) = [nodes[n] EXCEPT !.attrs = s.attrs]
      BY <1>1, <2>3 DEF NodeAfter
    <3> QED
      BY <1>0, <2>1, <3>1, <3>2 DEF NodeRow
  <2> QED
    BY <2>2, <2>3
<1>2. CASE s.type = "NODE_UPDATED"
  <2>1. nodes[n] \in NodeRow
    BY <1>0, <1>2 DEF NodesWritten
  <2>2. s.patch \in Patch(NodeFields)
    BY <1>2, StatementTags DEF NodeUpdated
  <2>3. Patched(nodes[n].attrs, s.patch) \in NodeAttrs
    BY <2>1, <2>2, PatchedType DEF NodeRow, NodeAttrs
  <2>4. NodeAfter(nodes[n], s) = [nodes[n] EXCEPT !.attrs = Patched(nodes[n].attrs, s.patch)]
    BY <1>2 DEF NodeAfter
  <2> QED
    BY <1>0, <2>1, <2>3, <2>4 DEF NodeRow
<1>3. CASE s.type = "NODE_RETRACTED"
  <2>1. nodes[n] \in NodeRow
    BY <1>0, <1>3 DEF NodesWritten
  <2>2. NodeAfter(nodes[n], s) = [nodes[n] EXCEPT !.retracted = TRUE]
    BY <1>3 DEF NodeAfter
  <2> QED
    BY <1>0, <2>1, <2>2 DEF NodeRow
<1> QED
  BY <1>0, <1>1, <1>2, <1>3

LEMMA EdgeAfterType ==
  ASSUME NEW edges \in [EdgeIds -> EdgeRow \cup {NoRow}], NEW s \in Statement,
         NEW e \in EdgesWritten(edges, s)
  PROVE  e \in EdgeIds /\ EdgeAfter(edges[e], s) \in EdgeRow
<1>0. e \in EdgeIds
  BY DEF EdgesWritten, Remapped
<1>1. CASE s.type = "EDGE_ADDED"
  <2>1. s \in EdgeAdded /\ s.valid_from \in Times
    BY <1>1, AddedAt
  <2>2. EdgeAfter(edges[e], s) =
          [ns |-> s.ns, source |-> s.source, target |-> s.target,
           attrs |-> s.attrs, valid_from |-> s.valid_from, retracted |-> FALSE]
    BY <1>1 DEF EdgeAfter
  <2> QED
    BY <1>0, <2>1, <2>2 DEF EdgeAdded, EdgeRow
<1>2. CASE s.type \in {"EDGE_UPDATED", "EDGE_RETRACTED", "REMAP_SOURCE",
                        "REMAP_TARGET", "MOVE_SOURCE", "MOVE_TARGET"}
  <2>1. edges[e] \in EdgeRow
    BY <1>0, <1>2 DEF EdgesWritten, Remapped
  <2>2. CASE s.type = "EDGE_UPDATED"
    <3>1. s.patch \in Patch(EdgeFields)
      BY <2>2, StatementTags DEF EdgeUpdated
    <3>2. Patched(edges[e].attrs, s.patch) \in EdgeAttrs
      BY <2>1, <3>1, PatchedType DEF EdgeRow, EdgeAttrs
    <3>3. EdgeAfter(edges[e], s) = [edges[e] EXCEPT !.attrs = Patched(edges[e].attrs, s.patch)]
      BY <2>2 DEF EdgeAfter
    <3> QED
      BY <1>0, <2>1, <3>2, <3>3 DEF EdgeRow
  <2>3. CASE s.type = "EDGE_RETRACTED"
    BY <1>0, <2>1, <2>3 DEF EdgeAfter, EdgeRow
  <2>4. CASE s.type \in {"REMAP_SOURCE", "MOVE_SOURCE"}
    <3>1. s.to \in NodeIds
      BY <2>4, StatementTags DEF Remap, Move
    <3>2. EdgeAfter(edges[e], s) = [edges[e] EXCEPT !.source = s.to]
      BY <2>4 DEF EdgeAfter
    <3> QED
      BY <1>0, <2>1, <3>1, <3>2 DEF EdgeRow
  <2>5. CASE s.type \in {"REMAP_TARGET", "MOVE_TARGET"}
    <3>1. s.to \in NodeIds
      BY <2>5, StatementTags DEF Remap, Move
    <3>2. EdgeAfter(edges[e], s) = [edges[e] EXCEPT !.target = s.to]
      BY <2>5 DEF EdgeAfter
    <3> QED
      BY <1>0, <2>1, <3>1, <3>2 DEF EdgeRow
  <2> QED
    BY <1>2, <2>2, <2>3, <2>4, <2>5
<1> QED
  BY <1>1, <1>2 DEF EdgesWritten, Remapped

\* An accepted statement turns tables of rows into tables of rows.
LEMMA WriteType ==
  ASSUME NEW view \in Db, NEW base \in Db, NEW s \in Statement,
         ~Rejected(view, s)
  PROVE  Write(view, base, s) \in Db
<1>1. /\ view.nodes \in [NodeIds -> NodeRow \cup {NoRow}]
      /\ base.nodes \in [NodeIds -> NodeRow \cup {NoRow}]
      /\ view.edges \in [EdgeIds -> EdgeRow \cup {NoRow}]
      /\ base.edges \in [EdgeIds -> EdgeRow \cup {NoRow}]
      /\ base.embeddings \in [NodeIds \X Models -> Vectors \cup {NoRow}]
  BY DEF Db
<1>2. Write(view, base, s).nodes \in [NodeIds -> NodeRow \cup {NoRow}]
  BY <1>1, NodeAfterType DEF Write
<1>3. Write(view, base, s).edges \in [EdgeIds -> EdgeRow \cup {NoRow}]
  BY <1>1, EdgeAfterType DEF Write
<1>4. \A m \in EmbeddingsWritten(s) : s.vector \in Vectors
  <2>1. SUFFICES ASSUME s.type = "EMBEDDING_STORED"
                 PROVE  s.vector \in Vectors
    BY DEF EmbeddingsWritten
  <2>2. s \in EmbeddingStored /\ s.vector # EmptyVector
    BY <2>1, StatementTags DEF Rejected
  <2> QED
    BY <2>2 DEF EmbeddingStored
<1>5. Write(view, base, s).embeddings
        \in [NodeIds \X Models -> Vectors \cup {NoRow}]
  BY <1>1, <1>4 DEF Write
<1> QED
  BY <1>2, <1>3, <1>5 DEF Write, Db

-----------------------------------------------------------------------------
(* Type correctness.                                                        *)

LEMMA IdleType == Idle \in Tx
  BY EmptyDbType DEF Idle, Tx, Phases

\* The updates that the actions make of the state of a client.
LEMMA TxCalled ==
  ASSUME NEW t \in Tx, NEW phase \in Phases, NEW batch \in Seq(Event)
  PROVE  [t EXCEPT !.phase = phase, !.batch = batch] \in Tx
  BY DEF Tx

LEMMA TxCollected ==
  ASSUME NEW t \in Tx, NEW phase \in Phases, NEW batch \in Seq(Event),
         NEW drawn \in SUBSET (NodeIds \cup EdgeIds)
  PROVE  [t EXCEPT !.phase = phase, !.batch = batch, !.drawn = drawn] \in Tx
  BY DEF Tx

LEMMA TxInserted ==
  ASSUME NEW t \in Tx, NEW phase \in Phases, NEW now \in Times, NEW pos \in Nat,
         NEW todo \in Seq(Statement), NEW rows \in SUBSET LogRow
  PROVE  [t EXCEPT !.phase = phase, !.now = now, !.pos = pos, !.todo = todo,
                   !.rows = rows] \in Tx
  BY DEF Tx

LEMMA TxScanned ==
  ASSUME NEW t \in Tx, NEW todo \in Seq(Statement)
  PROVE  [t EXCEPT !.todo = todo] \in Tx
  BY DEF Tx

LEMMA TxExecuted ==
  ASSUME NEW t \in Tx, NEW todo \in Seq(Statement), NEW delta \in Db
  PROVE  [t EXCEPT !.todo = todo, !.delta = delta] \in Tx
  BY DEF Tx

LEMMA CallType ==
  ASSUME TypeOK, NEW c \in Clients, NEW op, NEW event \in Event,
         Call(c, op, <<event>>)
  PROVE  TypeOK'
<1>1. [Idle EXCEPT !.phase = "open", !.batch = <<event>>] \in Tx
  <2>1. <<event>> \in Seq(Event) /\ "open" \in Phases
    BY DEF Phases
  <2> QED
    BY <2>1, IdleType, TxCalled
<1> QED
  BY <1>1 DEF Call, TypeOK

LEMMA CollectType ==
  ASSUME TypeOK, NEW c \in Clients, NEW op, NEW phase \in Phases, NEW ns,
         NEW id \in NodeIds \cup EdgeIds, NEW events \in Seq(Event),
         Collect(c, op, phase, ns, id, events)
  PROVE  TypeOK'
<1> DEFINE batch == tx[c].batch \o events
           drawn == tx[c].drawn \cup {id}
<1>1. [tx[c] EXCEPT !.phase = phase, !.batch = batch, !.drawn = drawn] \in Tx
  <2>1. tx[c] \in Tx
    BY DEF TypeOK
  <2>2. batch \in Seq(Event) /\ drawn \in SUBSET (NodeIds \cup EdgeIds)
    BY <2>1 DEF Tx
  <2> HIDE DEF batch, drawn
  <2> QED
    BY <2>1, <2>2, TxCollected
<1>2. tx' = [tx EXCEPT ![c] = [tx[c] EXCEPT !.phase = phase, !.batch = batch,
                                            !.drawn = drawn]]
  BY DEF Collect, TypeOK
<1>3. calls' \in Nat
  BY DEF Collect, TypeOK
<1>4. tx' \in [Clients -> Tx]
  BY <1>1, <1>2 DEF TypeOK
<1> QED
  BY <1>3, <1>4 DEF Collect, TypeOK

\* The events of one node are a NODE_CREATED, and at most an EMBEDDING_STORED.
LEMMA NodeEventsType ==
  ASSUME NEW ns \in Namespaces, NEW id \in NodeIds, NEW node \in NodeInputs
  PROVE  NodeEvents(ns, id, node) \in Seq(Event)
<1>1. node \in NodeInput
  BY EventStoreAssumption
<1>2. [type |-> "NODE_CREATED", ns |-> ns, id |-> id, key |-> node.key,
       attrs |-> node.attrs] \in Event
  BY <1>1 DEF NodeInput, Event, NodeCreated
<1>3. node.vector # NoRow =>
        [type |-> "EMBEDDING_STORED", ns |-> ns, node |-> id,
         model |-> node.model, vector |-> node.vector] \in Event
  BY <1>1 DEF NodeInput, Event, EmbeddingStored
<1>4. CASE node.vector = NoRow
  BY <1>2, <1>4 DEF NodeEvents
<1>5. CASE node.vector # NoRow
  BY <1>2, <1>3, <1>5 DEF NodeEvents
<1> QED
  BY <1>4, <1>5

LEMMA ViewType ==
  ASSUME TypeOK, NEW c \in Clients
  PROVE  View(c) \in Db
  BY OverlayDbType DEF View, TypeOK, Tx

LEMMA RollbackType ==
  ASSUME TypeOK, NEW c \in Clients, Rollback(c)
  PROVE  TypeOK'
  BY IdleType DEF Rollback, TypeOK

\* What InsertEvent makes of its client.
InsertedTx(t, now, row) ==
  [t EXCEPT !.phase = "open", !.now = now, !.pos = t.pos + 1,
            !.todo = Statements(At(row.event, now)), !.rows = t.rows \cup {row}]

LEMMA InsertEventChanges ==
  ASSUME TypeOK, NEW c \in Clients, InsertEvent(c)
  PROVE  /\ tx[c] \in Tx /\ tx[c].batch[tx[c].pos + 1] \in Event
         /\ seq' = seq + 1
         /\ UNCHANGED <<log, db, known, calls>>
         /\ \E now \in Times :
              tx' = [tx EXCEPT ![c] = InsertedTx(tx[c], now,
                       [id |-> seq + 1, event |-> tx[c].batch[tx[c].pos + 1]])]
<1> DEFINE event == tx[c].batch[tx[c].pos + 1]
<1>1. tx[c] \in Tx /\ event \in Event
  BY DEF TypeOK, Tx, InsertEvent
<1>2. Instants(c) \subseteq Times
  BY <1>1 DEF Instants, Tx
<1>3. PICK now \in Instants(c) :
        tx' = [tx EXCEPT ![c].phase = "open",
                         ![c].now = now,
                         ![c].pos = @ + 1,
                         ![c].todo = Statements(At(event, now)),
                         ![c].rows = @ \cup {[id |-> seq + 1, event |-> event]}]
  BY DEF InsertEvent
<1>4. tx' = [tx EXCEPT ![c] = InsertedTx(tx[c], now, [id |-> seq + 1, event |-> event])]
  BY <1>3 DEF InsertedTx, TypeOK
<1> QED
  BY <1>1, <1>2, <1>4 DEF InsertEvent

LEMMA InsertEventType ==
  ASSUME TypeOK, NEW c \in Clients, InsertEvent(c)
  PROVE  TypeOK'
<1> DEFINE event == tx[c].batch[tx[c].pos + 1]
<1>1. tx[c] \in Tx /\ event \in Event
  BY InsertEventChanges
<1>0. PICK now \in Times :
        tx' = [tx EXCEPT ![c] = InsertedTx(tx[c], now, [id |-> seq + 1, event |-> event])]
  BY InsertEventChanges
<1>2. Statements(At(event, now)) \in Seq(Statement)
  BY <1>1, AtType, StatementsType
<1>3. [id |-> seq + 1, event |-> event] \in LogRow
  BY <1>1 DEF TypeOK, LogRow
<1> DEFINE pos == tx[c].pos + 1
           todo == Statements(At(event, now))
           rows == tx[c].rows \cup {[id |-> seq + 1, event |-> event]}
<1>4. [tx[c] EXCEPT !.phase = "open", !.now = now, !.pos = pos, !.todo = todo,
                    !.rows = rows] \in Tx
  <2>1. /\ pos \in Nat /\ rows \in SUBSET LogRow
        /\ todo \in Seq(Statement) /\ "open" \in Phases
    BY <1>1, <1>2, <1>3 DEF Tx, Phases
  <2> HIDE DEF pos, todo, rows
  <2> QED
    BY <1>1, <2>1, TxInserted
<1>5. InsertedTx(tx[c], now, [id |-> seq + 1, event |-> event]) \in Tx
  BY <1>4 DEF InsertedTx
<1>6. tx' \in [Clients -> Tx]
  BY <1>0, <1>5 DEF TypeOK
<1>7. seq' \in Nat
  BY DEF InsertEvent, TypeOK
<1> QED
  BY <1>6, <1>7, InsertEventChanges DEF TypeOK

\* A scan changes nothing but the statements that are left.
LEMMA ScanChanges ==
  ASSUME NEW c \in Clients, Scan(c)
  PROVE  /\ tx[c].todo # << >>
         /\ Head(tx[c].todo).type \in RemapTypes
         /\ \E todo : tx' = [tx EXCEPT ![c].todo = todo]
         /\ UNCHANGED <<seq, log, db, known, calls>>
BY DEF Scan

LEMMA ScanKeeps ==
  ASSUME TypeOK, NEW c \in Clients, Scan(c), NEW d \in Clients
  PROVE  tx'[d].delta = tx[d].delta /\ tx'[d].rows = tx[d].rows
<1>1. PICK todo : tx' = [tx EXCEPT ![c].todo = todo]
  BY ScanChanges
<1>2. tx \in [Clients -> Tx]
  BY DEF TypeOK
<1>3. CASE d = c
  <2>1. tx'[c] = [tx[c] EXCEPT !.todo = todo]
    BY <1>1, <1>2
  <2>2. tx[c] \in Tx
    BY <1>2
  <2> QED
    BY <1>3, <2>1, <2>2 DEF Tx
<1>4. CASE d # c
  BY <1>1, <1>2, <1>4
<1> QED
  BY <1>3, <1>4

LEMMA ScanType ==
  ASSUME TypeOK, NEW c \in Clients, Scan(c)
  PROVE  TypeOK'
<1> DEFINE s == Head(tx[c].todo)
           move == IF s.type = "REMAP_SOURCE" THEN "MOVE_SOURCE" ELSE "MOVE_TARGET"
           found == EdgesWritten(View(c).edges, s)
           moves(order) == [i \in DOMAIN order |-> [type |-> move, id |-> order[i],
                                                    from |-> s.from, to |-> s.to]]
<1>1. PICK order \in Orders(found) :
        tx' = [tx EXCEPT ![c].todo = moves(order) \o Tail(@)]
  BY DEF Scan
<1>2. tx[c] \in Tx /\ s \in Statement /\ s.type \in RemapTypes
  <2>1. tx[c] \in Tx
    BY DEF TypeOK
  <2>2. tx[c].todo \in Seq(Statement)
    BY <2>1 DEF Tx
  <2> QED
    BY <2>1, <2>2, ScanChanges
<1>3. s.from \in NodeIds /\ s.to \in NodeIds
  BY <1>2, StatementTags DEF Remap, RemapTypes
<1>4. found \subseteq EdgeIds /\ IsFiniteSet(found)
  BY GraphAssumption, FS_Subset DEF EdgesWritten, Remapped
<1>5. Cardinality(found) \in Nat
  BY <1>4, FS_CardinalityType
<1>6. order \in [1 .. Cardinality(found) -> EdgeIds]
  BY <1>4 DEF Orders
<1>7. \A i \in DOMAIN order :
        [type |-> move, id |-> order[i], from |-> s.from, to |-> s.to] \in Statement
  BY <1>3, <1>6 DEF Statement, Move
<1>8. moves(order) \in Seq(Statement)
  BY <1>5, <1>6, <1>7
<1>9. moves(order) \o Tail(tx[c].todo) \in Seq(Statement)
  <2>1. tx[c].todo \in Seq(Statement) /\ tx[c].todo # << >>
    BY <1>2, ScanChanges DEF Tx
  <2>2. Tail(tx[c].todo) \in Seq(Statement)
    BY <2>1
  <2> HIDE DEF moves
  <2> QED
    BY <1>8, <2>2
<1>10. tx' \in [Clients -> Tx]
  <2> HIDE DEF moves
  <2>1. [tx[c] EXCEPT !.todo = moves(order) \o Tail(tx[c].todo)] \in Tx
    BY <1>2, <1>9, TxScanned
  <2> QED
    BY <1>1, <2>1 DEF TypeOK
<1> QED
  BY <1>10 DEF TypeOK, Scan

LEMMA ExecuteType ==
  ASSUME TypeOK, NEW c \in Clients, Execute(c)
  PROVE  TypeOK'
<1> DEFINE s == Head(tx[c].todo)
           delta == Write(View(c), tx[c].delta, s)
<1>1. tx[c] \in Tx /\ s \in Statement /\ ~Rejected(View(c), s)
  BY DEF TypeOK, Tx, Execute
<1>2. delta \in Db
  BY <1>1, ViewType, WriteType DEF Tx
<1> DEFINE todo == Tail(tx[c].todo)
<1>3. [tx[c] EXCEPT !.todo = todo, !.delta = delta] \in Tx
  <2>1. todo \in Seq(Statement)
    BY <1>1 DEF Tx, Execute
  <2> HIDE DEF todo, delta
  <2> QED
    BY <1>1, <1>2, <2>1, TxExecuted
<1>4. tx' = [tx EXCEPT ![c] = [tx[c] EXCEPT !.todo = Tail(tx[c].todo), !.delta = delta]]
  BY DEF Execute, TypeOK
<1> QED
  BY <1>3, <1>4 DEF TypeOK, Execute

LEMMA CommitType ==
  ASSUME TypeOK, NEW c \in Clients, Commit(c)
  PROVE  TypeOK'
<1>1. View(c) \in Db
  BY ViewType
<1>2. tx[c] \in Tx
  BY DEF TypeOK
<1> QED
  BY <1>1, <1>2, IdleType DEF Commit, TypeOK, Tx

\* Which kind of step a step is: a call of Memory, one of the two loops that
\* collect a batch, or a step of a transaction.
LEMMA StepKinds ==
  ASSUME TypeOK, NEW c \in Clients,
         \/ AddNodes(c) \/ AddEdges(c) \/ UpdateNode(c) \/ RetractNode(c)
         \/ RetractEdge(c) \/ MergeNodes(c) \/ ApplyEvent(c)
  PROVE  \/ \E op : \E event \in Event : Call(c, op, <<event>>)
         \/ \E ns \in Namespaces, id \in NodeIds, node \in NodeInputs :
              Collect(c, "add_nodes", "nodes", ns, id, NodeEvents(ns, id, node))
         \/ \E ns \in Namespaces, id \in EdgeIds, event \in EdgeAdded :
              event.id = id /\ Collect(c, "add_edges", "edges", ns, id, <<event>>)
<1>1. CASE AddNodes(c)
  BY <1>1 DEF AddNodes
<1>2. CASE AddEdges(c)
  <2>1. PICK ns \in Namespaces, id \in EdgeIds, edge \in EdgeInputs,
             source \in KnownNodes, target \in KnownNodes :
          Collect(c, "add_edges", "edges", ns, id,
                  << [type |-> "EDGE_ADDED", ns |-> ns, id |-> id,
                      source |-> source, target |-> target, attrs |-> edge.attrs,
                      valid_from |-> edge.valid_from] >>)
    BY <1>2 DEF AddEdges
  <2>2. [type |-> "EDGE_ADDED", ns |-> ns, id |-> id, source |-> source,
         target |-> target, attrs |-> edge.attrs,
         valid_from |-> edge.valid_from] \in EdgeAdded
    BY EventStoreAssumption DEF EdgeAdded, KnownNodes, EdgeInput
  <2> QED
    BY <2>1, <2>2
<1>3. CASE UpdateNode(c)
  <2>1. PICK id \in KnownNodes, patch \in NodePatches :
          Call(c, "update_node", << [type |-> "NODE_UPDATED", ns |-> DefaultNamespace,
                                     id |-> id, patch |-> patch] >>)
    BY <1>3 DEF UpdateNode
  <2>2. [type |-> "NODE_UPDATED", ns |-> DefaultNamespace, id |-> id,
         patch |-> patch] \in Event
    BY EventStoreAssumption, GraphAssumption DEF Event, NodeUpdated, KnownNodes
  <2> QED
    BY <2>1, <2>2
<1>4. CASE RetractNode(c)
  <2>1. PICK id \in KnownNodes :
          Call(c, "retract_node", << [type |-> "NODE_RETRACTED",
                                      ns |-> DefaultNamespace, id |-> id] >>)
    BY <1>4 DEF RetractNode
  <2>2. [type |-> "NODE_RETRACTED", ns |-> DefaultNamespace, id |-> id] \in Event
    BY GraphAssumption DEF Event, NodeRetracted, KnownNodes
  <2> QED
    BY <2>1, <2>2
<1>5. CASE RetractEdge(c)
  <2>1. PICK id \in KnownEdges :
          Call(c, "retract_edge", << [type |-> "EDGE_RETRACTED",
                                      ns |-> DefaultNamespace, id |-> id] >>)
    BY <1>5 DEF RetractEdge
  <2>2. [type |-> "EDGE_RETRACTED", ns |-> DefaultNamespace, id |-> id] \in Event
    BY GraphAssumption DEF Event, EdgeRetracted, KnownEdges
  <2> QED
    BY <2>1, <2>2
<1>6. CASE MergeNodes(c)
  <2>1. PICK kept \in KnownNodes, removed \in KnownNodes :
          Call(c, "merge_nodes", << [type |-> "NODES_MERGED", ns |-> DefaultNamespace,
                                     kept |-> kept, removed |-> removed] >>)
    BY <1>6 DEF MergeNodes
  <2>2. [type |-> "NODES_MERGED", ns |-> DefaultNamespace, kept |-> kept,
         removed |-> removed] \in Event
    BY GraphAssumption DEF Event, NodesMerged, KnownNodes
  <2> QED
    BY <2>1, <2>2
<1>7. CASE ApplyEvent(c)
  <2>1. PICK ns \in Namespaces :
          \/ \E id \in KnownEdges, patch \in EdgePatches :
               Call(c, "apply_event", << [type |-> "EDGE_UPDATED", ns |-> ns,
                                          id |-> id, patch |-> patch] >>)
          \/ \E node \in KnownNodes, model \in Models,
                vector \in Vectors \cup {EmptyVector} :
               Call(c, "apply_event", << [type |-> "EMBEDDING_STORED", ns |-> ns,
                                          node |-> node, model |-> model,
                                          vector |-> vector] >>)
          \/ Call(c, "apply_event", << [type |-> "RAW_INPUT_RECEIVED", ns |-> ns] >>)
    BY <1>7 DEF ApplyEvent
  <2>2. \A id \in KnownEdges, patch \in EdgePatches :
          [type |-> "EDGE_UPDATED", ns |-> ns, id |-> id, patch |-> patch] \in Event
    BY EventStoreAssumption DEF Event, EdgeUpdated, KnownEdges
  <2>3. \A node \in KnownNodes, model \in Models, vector \in Vectors \cup {EmptyVector} :
          [type |-> "EMBEDDING_STORED", ns |-> ns, node |-> node, model |-> model,
           vector |-> vector] \in Event
    BY DEF Event, EmbeddingStored, KnownNodes
  <2>4. [type |-> "RAW_INPUT_RECEIVED", ns |-> ns] \in Event
    BY DEF Event, RawInputReceived
  <2> QED
    BY <2>1, <2>2, <2>3, <2>4
<1> QED
  BY <1>1, <1>2, <1>3, <1>4, <1>5, <1>6, <1>7

LEMMA TypeStep == TypeOK /\ [Next]_vars => TypeOK'
<1> SUFFICES ASSUME TypeOK, [Next]_vars PROVE TypeOK'
  OBVIOUS
<1>1. CASE UNCHANGED vars
  BY <1>1 DEF TypeOK, vars
<1>2. ASSUME NEW c \in Clients,
             \/ AddNodes(c) \/ AddEdges(c) \/ UpdateNode(c) \/ RetractNode(c)
             \/ RetractEdge(c) \/ MergeNodes(c) \/ ApplyEvent(c)
      PROVE  TypeOK'
  <2>1. CASE \E op : \E event \in Event : Call(c, op, <<event>>)
    BY <2>1, CallType
  <2>2. CASE \E ns \in Namespaces, id \in NodeIds, node \in NodeInputs :
               Collect(c, "add_nodes", "nodes", ns, id, NodeEvents(ns, id, node))
    BY <2>2, NodeEventsType, CollectType DEF Phases
  <2>3. CASE \E ns \in Namespaces, id \in EdgeIds, event \in EdgeAdded :
               event.id = id /\ Collect(c, "add_edges", "edges", ns, id, <<event>>)
    <3>1. PICK ns \in Namespaces, id \in EdgeIds, event \in EdgeAdded :
            Collect(c, "add_edges", "edges", ns, id, <<event>>)
      BY <2>3
    <3>2. <<event>> \in Seq(Event)
      BY DEF Event
    <3> QED
      BY <3>1, <3>2, CollectType DEF Phases
  <2> QED
    BY <1>2, <2>1, <2>2, <2>3, StepKinds
<1>3. ASSUME NEW c \in Clients, Step(c) \/ Crash(c)
      PROVE  TypeOK'
  BY <1>3, InsertEventType, ScanType, ExecuteType, CommitType, RollbackType
     DEF Step, Fail, DeadlockVictim, Crash
<1> QED
  BY <1>1, <1>2, <1>3 DEF Next

LEMMA TypeInit == Init => TypeOK
  BY IdleType, EmptyDbType DEF Init, TypeOK

\* Every reachable state is well typed, for any set of clients, identities and
\* inputs.
THEOREM TypeCorrect == Spec => []TypeOK
  BY TypeInit, TypeStep, PTL DEF Spec

-----------------------------------------------------------------------------
(* What one statement does to one row.                                      *)

\* A written node keeps its key and stays retracted; a new one takes the key
\* of the statement, which nobody held.
LEMMA WrittenNode ==
  ASSUME NEW nodes \in [NodeIds -> NodeRow \cup {NoRow}], NEW s \in Statement,
         NEW n \in NodesWritten(nodes, s)
  PROVE  /\ n \in NodeIds
         /\ NodeAfter(nodes[n], s) \in NodeRow
         /\ nodes[n] # NoRow =>
              /\ NodeAfter(nodes[n], s).key = nodes[n].key
              /\ NodeAfter(nodes[n], s).ns = nodes[n].ns
              /\ nodes[n].retracted => NodeAfter(nodes[n], s).retracted
         /\ nodes[n] = NoRow =>
              /\ s.type = "NODE_CREATED" /\ n = s.id
              /\ KeyHolders(nodes, s) = {}
              /\ NodeAfter(nodes[n], s).key = s.key
              /\ NodeAfter(nodes[n], s).ns = s.ns
<1>1. n \in NodeIds /\ NodeAfter(nodes[n], s) \in NodeRow
  BY NodeAfterType
<1>2. ASSUME nodes[n] = NoRow
      PROVE  /\ s.type = "NODE_CREATED" /\ n = s.id
             /\ KeyHolders(nodes, s) = {}
             /\ NodeAfter(nodes[n], s).key = s.key
             /\ NodeAfter(nodes[n], s).ns = s.ns
  <2>1. s.type = "NODE_CREATED" /\ n = s.id /\ KeyHolders(nodes, s) = {}
    BY <1>2 DEF NodesWritten, KeyHolders
  <2>2. NodeAfter(nodes[n], s) = [ns |-> s.ns, key |-> s.key, attrs |-> s.attrs,
                                  retracted |-> FALSE]
    BY <1>2, <2>1 DEF NodeAfter
  <2> QED
    BY <2>1, <2>2
<1>3. ASSUME nodes[n] # NoRow
      PROVE  /\ NodeAfter(nodes[n], s).key = nodes[n].key
             /\ NodeAfter(nodes[n], s).ns = nodes[n].ns
             /\ nodes[n].retracted => NodeAfter(nodes[n], s).retracted
  <2>1. nodes[n] \in NodeRow
    BY <1>1, <1>3
  <2>2. CASE s.type = "NODE_CREATED"
    <3>1. NodeAfter(nodes[n], s) = [nodes[n] EXCEPT !.attrs = s.attrs]
      BY <1>3, <2>2 DEF NodeAfter
    <3> QED
      BY <2>1, <3>1 DEF NodeRow
  <2>3. CASE s.type = "NODE_UPDATED"
    <3>1. NodeAfter(nodes[n], s) = [nodes[n] EXCEPT !.attrs = Patched(nodes[n].attrs, s.patch)]
      BY <2>3 DEF NodeAfter
    <3> QED
      BY <2>1, <3>1 DEF NodeRow
  <2>4. CASE s.type = "NODE_RETRACTED"
    <3>1. NodeAfter(nodes[n], s) = [nodes[n] EXCEPT !.retracted = TRUE]
      BY <2>4 DEF NodeAfter
    <3> QED
      BY <2>1, <3>1 DEF NodeRow
  <2> QED
    BY <2>2, <2>3, <2>4 DEF NodesWritten
<1> QED
  BY <1>1, <1>2, <1>3

\* An edge an accepted statement writes stays retracted and goes between nodes
\* that are there.
LEMMA WrittenEdge ==
  ASSUME NEW d \in Db, NEW s \in Statement, NEW e \in EdgesWritten(d.edges, s),
         ~Rejected(d, s), Anchored(d)
  PROVE  /\ e \in EdgeIds
         /\ EdgeAfter(d.edges[e], s) \in EdgeRow
         /\ d.nodes[EdgeAfter(d.edges[e], s).source] # NoRow
         /\ d.nodes[EdgeAfter(d.edges[e], s).target] # NoRow
<1>1. e \in EdgeIds /\ EdgeAfter(d.edges[e], s) \in EdgeRow
  <2>1. d.edges \in [EdgeIds -> EdgeRow \cup {NoRow}]
    BY DEF Db
  <2> QED
    BY <2>1, EdgeAfterType
<1>2. CASE s.type = "EDGE_ADDED"
  <2>1. EdgeAfter(d.edges[e], s) =
          [ns |-> s.ns, source |-> s.source, target |-> s.target,
           attrs |-> s.attrs, valid_from |-> s.valid_from, retracted |-> FALSE]
    BY <1>2 DEF EdgeAfter
  <2> QED
    BY <1>1, <1>2, <2>1 DEF Rejected
<1>3. CASE s.type # "EDGE_ADDED"
  <2>1. d.edges[e] \in EdgeRow
    BY <1>1, <1>3 DEF EdgesWritten, Remapped, Db
  <2>2. /\ d.nodes[d.edges[e].source] # NoRow
        /\ d.nodes[d.edges[e].target] # NoRow
    BY <1>1, <2>1, GraphAssumption DEF Anchored
  <2>3. CASE s.type = "EDGE_UPDATED"
    <3>1. EdgeAfter(d.edges[e], s) = [d.edges[e] EXCEPT !.attrs = Patched(d.edges[e].attrs, s.patch)]
      BY <2>3 DEF EdgeAfter
    <3> QED
      BY <1>1, <2>1, <2>2, <3>1 DEF EdgeRow
  <2>4. CASE s.type = "EDGE_RETRACTED"
    <3>1. EdgeAfter(d.edges[e], s) = [d.edges[e] EXCEPT !.retracted = TRUE]
      BY <2>4 DEF EdgeAfter
    <3> QED
      BY <1>1, <2>1, <2>2, <3>1 DEF EdgeRow
  <2>5. CASE s.type \in {"REMAP_SOURCE", "MOVE_SOURCE"}
    <3>1. EdgeAfter(d.edges[e], s) = [d.edges[e] EXCEPT !.source = s.to]
      BY <2>5 DEF EdgeAfter
    <3>2. d.nodes[s.to] # NoRow
      BY <2>5 DEF Rejected
    <3> QED
      BY <1>1, <2>1, <2>2, <3>1, <3>2 DEF EdgeRow
  <2>6. CASE s.type \in {"REMAP_TARGET", "MOVE_TARGET"}
    <3>1. EdgeAfter(d.edges[e], s) = [d.edges[e] EXCEPT !.target = s.to]
      BY <2>6 DEF EdgeAfter
    <3>2. d.nodes[s.to] # NoRow
      BY <2>6 DEF Rejected
    <3> QED
      BY <1>1, <2>1, <2>2, <3>1, <3>2 DEF EdgeRow
  <2> QED
    BY <1>3, <2>3, <2>4, <2>5, <2>6 DEF EdgesWritten, Remapped
<1> QED
  BY <1>1, <1>2, <1>3

\* An edge that is there keeps its namespace, and stays retracted.
LEMMA EdgeStays ==
  ASSUME NEW d \in Db, NEW s \in Statement, NEW e \in EdgesWritten(d.edges, s),
         ~Rejected(d, s), d.edges[e] # NoRow
  PROVE  /\ EdgeAfter(d.edges[e], s).ns = d.edges[e].ns
         /\ d.edges[e].retracted => EdgeAfter(d.edges[e], s).retracted
<1>1. e \in EdgeIds /\ d.edges[e] \in EdgeRow
  BY DEF EdgesWritten, Remapped, Db
<1>2. s.type # "EDGE_ADDED"
  BY DEF Rejected, EdgesWritten, Remapped
<1>3. CASE s.type = "EDGE_UPDATED"
  <2>1. EdgeAfter(d.edges[e], s) = [d.edges[e] EXCEPT !.attrs = Patched(d.edges[e].attrs, s.patch)]
    BY <1>3 DEF EdgeAfter
  <2> QED
    BY <1>1, <2>1 DEF EdgeRow
<1>4. CASE s.type = "EDGE_RETRACTED"
  <2>1. EdgeAfter(d.edges[e], s) = [d.edges[e] EXCEPT !.retracted = TRUE]
    BY <1>4 DEF EdgeAfter
  <2> QED
    BY <1>1, <2>1 DEF EdgeRow
<1>5. CASE s.type \in {"REMAP_SOURCE", "MOVE_SOURCE"}
  <2>1. EdgeAfter(d.edges[e], s) = [d.edges[e] EXCEPT !.source = s.to]
    BY <1>5 DEF EdgeAfter
  <2> QED
    BY <1>1, <2>1 DEF EdgeRow
<1>6. CASE s.type \in {"REMAP_TARGET", "MOVE_TARGET"}
  <2>1. EdgeAfter(d.edges[e], s) = [d.edges[e] EXCEPT !.target = s.to]
    BY <1>6 DEF EdgeAfter
  <2> QED
    BY <1>1, <2>1 DEF EdgeRow
<1> QED
  BY <1>2, <1>3, <1>4, <1>5, <1>6 DEF EdgesWritten, Remapped

-----------------------------------------------------------------------------
(* What a step does to tables and deltas: nothing, or it drops the delta of  *)
(* one client, or it is the statement or the commit of one client.           *)

Still == db' = db /\ \A d \in Clients : tx'[d].delta = tx[d].delta

Reset(c) == /\ db' = db
            /\ tx'[c].delta = EmptyDb
            /\ \A d \in Clients \ {c} : tx'[d].delta = tx[d].delta

LEMMA CallData ==
  ASSUME TypeOK, NEW c \in Clients, NEW op, NEW event, Call(c, op, <<event>>)
  PROVE  Reset(c)
<1>1. tx'[c] = [Idle EXCEPT !.phase = "open", !.batch = <<event>>]
  BY DEF Call, TypeOK
<1>2. \A d \in Clients \ {c} : tx'[d] = tx[d]
  BY DEF Call, TypeOK
<1>3. tx'[c].delta = EmptyDb
  BY <1>1 DEF Idle
<1> QED
  BY <1>2, <1>3 DEF Reset, Call

LEMMA CollectData ==
  ASSUME TypeOK, NEW c \in Clients, NEW op, NEW phase, NEW ns, NEW id, NEW events,
         Collect(c, op, phase, ns, id, events)
  PROVE  Still
  BY DEF Collect, TypeOK, Tx, Still

LEMMA DataSteps ==
  ASSUME TypeOK, [Next]_vars
  PROVE  \/ Still
         \/ \E c \in Clients : Reset(c)
         \/ \E c \in Clients : Execute(c)
         \/ \E c \in Clients : Commit(c)
<1>1. CASE UNCHANGED vars
  BY <1>1 DEF vars, Still
<1>2. ASSUME NEW c \in Clients,
             \/ AddNodes(c) \/ AddEdges(c) \/ UpdateNode(c) \/ RetractNode(c)
             \/ RetractEdge(c) \/ MergeNodes(c) \/ ApplyEvent(c)
      PROVE  Still \/ Reset(c)
  BY <1>2, StepKinds, CallData, CollectData
<1>3. ASSUME NEW c \in Clients, InsertEvent(c)
      PROVE  Still
  <2> DEFINE row == [id |-> seq + 1, event |-> tx[c].batch[tx[c].pos + 1]]
  <2>1. PICK now \in Times : /\ tx' = [tx EXCEPT ![c] = InsertedTx(tx[c], now, row)]
                            /\ tx[c] \in Tx /\ db' = db
    BY <1>3, InsertEventChanges
  <2> HIDE DEF row
  <2>2. InsertedTx(tx[c], now, row).delta = tx[c].delta
    BY <2>1 DEF InsertedTx, Tx
  <2> QED
    BY <2>1, <2>2 DEF TypeOK, Still
<1>4. ASSUME NEW c \in Clients, Scan(c)
      PROVE  Still
  BY <1>4, ScanChanges, ScanKeeps DEF Still
<1>5. ASSUME NEW c \in Clients, Rollback(c)
      PROVE  Reset(c)
  <2>1. tx'[c] = Idle /\ \A d \in Clients \ {c} : tx'[d] = tx[d]
    BY <1>5 DEF Rollback, TypeOK
  <2> QED
    BY <1>5, <2>1 DEF Rollback, Reset, Idle
<1> QED
  BY <1>1, <1>2, <1>3, <1>4, <1>5 DEF Next, Step, Fail, DeadlockVictim, Crash

LEMMA EmptyTables ==
  /\ \A n \in NodeIds : EmptyDb.nodes[n] = NoRow
  /\ \A e \in EdgeIds : EmptyDb.edges[e] = NoRow
  /\ \A m \in NodeIds \X Models : EmptyDb.embeddings[m] = NoRow
  BY DEF EmptyDb

LEMMA CommitData ==
  ASSUME TypeOK, NEW c \in Clients, Commit(c)
  PROVE  /\ db' = View(c)
         /\ tx'[c].delta = EmptyDb
         /\ \A d \in Clients \ {c} : tx'[d].delta = tx[d].delta
<1>1. tx'[c] = Idle /\ \A d \in Clients \ {c} : tx'[d] = tx[d]
  BY DEF Commit, TypeOK
<1> QED
  BY <1>1 DEF Commit, Idle

\* A statement writes its rows in the delta of its client, and leaves the
\* deltas of the others, none of which holds a row it writes.
LEMMA ExecuteData ==
  ASSUME TypeOK, NEW c \in Clients, Execute(c)
  PROVE  LET s == Head(tx[c].todo) IN
         /\ s \in Statement
         /\ ~Rejected(View(c), s)
         /\ db' = db
         /\ \A d \in Clients \ {c} : tx'[d].delta = tx[d].delta
         /\ tx'[c].delta = Write(View(c), tx[c].delta, s)
         /\ \A n \in NodeIds : tx'[c].delta.nodes[n] =
              IF n \in NodesWritten(View(c).nodes, s)
              THEN NodeAfter(View(c).nodes[n], s) ELSE tx[c].delta.nodes[n]
         /\ \A e \in EdgeIds : tx'[c].delta.edges[e] =
              IF e \in EdgesWritten(View(c).edges, s)
              THEN EdgeAfter(View(c).edges[e], s) ELSE tx[c].delta.edges[e]
         /\ \A m \in NodeIds \X Models : tx'[c].delta.embeddings[m] =
              IF m \in EmbeddingsWritten(s)
              THEN s.vector ELSE tx[c].delta.embeddings[m]
         /\ \A d \in Clients \ {c} :
              /\ \A n \in NodesWritten(View(c).nodes, s) : tx[d].delta.nodes[n] = NoRow
              /\ \A e \in EdgesWritten(View(c).edges, s) : tx[d].delta.edges[e] = NoRow
              /\ \A m \in EmbeddingsWritten(s) : tx[d].delta.embeddings[m] = NoRow
              /\ s.type = "NODE_CREATED" => KeyHolders(tx[d].delta.nodes, s) = {}
<1> DEFINE s == Head(tx[c].todo)
<1>1. s \in Statement /\ ~Rejected(View(c), s) /\ Granted(c, s) /\ db' = db
  BY DEF Execute, TypeOK, Tx
<1>2. tx'[c].delta = Write(View(c), tx[c].delta, s)
  BY DEF Execute, TypeOK, Tx
<1>3. \A d \in Clients \ {c} : tx'[d].delta = tx[d].delta
  BY DEF Execute, TypeOK, Tx
<1>4. /\ \A n \in NodeIds : tx'[c].delta.nodes[n] =
              IF n \in NodesWritten(View(c).nodes, s)
              THEN NodeAfter(View(c).nodes[n], s) ELSE tx[c].delta.nodes[n]
      /\ \A e \in EdgeIds : tx'[c].delta.edges[e] =
              IF e \in EdgesWritten(View(c).edges, s)
              THEN EdgeAfter(View(c).edges[e], s) ELSE tx[c].delta.edges[e]
      /\ \A m \in NodeIds \X Models : tx'[c].delta.embeddings[m] =
              IF m \in EmbeddingsWritten(s)
              THEN s.vector ELSE tx[c].delta.embeddings[m]
  <2> HIDE DEF s
  <2> QED
    BY <1>2 DEF Write
<1>5. ASSUME NEW d \in Clients \ {c}
      PROVE  /\ \A n \in NodesWritten(View(c).nodes, s) : tx[d].delta.nodes[n] = NoRow
             /\ \A e \in EdgesWritten(View(c).edges, s) : tx[d].delta.edges[e] = NoRow
             /\ \A m \in EmbeddingsWritten(s) : tx[d].delta.embeddings[m] = NoRow
             /\ s.type = "NODE_CREATED" => KeyHolders(tx[d].delta.nodes, s) = {}
  <2>1. ~Holds(d, c, s)
    BY <1>1, <1>5 DEF Granted
  <2> HIDE DEF s
  <2> QED
    BY <2>1, <1>5 DEF Holds
<1> QED
  BY <1>1, <1>2, <1>3, <1>4, <1>5

-----------------------------------------------------------------------------
(* Writers exclude each other.                                              *)

\* No row has two uncommitted versions.
Exclusion ==
  \A c, d \in Clients : c # d =>
    /\ \A n \in NodeIds : tx[c].delta.nodes[n] = NoRow \/ tx[d].delta.nodes[n] = NoRow
    /\ \A e \in EdgeIds : tx[c].delta.edges[e] = NoRow \/ tx[d].delta.edges[e] = NoRow
    /\ \A m \in NodeIds \X Models :
         tx[c].delta.embeddings[m] = NoRow \/ tx[d].delta.embeddings[m] = NoRow

LEMMA ExclusionStep == TypeOK /\ Exclusion /\ [Next]_vars => Exclusion'
<1> SUFFICES ASSUME TypeOK, Exclusion, [Next]_vars PROVE Exclusion'
  OBVIOUS
<1>1. CASE Still
  BY <1>1 DEF Still, Exclusion
<1>2. ASSUME NEW c \in Clients, Reset(c)
      PROVE  Exclusion'
  BY <1>2, EmptyTables DEF Reset, Exclusion
<1>3. ASSUME NEW c \in Clients, Commit(c)
      PROVE  Exclusion'
  BY <1>3, CommitData, EmptyTables DEF Exclusion
<1>4. ASSUME NEW c \in Clients, Execute(c)
      PROVE  Exclusion'
  <2> DEFINE s == Head(tx[c].todo)
  <2>1. SUFFICES ASSUME NEW d \in Clients \ {c}
        PROVE  /\ \A n \in NodeIds :
                    tx'[c].delta.nodes[n] = NoRow \/ tx[d].delta.nodes[n] = NoRow
               /\ \A e \in EdgeIds :
                    tx'[c].delta.edges[e] = NoRow \/ tx[d].delta.edges[e] = NoRow
               /\ \A m \in NodeIds \X Models :
                    tx'[c].delta.embeddings[m] = NoRow \/ tx[d].delta.embeddings[m] = NoRow
    <3>1. \A d \in Clients \ {c} : tx'[d].delta = tx[d].delta
      BY <1>4, ExecuteData
    <3> QED
      BY <3>1 DEF Exclusion
  <2>2. \A n \in NodeIds : tx'[c].delta.nodes[n] = NoRow \/ tx[d].delta.nodes[n] = NoRow
    BY <1>4, ExecuteData DEF Exclusion
  <2>3. \A e \in EdgeIds : tx'[c].delta.edges[e] = NoRow \/ tx[d].delta.edges[e] = NoRow
    BY <1>4, ExecuteData DEF Exclusion
  <2>4. \A m \in NodeIds \X Models :
          tx'[c].delta.embeddings[m] = NoRow \/ tx[d].delta.embeddings[m] = NoRow
    BY <1>4, ExecuteData DEF Exclusion
  <2> QED
    BY <2>2, <2>3, <2>4
<1> QED
  BY <1>1, <1>2, <1>3, <1>4, DataSteps

LEMMA ExclusionInit == Init => Exclusion
  BY EmptyTables DEF Init, Exclusion, Idle

-----------------------------------------------------------------------------
(* Views.                                                                   *)

LEMMA ViewRows ==
  ASSUME TypeOK, NEW c \in Clients
  PROVE  /\ \A n \in NodeIds : View(c).nodes[n] =
              IF tx[c].delta.nodes[n] = NoRow THEN db.nodes[n] ELSE tx[c].delta.nodes[n]
         /\ \A e \in EdgeIds : View(c).edges[e] =
              IF tx[c].delta.edges[e] = NoRow THEN db.edges[e] ELSE tx[c].delta.edges[e]
         /\ \A m \in NodeIds \X Models : View(c).embeddings[m] =
              IF tx[c].delta.embeddings[m] = NoRow THEN db.embeddings[m]
                                                   ELSE tx[c].delta.embeddings[m]
<1>1. /\ DOMAIN db.nodes = NodeIds
      /\ DOMAIN db.edges = EdgeIds
      /\ DOMAIN db.embeddings = NodeIds \X Models
  BY DEF TypeOK, Db
<1> QED
  BY <1>1 DEF View, OverlayDb, Overlay

\* What a client sees after a statement is what the statement makes of what it
\* saw before.
LEMMA ExecuteView ==
  ASSUME TypeOK, NEW c \in Clients, Execute(c)
  PROVE  LET s == Head(tx[c].todo) IN
         /\ \A n \in NodeIds : View(c)'.nodes[n] =
              IF n \in NodesWritten(View(c).nodes, s)
              THEN NodeAfter(View(c).nodes[n], s) ELSE View(c).nodes[n]
         /\ \A e \in EdgeIds : View(c)'.edges[e] =
              IF e \in EdgesWritten(View(c).edges, s)
              THEN EdgeAfter(View(c).edges[e], s) ELSE View(c).edges[e]
         /\ \A m \in NodeIds \X Models : View(c)'.embeddings[m] =
              IF m \in EmbeddingsWritten(s) THEN s.vector ELSE View(c).embeddings[m]
         /\ \A d \in Clients \ {c} : View(d)' = View(d)
<1> DEFINE s == Head(tx[c].todo)
<1>1. TypeOK' /\ View(c) \in Db
  BY ExecuteType, ViewType
<1>2. /\ s \in Statement /\ ~Rejected(View(c), s) /\ db' = db
      /\ \A d \in Clients \ {c} : tx'[d].delta = tx[d].delta
  BY ExecuteData
<1>3. \A n \in NodesWritten(View(c).nodes, s) : NodeAfter(View(c).nodes[n], s) # NoRow
  <2>1. View(c).nodes \in [NodeIds -> NodeRow \cup {NoRow}]
    BY <1>1 DEF Db
  <2> HIDE DEF s
  <2> QED
    BY <1>2, <2>1, NodeAfterType, GraphAssumption
<1>4. \A e \in EdgesWritten(View(c).edges, s) : EdgeAfter(View(c).edges[e], s) # NoRow
  <2>1. View(c).edges \in [EdgeIds -> EdgeRow \cup {NoRow}]
    BY <1>1 DEF Db
  <2> HIDE DEF s
  <2> QED
    BY <1>2, <2>1, EdgeAfterType, GraphAssumption
<1>5. \A m \in EmbeddingsWritten(s) : s.vector # NoRow
  <2>1. SUFFICES ASSUME s.type = "EMBEDDING_STORED" PROVE s.vector # NoRow
    BY DEF EmbeddingsWritten
  <2>2. s \in EmbeddingStored /\ s.vector # EmptyVector
    BY <1>2, <2>1, StatementTags DEF Rejected
  <2> QED
    BY <2>2, GraphAssumption DEF EmbeddingStored
<1>6. /\ \A n \in NodeIds : View(c)'.nodes[n] =
           IF tx'[c].delta.nodes[n] = NoRow THEN db'.nodes[n] ELSE tx'[c].delta.nodes[n]
      /\ \A e \in EdgeIds : View(c)'.edges[e] =
           IF tx'[c].delta.edges[e] = NoRow THEN db'.edges[e] ELSE tx'[c].delta.edges[e]
      /\ \A m \in NodeIds \X Models : View(c)'.embeddings[m] =
           IF tx'[c].delta.embeddings[m] = NoRow THEN db'.embeddings[m]
                                                 ELSE tx'[c].delta.embeddings[m]
  <2>1. /\ DOMAIN db'.nodes = NodeIds
        /\ DOMAIN db'.edges = EdgeIds
        /\ DOMAIN db'.embeddings = NodeIds \X Models
    BY <1>1 DEF TypeOK, Db
  <2> QED
    BY <2>1 DEF View, OverlayDb, Overlay
<1>7. \A n \in NodeIds : View(c)'.nodes[n] =
        IF n \in NodesWritten(View(c).nodes, s)
        THEN NodeAfter(View(c).nodes[n], s) ELSE View(c).nodes[n]
  BY <1>2, <1>3, <1>6, ExecuteData, ViewRows
<1>8. \A e \in EdgeIds : View(c)'.edges[e] =
        IF e \in EdgesWritten(View(c).edges, s)
        THEN EdgeAfter(View(c).edges[e], s) ELSE View(c).edges[e]
  BY <1>2, <1>4, <1>6, ExecuteData, ViewRows
<1>9. \A m \in NodeIds \X Models : View(c)'.embeddings[m] =
        IF m \in EmbeddingsWritten(s) THEN s.vector ELSE View(c).embeddings[m]
  BY <1>2, <1>5, <1>6, ExecuteData, ViewRows
<1>10. \A d \in Clients \ {c} : View(d)' = View(d)
  BY <1>2 DEF View
<1> QED
  BY <1>7, <1>8, <1>9, <1>10

-----------------------------------------------------------------------------
(* Nothing dangles.                                                         *)

LEMMA EmptyAnchored == Anchored(EmptyDb)
  BY EmptyTables DEF Anchored

\* A delta that keeps the rows of a table anchored keeps them so on top of any
\* table that has at least the rows of the old one.
LEMMA AnchoredOnTop ==
  ASSUME NEW old \in Db, NEW new \in Db, NEW delta \in Db,
         Anchored(OverlayDb(old, delta)), Anchored(new),
         \A n \in NodeIds : old.nodes[n] # NoRow => new.nodes[n] # NoRow
  PROVE  Anchored(OverlayDb(new, delta))
<1>1. ASSUME NEW d \in Db
      PROVE  /\ \A n \in NodeIds : OverlayDb(d, delta).nodes[n] =
                  IF delta.nodes[n] = NoRow THEN d.nodes[n] ELSE delta.nodes[n]
             /\ \A e \in EdgeIds : OverlayDb(d, delta).edges[e] =
                  IF delta.edges[e] = NoRow THEN d.edges[e] ELSE delta.edges[e]
             /\ \A m \in NodeIds \X Models : OverlayDb(d, delta).embeddings[m] =
                  IF delta.embeddings[m] = NoRow THEN d.embeddings[m]
                                                 ELSE delta.embeddings[m]
  <2>1. /\ DOMAIN d.nodes = NodeIds
        /\ DOMAIN d.edges = EdgeIds
        /\ DOMAIN d.embeddings = NodeIds \X Models
    BY DEF Db
  <2> QED
    BY <2>1 DEF OverlayDb, Overlay
<1>2. \A n \in NodeIds : /\ OverlayDb(old, delta).nodes[n] # NoRow
                              => OverlayDb(new, delta).nodes[n] # NoRow
                         /\ new.nodes[n] # NoRow => OverlayDb(new, delta).nodes[n] # NoRow
  BY <1>1
<1>3. ASSUME NEW e \in EdgeIds, OverlayDb(new, delta).edges[e] # NoRow
      PROVE  /\ OverlayDb(new, delta).nodes[OverlayDb(new, delta).edges[e].source] # NoRow
             /\ OverlayDb(new, delta).nodes[OverlayDb(new, delta).edges[e].target] # NoRow
  <2>1. CASE delta.edges[e] # NoRow
    <3>1. /\ OverlayDb(old, delta).edges[e] = delta.edges[e]
          /\ OverlayDb(new, delta).edges[e] = delta.edges[e]
      BY <1>1, <2>1
    <3>2. delta.edges[e].source \in NodeIds /\ delta.edges[e].target \in NodeIds
      BY <2>1 DEF Db, EdgeRow
    <3>3. /\ OverlayDb(old, delta).nodes[delta.edges[e].source] # NoRow
          /\ OverlayDb(old, delta).nodes[delta.edges[e].target] # NoRow
      BY <2>1, <3>1 DEF Anchored
    <3> QED
      BY <1>2, <3>1, <3>2, <3>3
  <2>2. CASE delta.edges[e] = NoRow
    <3>1. OverlayDb(new, delta).edges[e] = new.edges[e] /\ new.edges[e] # NoRow
      BY <1>1, <1>3, <2>2
    <3>2. new.edges[e].source \in NodeIds /\ new.edges[e].target \in NodeIds
      BY <3>1 DEF Db, EdgeRow
    <3>3. new.nodes[new.edges[e].source] # NoRow /\ new.nodes[new.edges[e].target] # NoRow
      BY <3>1 DEF Anchored
    <3> QED
      BY <1>2, <3>1, <3>2, <3>3
  <2> QED
    BY <2>1, <2>2
<1>4. ASSUME NEW m \in NodeIds \X Models, OverlayDb(new, delta).embeddings[m] # NoRow
      PROVE  OverlayDb(new, delta).nodes[m[1]] # NoRow
  <2>1. m[1] \in NodeIds
    OBVIOUS
  <2>2. CASE delta.embeddings[m] # NoRow
    <3>1. OverlayDb(old, delta).embeddings[m] # NoRow
      BY <1>1, <2>2
    <3> QED
      BY <1>2, <2>1, <3>1 DEF Anchored
  <2>3. CASE delta.embeddings[m] = NoRow
    <3>1. new.embeddings[m] # NoRow
      BY <1>1, <1>4, <2>3
    <3> QED
      BY <1>2, <2>1, <3>1 DEF Anchored
  <2> QED
    BY <2>2, <2>3
<1> QED
  BY <1>3, <1>4 DEF Anchored

LEMMA EmptyDelta == \A d \in Db : OverlayDb(d, EmptyDb) = d
<1> SUFFICES ASSUME NEW d \in Db PROVE OverlayDb(d, EmptyDb) = d
  OBVIOUS
<1>1. /\ Overlay(d.nodes, EmptyDb.nodes) = d.nodes
      /\ Overlay(d.edges, EmptyDb.edges) = d.edges
      /\ Overlay(d.embeddings, EmptyDb.embeddings) = d.embeddings
  BY EmptyTables DEF Overlay, Db
<1>2. d = [nodes |-> d.nodes, edges |-> d.edges, embeddings |-> d.embeddings]
  BY DEF Db
<1> QED
  BY <1>1, <1>2 DEF OverlayDb

LEMMA ExecuteAnchored ==
  ASSUME TypeOK, NothingDangles, NEW c \in Clients, Execute(c)
  PROVE  NothingDangles'
<1> DEFINE s == Head(tx[c].todo)
           old == View(c)
           new == View(c)'
<1>1. /\ s \in Statement /\ ~Rejected(old, s) /\ db' = db
      /\ old \in Db /\ Anchored(old)
  BY ExecuteData, ViewType DEF NothingDangles
<1>2. /\ \A n \in NodeIds : new.nodes[n] =
           IF n \in NodesWritten(old.nodes, s) THEN NodeAfter(old.nodes[n], s)
                                               ELSE old.nodes[n]
      /\ \A e \in EdgeIds : new.edges[e] =
           IF e \in EdgesWritten(old.edges, s) THEN EdgeAfter(old.edges[e], s)
                                               ELSE old.edges[e]
      /\ \A m \in NodeIds \X Models : new.embeddings[m] =
           IF m \in EmbeddingsWritten(s) THEN s.vector ELSE old.embeddings[m]
      /\ \A d \in Clients \ {c} : View(d)' = View(d)
  BY ExecuteView
<1>3. old.nodes \in [NodeIds -> NodeRow \cup {NoRow}]
  BY <1>1 DEF Db
<1>4. Anchored(new)
  <2> HIDE DEF s, old, new
  <2>1. \A n \in NodesWritten(old.nodes, s) : NodeAfter(old.nodes[n], s) # NoRow
    BY <1>1, <1>3, NodeAfterType, GraphAssumption
  <2>2. \A n \in NodeIds : old.nodes[n] # NoRow => new.nodes[n] # NoRow
    BY <1>2, <2>1
  <2>3. ASSUME NEW e \in EdgeIds, new.edges[e] # NoRow
        PROVE  new.nodes[new.edges[e].source] # NoRow /\ new.nodes[new.edges[e].target] # NoRow
    <3>1. CASE e \in EdgesWritten(old.edges, s)
      <4>1. new.edges[e] \in EdgeRow /\ old.nodes[new.edges[e].source] # NoRow
            /\ old.nodes[new.edges[e].target] # NoRow
        BY <1>1, <1>2, <3>1, WrittenEdge
      <4> QED
        BY <2>2, <4>1 DEF EdgeRow
    <3>2. CASE e \notin EdgesWritten(old.edges, s)
      <4>1. new.edges[e] = old.edges[e]
        BY <1>2, <3>2
      <4>2. old.edges[e] \in EdgeRow
        BY <1>1, <2>3, <4>1 DEF Db
      <4> QED
        BY <1>1, <2>2, <2>3, <4>1, <4>2 DEF Anchored, EdgeRow
    <3> QED
      BY <3>1, <3>2
  <2>4. ASSUME NEW m \in NodeIds \X Models, new.embeddings[m] # NoRow
        PROVE  new.nodes[m[1]] # NoRow
    <3>1. CASE m \in EmbeddingsWritten(s)
      <4>1. s.type = "EMBEDDING_STORED" /\ m = <<s.node, s.model>>
        BY <3>1 DEF EmbeddingsWritten
      <4>2. old.nodes[m[1]] # NoRow
        BY <1>1, <4>1 DEF Rejected
      <4> QED
        BY <2>2, <4>2
    <3>2. CASE m \notin EmbeddingsWritten(s)
      BY <1>1, <1>2, <2>2, <2>4, <3>2 DEF Anchored
    <3> QED
      BY <3>1, <3>2
  <2> QED
    BY <2>3, <2>4 DEF Anchored
<1> QED
  BY <1>1, <1>2, <1>4 DEF NothingDangles

LEMMA DanglesStep == TypeOK /\ NothingDangles /\ [Next]_vars => NothingDangles'
<1> SUFFICES ASSUME TypeOK, NothingDangles, [Next]_vars PROVE NothingDangles'
  OBVIOUS
<1>1. CASE Still
  BY <1>1 DEF Still, NothingDangles, View
<1>2. ASSUME NEW c \in Clients, Reset(c)
      PROVE  NothingDangles'
  <2>1. View(c)' = db
    BY <1>2, EmptyDelta DEF Reset, View, TypeOK
  <2> QED
    BY <1>2, <2>1 DEF Reset, NothingDangles, View
<1>3. ASSUME NEW c \in Clients, Commit(c)
      PROVE  NothingDangles'
  <2>1. /\ View(c) \in Db /\ Anchored(View(c)) /\ db' = View(c)
        /\ tx'[c].delta = EmptyDb
        /\ \A d \in Clients \ {c} : tx'[d].delta = tx[d].delta
    BY <1>3, ViewType, CommitData DEF NothingDangles
  <2>2. View(c)' = View(c)
    BY <2>1, EmptyDelta DEF View
  <2>3. \A n \in NodeIds : db.nodes[n] # NoRow => View(c).nodes[n] # NoRow
    BY ViewRows
  <2>4. ASSUME NEW d \in Clients \ {c}
        PROVE  Anchored(View(d)')
    <3>1. Anchored(OverlayDb(db, tx[d].delta)) /\ db \in Db /\ tx[d].delta \in Db
      BY DEF NothingDangles, View, TypeOK, Tx
    <3>2. Anchored(OverlayDb(View(c), tx[d].delta))
      BY <2>1, <2>3, <3>1, AnchoredOnTop
    <3> QED
      BY <2>1, <3>2 DEF View
  <2> QED
    BY <2>1, <2>2, <2>4 DEF NothingDangles
<1> QED
  BY <1>1, <1>2, <1>3, ExecuteAnchored, DataSteps

\* In every reachable state every edge has both its nodes and every embedding
\* its node, in what is committed and in what any transaction sees.
THEOREM Anchoring == Spec => []NothingDangles
<1>1. Init => TypeOK /\ NothingDangles
  <2> SUFFICES ASSUME Init PROVE TypeOK /\ NothingDangles
    OBVIOUS
  <2>1. TypeOK
    BY TypeInit
  <2>2. db = EmptyDb /\ \A c \in Clients : tx[c].delta = EmptyDb
    BY DEF Init, Idle
  <2>3. \A c \in Clients : View(c) = EmptyDb
    BY <2>2, EmptyDelta, EmptyDbType DEF View
  <2> QED
    BY <2>1, <2>2, <2>3, EmptyAnchored DEF NothingDangles
<1>2. (TypeOK /\ NothingDangles) /\ [Next]_vars => (TypeOK /\ NothingDangles)'
  BY TypeStep, DanglesStep
<1> QED
  BY <1>1, <1>2, PTL DEF Spec

-----------------------------------------------------------------------------
(* Keys identify nodes.                                                     *)

SameKey(r1, r2) == r1.key # NoKey /\ r1.key = r2.key /\ r1.ns = r2.ns

\* The strengthening: two open transactions have not written rows with the
\* same key.  Without it both could commit, each unique in its own view.
KeysExclude ==
  \A c, d \in Clients : c # d =>
    \A m, n \in NodeIds :
      tx[c].delta.nodes[m] # NoRow /\ tx[d].delta.nodes[n] # NoRow =>
        ~SameKey(tx[c].delta.nodes[m], tx[d].delta.nodes[n])

KeyInv == Exclusion /\ UniqueKeys /\ KeysExclude

\* A statement leaves the keys of a table unique.
LEMMA WriteKeepsKeys ==
  ASSUME NEW old \in [NodeIds -> NodeRow \cup {NoRow}], NEW s \in Statement,
         NEW new, KeyIdentifies(old),
         \A n \in NodeIds : new[n] = IF n \in NodesWritten(old, s)
                                     THEN NodeAfter(old[n], s) ELSE old[n]
  PROVE  KeyIdentifies(new)
<1>1. SUFFICES ASSUME NEW m \in NodeIds, NEW n \in NodeIds,
                      new[m] # NoRow, new[n] # NoRow, SameKey(new[m], new[n]),
                      m # n, old[n] # NoRow \/ old[m] = NoRow
               PROVE  FALSE
  BY DEF KeyIdentifies, SameKey
<1>2. \A k \in NodeIds : old[k] # NoRow => new[k].key = old[k].key /\ new[k].ns = old[k].ns
  BY WrittenNode
<1>3. CASE old[m] # NoRow
  BY <1>1, <1>2, <1>3 DEF KeyIdentifies, SameKey
<1>4. CASE old[m] = NoRow /\ old[n] # NoRow
  <2>1. m \in NodesWritten(old, s)
    BY <1>1, <1>4
  <2>2. KeyHolders(old, s) = {} /\ new[m].key = s.key /\ new[m].ns = s.ns
    BY <1>4, <2>1, WrittenNode
  <2>3. n \in KeyHolders(old, s)
    BY <1>1, <1>2, <1>4, <2>2 DEF KeyHolders, SameKey
  <2> QED
    BY <2>2, <2>3
<1>5. CASE old[m] = NoRow /\ old[n] = NoRow
  <2>1. m \in NodesWritten(old, s) /\ n \in NodesWritten(old, s)
    BY <1>1, <1>5
  <2>2. m = s.id /\ n = s.id
    BY <1>5, <2>1, WrittenNode
  <2> QED
    BY <1>1, <2>2
<1> QED
  BY <1>3, <1>4, <1>5

LEMMA ExecuteKeysExclude ==
  ASSUME TypeOK, KeyInv, NEW c \in Clients, Execute(c), NEW d \in Clients \ {c},
         NEW m \in NodeIds, NEW n \in NodeIds,
         tx'[c].delta.nodes[m] # NoRow, tx[d].delta.nodes[n] # NoRow
  PROVE  ~SameKey(tx'[c].delta.nodes[m], tx[d].delta.nodes[n])
<1> DEFINE s == Head(tx[c].todo)
           old == View(c).nodes
           theirs == tx[d].delta.nodes
<1>1. /\ s \in Statement
      /\ old \in [NodeIds -> NodeRow \cup {NoRow}]
      /\ tx'[c].delta.nodes[m] = IF m \in NodesWritten(old, s)
                                 THEN NodeAfter(old[m], s) ELSE tx[c].delta.nodes[m]
      /\ m \in NodesWritten(old, s) => theirs[m] = NoRow
      /\ s.type = "NODE_CREATED" => KeyHolders(theirs, s) = {}
  <2>1. s \in Statement
    BY ExecuteData
  <2>2. old \in [NodeIds -> NodeRow \cup {NoRow}]
    BY ViewType DEF Db
  <2>3. tx'[c].delta.nodes[m] = IF m \in NodesWritten(old, s)
                                THEN NodeAfter(old[m], s) ELSE tx[c].delta.nodes[m]
    BY ExecuteData
  <2>4. /\ m \in NodesWritten(old, s) => theirs[m] = NoRow
        /\ s.type = "NODE_CREATED" => KeyHolders(theirs, s) = {}
    BY ExecuteData
  <2> QED
    BY <2>1, <2>2, <2>3, <2>4
<1>2. CASE m \notin NodesWritten(old, s)
  BY <1>1, <1>2 DEF KeyInv, KeysExclude
<1>3. CASE m \in NodesWritten(old, s) /\ old[m] = NoRow
  <2>1. /\ s.type = "NODE_CREATED"
        /\ tx'[c].delta.nodes[m].key = s.key /\ tx'[c].delta.nodes[m].ns = s.ns
    <3> HIDE DEF s, old
    <3> QED
      BY <1>1, <1>3, WrittenNode
  <2> QED
    BY <1>1, <2>1 DEF SameKey, KeyHolders
<1>4. CASE m \in NodesWritten(old, s) /\ old[m] # NoRow
  <2>1. /\ tx'[c].delta.nodes[m].key = old[m].key
        /\ tx'[c].delta.nodes[m].ns = old[m].ns
    <3> HIDE DEF s, old
    <3> QED
      BY <1>1, <1>4, WrittenNode
  <2>2. CASE tx[c].delta.nodes[m] # NoRow
    <3>1. old[m] = tx[c].delta.nodes[m]
      BY <2>2, ViewRows
    <3>2. ~SameKey(tx[c].delta.nodes[m], tx[d].delta.nodes[n])
      BY <2>2 DEF KeyInv, KeysExclude
    <3> QED
      BY <2>1, <3>1, <3>2 DEF SameKey
  <2>3. CASE tx[c].delta.nodes[m] = NoRow
    <3>1. old[m] = db.nodes[m]
      BY <2>3, ViewRows
    <3>2. View(d).nodes[m] = old[m] /\ View(d).nodes[n] = theirs[n]
      BY <1>1, <1>4, <3>1, ViewRows
    <3>3. m # n
      BY <1>1, <1>4
    <3>4. ~SameKey(View(d).nodes[m], View(d).nodes[n])
      <4>1. KeyIdentifies(View(d).nodes)
        BY DEF KeyInv, UniqueKeys
      <4>2. View(d).nodes[m] # NoRow /\ View(d).nodes[n] # NoRow
        BY <1>4, <3>2
      <4> QED
        BY <3>3, <4>1, <4>2 DEF KeyIdentifies, SameKey
    <3> QED
      BY <2>1, <3>2, <3>4 DEF SameKey
  <2> QED
    BY <2>2, <2>3
<1> QED
  BY <1>2, <1>3, <1>4

\* The commit of c leaves keys unique in what d sees.
LEMMA CommitKeys ==
  ASSUME TypeOK, KeyInv, NEW c \in Clients, Commit(c), NEW d \in Clients \ {c}
  PROVE  KeyIdentifies(View(d)'.nodes)
<1> DEFINE mine == View(c).nodes
           theirs == tx[d].delta.nodes
           new == View(d)'.nodes
<1>1. \A n \in NodeIds : new[n] = IF theirs[n] = NoRow THEN mine[n] ELSE theirs[n]
  <2>1. db' = View(c) /\ tx'[d].delta = tx[d].delta
    BY CommitData
  <2>2. DOMAIN View(c).nodes = NodeIds
    BY ViewType DEF Db
  <2> QED
    BY <2>1, <2>2 DEF View, OverlayDb, Overlay
<1>2. SUFFICES ASSUME NEW m \in NodeIds, NEW n \in NodeIds,
                      new[m] # NoRow, new[n] # NoRow, SameKey(new[m], new[n]),
                      m # n, theirs[m] # NoRow \/ theirs[n] = NoRow
               PROVE  FALSE
  BY DEF KeyIdentifies, SameKey
<1>3. CASE theirs[m] = NoRow /\ theirs[n] = NoRow
  BY <1>1, <1>2, <1>3 DEF KeyInv, UniqueKeys, KeyIdentifies, SameKey
<1>4. CASE theirs[m] # NoRow /\ theirs[n] # NoRow
  <2>1. View(d).nodes[m] = theirs[m] /\ View(d).nodes[n] = theirs[n]
    BY <1>4, ViewRows
  <2> QED
    BY <1>1, <1>2, <1>4, <2>1 DEF KeyInv, UniqueKeys, KeyIdentifies, SameKey
<1>5. CASE theirs[m] # NoRow /\ theirs[n] = NoRow
  <2>1. CASE tx[c].delta.nodes[n] # NoRow
    <3>1. mine[n] = tx[c].delta.nodes[n]
      BY <2>1, ViewRows
    <3>2. new[n] = tx[c].delta.nodes[n] /\ new[m] = tx[d].delta.nodes[m]
      BY <1>1, <1>5, <3>1
    <3>3. SameKey(tx[d].delta.nodes[m], tx[c].delta.nodes[n])
      BY <1>2, <3>2
    <3>4. ~SameKey(tx[d].delta.nodes[m], tx[c].delta.nodes[n])
      BY <1>5, <2>1 DEF KeyInv, KeysExclude
    <3> QED
      BY <3>3, <3>4
  <2>2. CASE tx[c].delta.nodes[n] = NoRow
    <3>1. mine[n] = db.nodes[n] /\ View(d).nodes[n] = db.nodes[n]
          /\ View(d).nodes[m] = theirs[m]
      BY <1>5, <2>2, ViewRows
    <3> QED
      BY <1>1, <1>2, <1>5, <3>1 DEF KeyInv, UniqueKeys, KeyIdentifies, SameKey
  <2> QED
    BY <2>1, <2>2
<1> QED
  BY <1>2, <1>3, <1>4, <1>5

LEMMA KeyStep == TypeOK /\ KeyInv /\ [Next]_vars => KeyInv'
<1> SUFFICES ASSUME TypeOK, KeyInv, [Next]_vars PROVE KeyInv'
  OBVIOUS
<1>0. Exclusion'
  BY ExclusionStep DEF KeyInv
<1>1. CASE Still
  <2>1. UniqueKeys'
    BY <1>1 DEF Still, KeyInv, UniqueKeys, View
  <2>2. KeysExclude'
    BY <1>1 DEF Still, KeyInv, KeysExclude
  <2> QED
    BY <1>0, <2>1, <2>2 DEF KeyInv
<1>2. ASSUME NEW c \in Clients, Reset(c)
      PROVE  KeyInv'
  <2>1. View(c)' = db
    BY <1>2, EmptyDelta DEF Reset, View, TypeOK
  <2>2. UniqueKeys'
    BY <1>2, <2>1 DEF Reset, KeyInv, UniqueKeys, View
  <2>3. KeysExclude'
    BY <1>2, EmptyTables DEF Reset, KeyInv, KeysExclude
  <2> QED
    BY <1>0, <2>2, <2>3 DEF KeyInv
<1>3. ASSUME NEW c \in Clients, Commit(c)
      PROVE  KeyInv'
  <2>1. /\ View(c) \in Db /\ db' = View(c)
        /\ tx'[c].delta = EmptyDb
        /\ \A d \in Clients \ {c} : tx'[d].delta = tx[d].delta
    BY <1>3, ViewType, CommitData
  <2>2. View(c)' = View(c)
    BY <2>1, EmptyDelta DEF View
  <2>3. UniqueKeys'
    BY <1>3, <2>1, <2>2, CommitKeys DEF KeyInv, UniqueKeys
  <2>4. KeysExclude'
    BY <2>1, EmptyTables DEF KeyInv, KeysExclude
  <2> QED
    BY <1>0, <2>3, <2>4 DEF KeyInv
<1>4. ASSUME NEW c \in Clients, Execute(c)
      PROVE  KeyInv'
  <2> DEFINE s == Head(tx[c].todo)
  <2>1. /\ s \in Statement /\ db' = db
        /\ \A d \in Clients \ {c} : tx'[d].delta = tx[d].delta
        /\ View(c).nodes \in [NodeIds -> NodeRow \cup {NoRow}]
    BY <1>4, ExecuteData, ViewType DEF Db
  <2>2. /\ \A n \in NodeIds : View(c)'.nodes[n] =
             IF n \in NodesWritten(View(c).nodes, s)
             THEN NodeAfter(View(c).nodes[n], s) ELSE View(c).nodes[n]
        /\ \A d \in Clients \ {c} : View(d)' = View(d)
    BY <1>4, ExecuteView
  <2>3. KeyIdentifies(View(c)'.nodes)
    <3>1. KeyIdentifies(View(c).nodes)
      BY DEF KeyInv, UniqueKeys
    <3> HIDE DEF s
    <3> QED
      BY <2>1, <2>2, <3>1, WriteKeepsKeys
  <2>4. UniqueKeys'
    BY <2>1, <2>2, <2>3 DEF KeyInv, UniqueKeys
  <2>5. KeysExclude'
    <3> SUFFICES ASSUME NEW a \in Clients, NEW b \in Clients, a # b,
                        NEW m \in NodeIds, NEW n \in NodeIds,
                        tx'[a].delta.nodes[m] # NoRow, tx'[b].delta.nodes[n] # NoRow
                 PROVE  ~SameKey(tx'[a].delta.nodes[m], tx'[b].delta.nodes[n])
      BY DEF KeysExclude, SameKey
    <3>1. CASE a = c
      BY <1>4, <2>1, <3>1, ExecuteKeysExclude
    <3>2. CASE b = c
      <4>1. ~SameKey(tx'[b].delta.nodes[n], tx'[a].delta.nodes[m])
        BY <1>4, <2>1, <3>2, ExecuteKeysExclude
      <4> QED
        BY <4>1 DEF SameKey
    <3>3. CASE a # c /\ b # c
      <4>1. tx'[a].delta = tx[a].delta /\ tx'[b].delta = tx[b].delta
        BY <2>1, <3>3
      <4> QED
        BY <4>1 DEF KeyInv, KeysExclude
    <3> QED
      BY <3>1, <3>2, <3>3
  <2> QED
    BY <1>0, <2>4, <2>5 DEF KeyInv
<1> QED
  BY <1>1, <1>2, <1>3, <1>4, DataSteps

\* In every reachable state a key of a namespace belongs to one node at most,
\* however many upserts race for it.
THEOREM KeysUnique == Spec => []UniqueKeys
<1>1. Init => TypeOK /\ KeyInv
  <2> SUFFICES ASSUME Init PROVE TypeOK /\ KeyInv
    OBVIOUS
  <2>1. TypeOK /\ Exclusion
    BY TypeInit, ExclusionInit
  <2>2. db = EmptyDb /\ \A c \in Clients : tx[c].delta = EmptyDb
    BY DEF Init, Idle
  <2>3. \A c \in Clients : View(c) = EmptyDb
    BY <2>2, EmptyDelta, EmptyDbType DEF View
  <2>4. KeyIdentifies(EmptyDb.nodes)
    BY EmptyTables DEF KeyIdentifies
  <2> QED
    BY <2>1, <2>2, <2>3, <2>4, EmptyTables DEF KeyInv, UniqueKeys, KeysExclude
<1>2. (TypeOK /\ KeyInv) /\ [Next]_vars => (TypeOK /\ KeyInv)'
  BY TypeStep, KeyStep
<1>3. KeyInv => UniqueKeys
  BY DEF KeyInv
<1> QED
  BY <1>1, <1>2, <1>3, PTL DEF Spec

-----------------------------------------------------------------------------
(* Retraction is final.                                                     *)

\* The strengthening: an uncommitted version of a retracted row is retracted.
DeltaRetracts ==
  \A c \in Clients :
    /\ \A n \in NodeIds :
         db.nodes[n] # NoRow /\ db.nodes[n].retracted /\ tx[c].delta.nodes[n] # NoRow =>
           tx[c].delta.nodes[n].retracted
    /\ \A e \in EdgeIds :
         db.edges[e] # NoRow /\ db.edges[e].retracted /\ tx[c].delta.edges[e] # NoRow =>
           tx[c].delta.edges[e].retracted

RetractStep ==
  /\ \A n \in NodeIds : db.nodes[n] # NoRow /\ db.nodes[n].retracted =>
       db'.nodes[n] # NoRow /\ db'.nodes[n].retracted
  /\ \A e \in EdgeIds : db.edges[e] # NoRow /\ db.edges[e].retracted =>
       db'.edges[e] # NoRow /\ db'.edges[e].retracted

LEMMA DataKeepsRetracted == TypeOK /\ DeltaRetracts /\ [Next]_vars => RetractStep
<1> SUFFICES ASSUME TypeOK, DeltaRetracts, [Next]_vars PROVE RetractStep
  OBVIOUS
<1>1. CASE Still
  BY <1>1 DEF Still, RetractStep
<1>2. ASSUME NEW c \in Clients, Reset(c) PROVE RetractStep
  BY <1>2 DEF Reset, RetractStep
<1>3. ASSUME NEW c \in Clients, Execute(c) PROVE RetractStep
  <2>1. db' = db
    BY <1>3, ExecuteData
  <2> QED
    BY <2>1 DEF RetractStep
<1>4. ASSUME NEW c \in Clients, Commit(c) PROVE RetractStep
  <2>1. db' = View(c)
    BY <1>4, CommitData
  <2> QED
    BY <2>1, ViewRows DEF RetractStep, DeltaRetracts
<1> QED
  BY <1>1, <1>2, <1>3, <1>4, DataSteps

LEMMA DeltaRetractsStep ==
  TypeOK /\ Exclusion /\ DeltaRetracts /\ [Next]_vars => DeltaRetracts'
<1> SUFFICES ASSUME TypeOK, Exclusion, DeltaRetracts, [Next]_vars
             PROVE  DeltaRetracts'
  OBVIOUS
<1>1. CASE Still
  BY <1>1 DEF Still, DeltaRetracts
<1>2. ASSUME NEW c \in Clients, Reset(c) PROVE DeltaRetracts'
  BY <1>2, EmptyTables DEF Reset, DeltaRetracts
<1>3. ASSUME NEW c \in Clients, Commit(c) PROVE DeltaRetracts'
  <2>1. /\ db' = View(c) /\ tx'[c].delta = EmptyDb
        /\ \A d \in Clients \ {c} : tx'[d].delta = tx[d].delta
    BY <1>3, CommitData
  <2>2. ASSUME NEW d \in Clients \ {c}
        PROVE  /\ \A n \in NodeIds :
                    tx[d].delta.nodes[n] # NoRow => View(c).nodes[n] = db.nodes[n]
               /\ \A e \in EdgeIds :
                    tx[d].delta.edges[e] # NoRow => View(c).edges[e] = db.edges[e]
    BY ViewRows DEF Exclusion
  <2> QED
    BY <2>1, <2>2, EmptyTables DEF DeltaRetracts
<1>4. ASSUME NEW c \in Clients, Execute(c) PROVE DeltaRetracts'
  <2> DEFINE s == Head(tx[c].todo)
             d == View(c)
  <2>1. /\ s \in Statement /\ ~Rejected(d, s) /\ db' = db
        /\ \A b \in Clients \ {c} : tx'[b].delta = tx[b].delta
    BY <1>4, ExecuteData
  <2>2. d \in Db /\ d.nodes \in [NodeIds -> NodeRow \cup {NoRow}]
    BY ViewType DEF Db
  <2>3. /\ \A n \in NodeIds : db.nodes[n] # NoRow /\ db.nodes[n].retracted =>
             d.nodes[n] # NoRow /\ d.nodes[n].retracted
        /\ \A e \in EdgeIds : db.edges[e] # NoRow /\ db.edges[e].retracted =>
             d.edges[e] # NoRow /\ d.edges[e].retracted
    BY ViewRows DEF DeltaRetracts
  <2>4. /\ \A n \in NodeIds : tx'[c].delta.nodes[n] =
             IF n \in NodesWritten(d.nodes, s)
             THEN NodeAfter(d.nodes[n], s) ELSE tx[c].delta.nodes[n]
        /\ \A e \in EdgeIds : tx'[c].delta.edges[e] =
             IF e \in EdgesWritten(d.edges, s)
             THEN EdgeAfter(d.edges[e], s) ELSE tx[c].delta.edges[e]
    BY <1>4, ExecuteData
  <2> HIDE DEF s, d
  <2>5. \A n \in NodeIds :
          db.nodes[n] # NoRow /\ db.nodes[n].retracted /\ tx'[c].delta.nodes[n] # NoRow =>
            tx'[c].delta.nodes[n].retracted
    BY <2>1, <2>2, <2>3, <2>4, WrittenNode DEF DeltaRetracts
  <2>6. \A e \in EdgeIds :
          db.edges[e] # NoRow /\ db.edges[e].retracted /\ tx'[c].delta.edges[e] # NoRow =>
            tx'[c].delta.edges[e].retracted
    BY <2>1, <2>2, <2>3, <2>4, EdgeStays DEF DeltaRetracts
  <2> QED
    BY <2>1, <2>5, <2>6 DEF DeltaRetracts
<1> QED
  BY <1>1, <1>2, <1>3, <1>4, DataSteps

\* No step of any behaviour brings back a retracted node or edge.
THEOREM Retraction == Spec => RetractionIsFinal
<1>1. Init => TypeOK /\ Exclusion /\ DeltaRetracts
  <2> SUFFICES ASSUME Init PROVE TypeOK /\ Exclusion /\ DeltaRetracts
    OBVIOUS
  <2>1. \A c \in Clients : tx[c].delta = EmptyDb
    BY DEF Init, Idle
  <2> QED
    BY <2>1, TypeInit, ExclusionInit, EmptyTables DEF DeltaRetracts
<1>2. (TypeOK /\ Exclusion /\ DeltaRetracts) /\ [Next]_vars
        => (TypeOK /\ Exclusion /\ DeltaRetracts)'
  BY TypeStep, ExclusionStep, DeltaRetractsStep
<1>3. (TypeOK /\ Exclusion /\ DeltaRetracts) /\ [Next]_vars => [RetractStep]_vars
  BY DataKeepsRetracted
<1>4. RetractionIsFinal <=> [][RetractStep]_vars
  BY DEF RetractionIsFinal, RetractStep
<1> QED
  BY <1>1, <1>2, <1>3, <1>4, PTL DEF Spec

-----------------------------------------------------------------------------
(* Ids of the log are unique.                                               *)

\* The strengthening: ids come from a sequence that is ahead of all of them.
IdInv == LogIdsUnique /\ \A r \in AllRows : r.id <= seq

LEMMA IdStep == TypeOK /\ IdInv /\ [Next]_vars => IdInv'
<1> SUFFICES ASSUME TypeOK, IdInv, [Next]_vars PROVE IdInv'
  OBVIOUS
<1>1. CASE /\ seq' = seq /\ log' = log
           /\ \A d \in Clients : tx'[d].rows \subseteq tx[d].rows
  BY <1>1 DEF IdInv, LogIdsUnique, AllRows
<1>2. ASSUME NEW c \in Clients,
             \/ AddNodes(c) \/ AddEdges(c) \/ UpdateNode(c) \/ RetractNode(c)
             \/ RetractEdge(c) \/ MergeNodes(c) \/ ApplyEvent(c)
      PROVE  /\ seq' = seq /\ log' = log
             /\ \A d \in Clients : tx'[d].rows \subseteq tx[d].rows
  <2>1. ASSUME NEW op, NEW event, Call(c, op, <<event>>)
        PROVE  /\ seq' = seq /\ log' = log
               /\ \A d \in Clients : tx'[d].rows \subseteq tx[d].rows
    <3>1. tx'[c] = [Idle EXCEPT !.phase = "open", !.batch = <<event>>]
      BY <2>1 DEF Call, TypeOK
    <3>2. tx'[c].rows = {}
      BY <3>1 DEF Idle
    <3> QED
      BY <2>1, <3>2 DEF Call, TypeOK
  <2>2. ASSUME NEW op, NEW phase, NEW ns, NEW id, NEW events,
               Collect(c, op, phase, ns, id, events)
        PROVE  /\ seq' = seq /\ log' = log
               /\ \A d \in Clients : tx'[d].rows \subseteq tx[d].rows
    BY <2>2 DEF Collect, TypeOK, Tx
  <2> QED
    BY <1>2, <2>1, <2>2, StepKinds
<1>3. ASSUME NEW c \in Clients, Scan(c) \/ Execute(c) \/ Rollback(c)
      PROVE  /\ seq' = seq /\ log' = log
             /\ \A d \in Clients : tx'[d].rows \subseteq tx[d].rows
  <2> DEFINE RowsShrink == /\ seq' = seq /\ log' = log
                           /\ \A d \in Clients : tx'[d].rows \subseteq tx[d].rows
  <2>1. ASSUME Scan(c) PROVE RowsShrink
    BY <2>1, ScanChanges, ScanKeeps
  <2>2. ASSUME Execute(c) PROVE RowsShrink
    <3>1. \A d \in Clients : tx'[d].rows = tx[d].rows
      BY <2>2 DEF Execute, TypeOK, Tx
    <3> QED
      BY <2>2, <3>1 DEF Execute
  <2>3. ASSUME Rollback(c) PROVE RowsShrink
    <3>1. Idle.rows = {}
      BY DEF Idle
    <3>2. \A d \in Clients : tx'[d] = IF d = c THEN Idle ELSE tx[d]
      BY <2>3 DEF Rollback, TypeOK
    <3> QED
      BY <2>3, <3>1, <3>2 DEF Rollback
  <2> QED
    BY <1>3, <2>1, <2>2, <2>3
<1>4. ASSUME NEW c \in Clients, InsertEvent(c)
      PROVE  IdInv'
  <2> DEFINE row == [id |-> seq + 1, event |-> tx[c].batch[tx[c].pos + 1]]
  <2>1. /\ seq' = seq + 1 /\ log' = log
        /\ tx'[c].rows = tx[c].rows \cup {row}
        /\ \A d \in Clients \ {c} : tx'[d].rows = tx[d].rows
    <3> HIDE DEF row
    <3>1. PICK now \in Times : tx' = [tx EXCEPT ![c] = InsertedTx(tx[c], now, row)]
      BY <1>4, InsertEventChanges DEF row
    <3>2. InsertedTx(tx[c], now, row).rows = tx[c].rows \cup {row}
      BY DEF InsertedTx, TypeOK, Tx
    <3> QED
      BY <1>4, <3>1, <3>2, InsertEventChanges DEF TypeOK
  <2>2. /\ AllRows' = AllRows \cup {row}
        /\ \A r \in AllRows : r.id <= seq /\ r.id \in Nat
    <3>1. \A r \in AllRows : r \in LogRow
      BY DEF AllRows, TypeOK, Tx
    <3>2. \A r \in AllRows : r.id <= seq /\ r.id \in Nat
      BY <3>1 DEF IdInv, LogRow
    <3> HIDE DEF row
    <3>3. AllRows' = AllRows \cup {row}
      BY <2>1 DEF AllRows
    <3> QED
      BY <3>2, <3>3
  <2>3. row \notin AllRows
    BY <2>2 DEF TypeOK
  <2>4. \A r \in AllRows' : r.id <= seq'
    BY <2>1, <2>2 DEF TypeOK
  <2>5. \A r1, r2 \in AllRows' : r1.id = r2.id => r1 = r2
    BY <2>2 DEF IdInv, LogIdsUnique, TypeOK
  <2>6. \A b, d \in Clients : b # d => tx'[b].rows \cap (log' \cup tx'[d].rows) = {}
    <3> HIDE DEF row
    <3> QED
      BY <2>1, <2>3 DEF IdInv, LogIdsUnique, AllRows
  <2> QED
    BY <2>4, <2>5, <2>6 DEF IdInv, LogIdsUnique
<1>5. ASSUME NEW c \in Clients, Commit(c)
      PROVE  IdInv'
  <2>1. /\ seq' = seq /\ log' = log \cup tx[c].rows
        /\ tx'[c].rows = {}
        /\ \A d \in Clients \ {c} : tx'[d].rows = tx[d].rows
    BY <1>5 DEF Commit, TypeOK, Idle
  <2>2. AllRows' = AllRows
    BY <2>1 DEF AllRows
  <2> QED
    BY <2>1, <2>2 DEF IdInv, LogIdsUnique
<1>6. CASE UNCHANGED vars
  BY <1>1, <1>6 DEF vars
<1> QED
  BY <1>1, <1>2, <1>3, <1>4, <1>5, <1>6 DEF Next, Step, Fail, DeadlockVictim, Crash

\* No two rows of the log, committed or about to be, ever carry the same id.
THEOREM IdsUnique == Spec => []LogIdsUnique
<1>1. Init => TypeOK /\ IdInv
  BY TypeInit DEF Init, IdInv, LogIdsUnique, AllRows, Idle
<1>2. (TypeOK /\ IdInv) /\ [Next]_vars => (TypeOK /\ IdInv)'
  BY TypeStep, IdStep
<1>3. IdInv => LogIdsUnique
  BY DEF IdInv
<1> QED
  BY <1>1, <1>2, <1>3, PTL DEF Spec

-----------------------------------------------------------------------------
(* The log and the graph: the invariants.                                   *)

Items(list) == {list[i] : i \in DOMAIN list}

SourceTypes == {"NODE_CREATED", "EDGE_ADDED", "EMBEDDING_STORED"}
MoveTypes == {"MOVE_SOURCE", "MOVE_TARGET"}

\* The event that statement s projects, or is a part of the projection of.
Backs(event, s) ==
  /\ s.type = "EDGE_ADDED" =>
       /\ event.type = "EDGE_ADDED" /\ event.id = s.id /\ event.ns = s.ns
       /\ event.source = s.source /\ event.target = s.target /\ event.attrs = s.attrs
       /\ event.valid_from \in {NoTime, s.valid_from}
  /\ s.type = "NODE_RETRACTED" => RetractsNode(event, s.id)
  /\ s.type \in RemapTypes \cup MoveTypes => Merges(event, s.from)
  /\ s.type \in {"NODE_CREATED", "NODE_UPDATED", "EDGE_UPDATED", "EDGE_RETRACTED",
                 "EMBEDDING_STORED"} => event = s

Backed(s, rows) == \E r \in rows : Backs(r.event, s)

\* The strengthening: what a transaction has written comes from the log or from
\* its own rows, and so will what its statements are going to write.
ClientSourced(c) ==
  /\ RowsComeFrom(tx[c].delta, log \cup tx[c].rows)
  /\ \A s \in Items(tx[c].todo) : Backed(s, tx[c].rows)

SourceInv == RowsComeFrom(db, log) /\ \A c \in Clients : ClientSourced(c)

\* What s updates or retracts has an identity of ids; what it creates does.
Names(s, ids) ==
  /\ s.type \in {"NODE_UPDATED", "NODE_RETRACTED", "EDGE_UPDATED", "EDGE_RETRACTED"}
       => s.id \in ids
  /\ s.type = "NODES_MERGED" => s.removed \in ids
Draws(s, ids) == s.type \in {"NODE_CREATED", "EDGE_ADDED"} => s.id \in ids

\* Nothing is updated or retracted before some call has returned it, and what a call
\* creates has an identity of its own.
Identified(c) ==
  /\ tx[c].drawn \cap known = {}
  /\ \A s \in Items(tx[c].batch) \cup Items(tx[c].todo) :
       Names(s, known) /\ Draws(s, tx[c].drawn)
  /\ \A r \in tx[c].rows : Names(r.event, known)

IdentityInv ==
  /\ \A c \in Clients : Identified(c)
  /\ \A c, d \in Clients : c # d => tx[c].drawn \cap tx[d].drawn = {}
  /\ \A r \in log : Names(r.event, known)

\* new has the rows of old, in their namespaces and under their keys, retracted
\* if they were; and its other nodes and edges are among ids.
Grows(old, new, ids) ==
  /\ \A n \in NodeIds : old.nodes[n] # NoRow =>
       /\ new.nodes[n] # NoRow
       /\ new.nodes[n].ns = old.nodes[n].ns /\ new.nodes[n].key = old.nodes[n].key
       /\ old.nodes[n].retracted => new.nodes[n].retracted
  /\ \A e \in EdgeIds : old.edges[e] # NoRow =>
       /\ new.edges[e] # NoRow /\ new.edges[e].ns = old.edges[e].ns
       /\ old.edges[e].retracted => new.edges[e].retracted
  /\ \A m \in NodeIds \X Models :
       old.embeddings[m] # NoRow => new.embeddings[m] # NoRow
  /\ \A n \in NodeIds : old.nodes[n] = NoRow /\ new.nodes[n] # NoRow => n \in ids
  /\ \A e \in EdgeIds : old.edges[e] = NoRow /\ new.edges[e] # NoRow => e \in ids

GrowInv == \A c \in Clients : Grows(db, View(c), tx[c].drawn)

\* The statement of an event that leaves its mark.
Marker(event) ==
  IF event.type = "NODES_MERGED"
  THEN [type |-> "NODE_RETRACTED", ns |-> event.ns, id |-> event.removed]
  ELSE event

\* A statement that leaves the mark of event.
Leaves(s, event) ==
  \/ s = Marker(event)
  \/ s.type = "EDGE_ADDED" /\ event.type = "EDGE_ADDED" /\ s.id = event.id

ClientMarks(c) ==
  \A r \in tx[c].rows :
    Marked(View(c), r.event) \/ \E s \in Items(tx[c].todo) : Leaves(s, r.event)

MarkInv == EventsLeaveMarks /\ \A c \in Clients : ClientMarks(c)

-----------------------------------------------------------------------------
(* Lists.                                                                   *)

LEMMA ItemsJoined ==
  ASSUME NEW S, NEW a \in Seq(S), NEW b \in Seq(S)
  PROVE  Items(a \o b) = Items(a) \cup Items(b)
<1>1. Items(a \o b) \subseteq Items(a) \cup Items(b)
  BY DEF Items
<1>2. Items(a) \subseteq Items(a \o b)
  BY DEF Items
<1>3. ASSUME NEW i \in DOMAIN b PROVE b[i] \in Items(a \o b)
  <2>1. Len(a) + i \in DOMAIN (a \o b) /\ (a \o b)[Len(a) + i] = b[i]
    OBVIOUS
  <2> QED
    BY <2>1 DEF Items
<1> QED
  BY <1>1, <1>2, <1>3 DEF Items

LEMMA ItemsOfTail ==
  ASSUME NEW S, NEW a \in Seq(S), a # << >>
  PROVE  Items(a) = {Head(a)} \cup Items(Tail(a))
<1>1. ASSUME NEW i \in DOMAIN a PROVE a[i] = Head(a) \/ a[i] \in Items(Tail(a))
  <2>1. CASE i = 1
    BY <2>1
  <2>2. CASE i # 1
    <3>1. i - 1 \in DOMAIN Tail(a) /\ Tail(a)[i - 1] = a[i]
      BY <2>2
    <3> QED
      BY <3>1 DEF Items
  <2> QED
    BY <2>1, <2>2
<1>2. ASSUME NEW i \in DOMAIN Tail(a) PROVE Tail(a)[i] \in Items(a)
  <2>1. i + 1 \in DOMAIN a /\ Tail(a)[i] = a[i + 1]
    OBVIOUS
  <2> QED
    BY <2>1 DEF Items
<1>3. Head(a) \in Items(a)
  <2>1. 1 \in DOMAIN a /\ Head(a) = a[1]
    OBVIOUS
  <2> QED
    BY <2>1 DEF Items
<1> QED
  BY <1>1, <1>2, <1>3 DEF Items

LEMMA NoItems == Items(<< >>) = {}
  BY DEF Items

LEMMA OneItem == ASSUME NEW x PROVE Items(<<x>>) = {x}
  BY DEF Items

-----------------------------------------------------------------------------
(* What a step does to the parts of the state that the invariants are about.*)

\* Client c draws an id and adds the events of an item to its batch.
Gathers(c) ==
  /\ UNCHANGED <<seq, log, db, known>>
  /\ \A d \in Clients \ {c} : tx'[d] = tx[d]
  /\ tx'[c].rows = tx[c].rows /\ tx'[c].todo = tx[c].todo /\ tx'[c].delta = tx[c].delta
  /\ \E id \in NodeIds \cup EdgeIds :
       /\ Fresh(id)
       /\ tx'[c].drawn = tx[c].drawn \cup {id}
       /\ \A x \in Items(tx'[c].batch) :
            \/ x \in Items(tx[c].batch)
            \/ x.type \in SourceTypes /\ Draws(x, {id})
       /\ Items(tx[c].batch) \subseteq Items(tx'[c].batch)

\* Client c has nothing but perhaps the batch of a new call.
Clears(c) ==
  /\ UNCHANGED <<seq, log, db, known>>
  /\ \A d \in Clients \ {c} : tx'[d] = tx[d]
  /\ tx'[c].rows = {} /\ tx'[c].todo = << >> /\ tx'[c].delta = EmptyDb
  /\ tx'[c].drawn = {}
  /\ \A x \in Items(tx'[c].batch) :
       Names(x, known) /\ x.type \notin {"NODE_CREATED", "EDGE_ADDED"}
  /\ \A x, y \in Items(tx'[c].batch) : x = y

LEMMA CallClears ==
  ASSUME TypeOK, NEW c \in Clients, NEW op, NEW event, Call(c, op, <<event>>),
         Names(event, known), event.type \notin {"NODE_CREATED", "EDGE_ADDED"}
  PROVE  Clears(c)
<1>1. tx'[c] = [Idle EXCEPT !.phase = "open", !.batch = <<event>>]
  BY DEF Call, TypeOK
<1>2. \A d \in Clients \ {c} : tx'[d] = tx[d]
  BY DEF Call, TypeOK
<1>3. /\ tx'[c].rows = {} /\ tx'[c].todo = << >> /\ tx'[c].delta = EmptyDb
      /\ tx'[c].drawn = {} /\ tx'[c].batch = <<event>>
  BY <1>1 DEF Idle
<1> QED
  BY <1>2, <1>3, OneItem DEF Clears, Call

LEMMA CollectGathers ==
  ASSUME TypeOK, NEW c \in Clients, NEW op, NEW phase, NEW ns,
         NEW id \in NodeIds \cup EdgeIds, NEW events \in Seq(Event),
         Collect(c, op, phase, ns, id, events),
         \A x \in Items(events) : x.type \in SourceTypes /\ Draws(x, {id})
  PROVE  Gathers(c)
<1>1. tx[c] \in Tx /\ tx'[c] = [tx[c] EXCEPT !.phase = phase,
                                             !.batch = tx[c].batch \o events,
                                             !.drawn = tx[c].drawn \cup {id}]
  BY DEF Collect, TypeOK
<1>2. \A d \in Clients \ {c} : tx'[d] = tx[d]
  BY DEF Collect, TypeOK
<1>3. /\ tx'[c].rows = tx[c].rows /\ tx'[c].todo = tx[c].todo
      /\ tx'[c].delta = tx[c].delta /\ tx'[c].drawn = tx[c].drawn \cup {id}
      /\ tx'[c].batch = tx[c].batch \o events /\ tx[c].batch \in Seq(Event)
  BY <1>1 DEF Tx
<1>4. Items(tx'[c].batch) = Items(tx[c].batch) \cup Items(events)
  BY <1>3, ItemsJoined
<1> QED
  BY <1>2, <1>3, <1>4 DEF Gathers, Collect

LEMMA RollbackClears ==
  ASSUME TypeOK, NEW c \in Clients, Rollback(c)
  PROVE  Clears(c)
<1>1. tx'[c] = Idle /\ \A d \in Clients \ {c} : tx'[d] = tx[d]
  BY DEF Rollback, TypeOK
<1>2. /\ tx'[c].rows = {} /\ tx'[c].todo = << >> /\ tx'[c].delta = EmptyDb
      /\ tx'[c].drawn = {} /\ tx'[c].batch = << >>
  BY <1>1 DEF Idle
<1> QED
  BY <1>1, <1>2, NoItems DEF Clears, Rollback

LEMMA CallsGatherOrClear ==
  ASSUME TypeOK, NEW c \in Clients,
         \/ AddNodes(c) \/ AddEdges(c) \/ UpdateNode(c) \/ RetractNode(c)
         \/ RetractEdge(c) \/ MergeNodes(c) \/ ApplyEvent(c)
  PROVE  Gathers(c) \/ Clears(c)
<1>1. CASE AddNodes(c)
  <2>1. PICK ns \in Namespaces, id \in NodeIds, node \in NodeInputs :
          Collect(c, "add_nodes", "nodes", ns, id, NodeEvents(ns, id, node))
    BY <1>1 DEF AddNodes
  <2>2. NodeEvents(ns, id, node) \in Seq(Event)
    BY NodeEventsType
  <2>3. \A x \in Items(NodeEvents(ns, id, node)) :
          x.type \in SourceTypes /\ Draws(x, {id})
    BY DEF NodeEvents, Items, Draws, SourceTypes
  <2> QED
    BY <2>1, <2>2, <2>3, CollectGathers
<1>2. CASE AddEdges(c)
  <2>1. PICK ns \in Namespaces, id \in EdgeIds, event \in EdgeAdded :
          event.id = id /\ Collect(c, "add_edges", "edges", ns, id, <<event>>)
    <3>1. PICK ns \in Namespaces, id \in EdgeIds, edge \in EdgeInputs,
               source \in KnownNodes, target \in KnownNodes :
            Collect(c, "add_edges", "edges", ns, id,
                    << [type |-> "EDGE_ADDED", ns |-> ns, id |-> id,
                        source |-> source, target |-> target, attrs |-> edge.attrs,
                        valid_from |-> edge.valid_from] >>)
      BY <1>2 DEF AddEdges
    <3>2. [type |-> "EDGE_ADDED", ns |-> ns, id |-> id, source |-> source,
           target |-> target, attrs |-> edge.attrs,
           valid_from |-> edge.valid_from] \in EdgeAdded
      BY EventStoreAssumption DEF EdgeAdded, KnownNodes, EdgeInput
    <3> QED
      BY <3>1, <3>2
  <2>2. <<event>> \in Seq(Event)
    BY DEF Event
  <2>3. \A x \in Items(<<event>>) : x.type \in SourceTypes /\ Draws(x, {id})
    BY <2>1, OneItem DEF Draws, EdgeAdded, SourceTypes
  <2> QED
    BY <2>1, <2>2, <2>3, CollectGathers
<1>3. CASE UpdateNode(c)
  BY <1>3, CallClears DEF UpdateNode, Names, KnownNodes
<1>4. CASE RetractNode(c)
  BY <1>4, CallClears DEF RetractNode, Names, KnownNodes
<1>5. CASE RetractEdge(c)
  BY <1>5, CallClears DEF RetractEdge, Names, KnownEdges
<1>6. CASE MergeNodes(c)
  BY <1>6, CallClears DEF MergeNodes, Names, KnownNodes
<1>7. CASE ApplyEvent(c)
  BY <1>7, CallClears DEF ApplyEvent, Names, KnownEdges
<1> QED
  BY <1>1, <1>2, <1>3, <1>4, <1>5, <1>6, <1>7

LEMMA Steps ==
  ASSUME TypeOK, [Next]_vars
  PROVE  \/ UNCHANGED vars
         \/ \E c \in Clients : \/ Gathers(c) \/ Clears(c) \/ InsertEvent(c)
                               \/ Scan(c) \/ Execute(c) \/ Commit(c)
  BY CallsGatherOrClear, RollbackClears
     DEF Next, Step, Fail, DeadlockVictim, Crash

\* InsertEvent and the statements it adds.
LEMMA InsertData ==
  ASSUME TypeOK, NEW c \in Clients, InsertEvent(c)
  PROVE  LET event == tx[c].batch[tx[c].pos + 1] IN
         /\ event \in Event /\ event \in Items(tx[c].batch)
         /\ UNCHANGED <<log, db, known>>
         /\ \A d \in Clients \ {c} : tx'[d] = tx[d]
         /\ tx[c].todo = << >>
         /\ \E now \in Times : tx'[c].todo = Statements(At(event, now))
         /\ tx'[c].rows = tx[c].rows \cup {[id |-> seq + 1, event |-> event]}
         /\ tx'[c].delta = tx[c].delta /\ tx'[c].drawn = tx[c].drawn
         /\ tx'[c].batch = tx[c].batch
<1> DEFINE event == tx[c].batch[tx[c].pos + 1]
           row == [id |-> seq + 1, event |-> event]
<1>1. tx[c] \in Tx /\ tx[c].todo = << >> /\ tx[c].pos + 1 \in DOMAIN tx[c].batch
  BY DEF TypeOK, Tx, InsertEvent
<1>2. event \in Event /\ event \in Items(tx[c].batch)
  BY <1>1 DEF Tx, Items
<1>3. PICK now \in Times : tx' = [tx EXCEPT ![c] = InsertedTx(tx[c], now, row)]
  BY InsertEventChanges
<1>4. /\ UNCHANGED <<log, db, known>>
      /\ \A d \in Clients \ {c} : tx'[d] = tx[d]
      /\ tx'[c] = InsertedTx(tx[c], now, row)
  BY <1>3, InsertEventChanges DEF TypeOK
<1>5. /\ tx'[c].todo = Statements(At(row.event, now))
      /\ tx'[c].rows = tx[c].rows \cup {row}
      /\ tx'[c].delta = tx[c].delta /\ tx'[c].drawn = tx[c].drawn
      /\ tx'[c].batch = tx[c].batch
  <2> HIDE DEF event, row
  <2> QED
    BY <1>1, <1>4 DEF Tx, InsertedTx
<1> QED
  BY <1>1, <1>2, <1>4, <1>5

LEMMA StatementItems ==
  ASSUME NEW event \in Event
  PROVE  /\ event.type # "RAW_INPUT_RECEIVED" => Marker(event) \in Items(Statements(event))
         /\ \A s \in Items(Statements(event)) :
              s = Marker(event) \/ s.type \in RemapTypes
<1>1. CASE event.type = "NODES_MERGED"
  <2>1. Statements(event) =
          << [type |-> "REMAP_SOURCE", from |-> event.removed, to |-> event.kept],
             [type |-> "REMAP_TARGET", from |-> event.removed, to |-> event.kept],
             Marker(event) >>
    BY <1>1 DEF Statements, Marker
  <2>2. /\ DOMAIN Statements(event) = 1..3
        /\ Statements(event)[1].type = "REMAP_SOURCE"
        /\ Statements(event)[2].type = "REMAP_TARGET"
        /\ Statements(event)[3] = Marker(event)
    BY <2>1
  <2> QED
    BY <2>2 DEF Items, RemapTypes
<1>2. CASE event.type = "RAW_INPUT_RECEIVED"
  BY <1>2, NoItems DEF Statements
<1>3. CASE event.type \notin {"NODES_MERGED", "RAW_INPUT_RECEIVED"}
  <2>1. Statements(event) = <<event>> /\ Marker(event) = event
    BY <1>3 DEF Statements, Marker
  <2> QED
    BY <2>1, OneItem
<1> QED
  BY <1>1, <1>2, <1>3

\* What moves edges belongs to a merge.
LEMMA RemapItems ==
  ASSUME NEW event \in Event, NEW s \in Items(Statements(event)),
         s.type \in RemapTypes \cup MoveTypes
  PROVE  event.type = "NODES_MERGED" /\ s.from = event.removed /\ s.to = event.kept
<1>1. CASE event.type = "NODES_MERGED"
  <2>1. Statements(event) =
          << [type |-> "REMAP_SOURCE", from |-> event.removed, to |-> event.kept],
             [type |-> "REMAP_TARGET", from |-> event.removed, to |-> event.kept],
             Marker(event) >>
    BY <1>1 DEF Statements, Marker
  <2>2. /\ DOMAIN Statements(event) = 1..3
        /\ \A i \in 1..2 : /\ Statements(event)[i].from = event.removed
                           /\ Statements(event)[i].to = event.kept
        /\ Statements(event)[3] = Marker(event)
    BY <2>1
  <2>3. Marker(event).type = "NODE_RETRACTED"
    BY <1>1 DEF Marker
  <2> QED
    BY <1>1, <2>2, <2>3 DEF Items, RemapTypes, MoveTypes
<1>2. CASE event.type = "RAW_INPUT_RECEIVED"
  BY <1>2, NoItems DEF Statements
<1>3. CASE event.type \notin {"NODES_MERGED", "RAW_INPUT_RECEIVED"}
  <2>1. s = event
    BY <1>3, OneItem DEF Statements
  <2> QED
    BY <2>1 DEF RemapTypes, MoveTypes, Event, NodeCreated, NodeUpdated,
           NodeRetracted, EdgeAdded, EdgeUpdated, EdgeRetracted, EmbeddingStored,
           RawInputReceived, NodesMerged
<1> QED
  BY <1>1, <1>2, <1>3

\* Every statement of an event is backed by it.
LEMMA StatementsBacked ==
  ASSUME NEW event \in Event, NEW now \in Times,
         NEW s \in Items(Statements(At(event, now)))
  PROVE  Backs(event, s)
<1> DEFINE at == At(event, now)
<1>1. at \in Event /\ at.type = event.type
  BY AtType
<1>2. CASE s.type \in RemapTypes \cup MoveTypes
  <2>1. at.type = "NODES_MERGED" /\ s.from = at.removed
    BY <1>1, <1>2, RemapItems
  <2>2. at = event
    BY <1>1, <2>1, AtType
  <2> QED
    BY <1>2, <2>1, <2>2 DEF Backs, Merges, RemapTypes, MoveTypes
<1>3. CASE s.type \notin RemapTypes \cup MoveTypes
  <2>1. s = Marker(at)
    BY <1>1, <1>3, StatementItems
  <2>2. CASE event.type = "NODES_MERGED"
    <3>1. s = [type |-> "NODE_RETRACTED", ns |-> event.ns, id |-> event.removed]
      BY <2>1, <2>2, AtType DEF Marker
    <3> QED
      BY <2>2, <3>1 DEF Backs, RetractsNode, Merges, RemapTypes, MoveTypes
  <2>3. CASE event.type = "EDGE_ADDED"
    <3>1. s = at
      BY <1>1, <2>1, <2>3 DEF Marker
    <3> QED
      BY <1>1, <1>3, <2>3, <3>1, AtType DEF Backs
  <2>4. CASE event.type \notin {"NODES_MERGED", "EDGE_ADDED"}
    <3>1. s = event
      BY <2>1, <2>4, AtType DEF Marker
    <3> QED
      BY <1>3, <2>4, <3>1 DEF Backs, RetractsNode
  <2> QED
    BY <2>2, <2>3, <2>4
<1> QED
  BY <1>2, <1>3

\* A scan puts moves in the place of its statement.
LEMMA ScanData ==
  ASSUME TypeOK, NEW c \in Clients, Scan(c)
  PROVE  /\ UNCHANGED <<log, db, known>>
         /\ \A d \in Clients \ {c} : tx'[d] = tx[d]
         /\ tx'[c].rows = tx[c].rows /\ tx'[c].delta = tx[c].delta
         /\ tx'[c].drawn = tx[c].drawn /\ tx'[c].batch = tx[c].batch
         /\ tx[c].todo \in Seq(Statement) /\ tx[c].todo # << >>
         /\ Head(tx[c].todo).type \in RemapTypes
         /\ Items(Tail(tx[c].todo)) \subseteq Items(tx'[c].todo)
         /\ \A s \in Items(tx'[c].todo) :
              \/ s \in Items(Tail(tx[c].todo))
              \/ /\ s.type \in {"MOVE_SOURCE", "MOVE_TARGET"}
                 /\ s.from = Head(tx[c].todo).from /\ s.to = Head(tx[c].todo).to
<1> DEFINE s == Head(tx[c].todo)
           move == IF s.type = "REMAP_SOURCE" THEN "MOVE_SOURCE" ELSE "MOVE_TARGET"
           Moves(order) == [i \in DOMAIN order |-> [type |-> move, id |-> order[i],
                                                    from |-> s.from, to |-> s.to]]
<1>1. PICK order \in Orders(EdgesWritten(View(c).edges, s)) :
        tx' = [tx EXCEPT ![c].todo = Moves(order) \o Tail(tx[c].todo)]
  BY DEF Scan
<1>2. /\ tx \in [Clients -> Tx] /\ tx[c].todo # << >> /\ s.type \in RemapTypes
      /\ UNCHANGED <<log, db, known>>
  BY ScanChanges DEF TypeOK
<1> DEFINE todo == Moves(order) \o Tail(tx[c].todo)
<1>3. tx'[c] = [tx[c] EXCEPT !.todo = todo] /\ \A d \in Clients \ {c} : tx'[d] = tx[d]
  BY <1>1, <1>2
<1>4. /\ tx'[c].rows = tx[c].rows /\ tx'[c].delta = tx[c].delta
      /\ tx'[c].drawn = tx[c].drawn /\ tx'[c].batch = tx[c].batch
      /\ tx'[c].todo = todo /\ tx[c].todo \in Seq(Statement)
  <2> HIDE DEF todo
  <2> QED
    BY <1>2, <1>3 DEF Tx
<1>5. Items(todo) = Items(Moves(order)) \cup Items(Tail(tx[c].todo))
  <2> DEFINE Every == Statement \cup {Moves(order)[i] : i \in DOMAIN order}
  <2>1. DOMAIN order = 1..Cardinality(EdgesWritten(View(c).edges, s))
    BY DEF Orders
  <2>2. Cardinality(EdgesWritten(View(c).edges, s)) \in Nat
    <3>1. IsFiniteSet(EdgesWritten(View(c).edges, s))
      BY GraphAssumption, FS_Subset DEF EdgesWritten, Remapped
    <3> QED
      BY <3>1, FS_CardinalityType
  <2>3. Moves(order) \in Seq(Every)
    <3> DEFINE k == Cardinality(EdgesWritten(View(c).edges, s))
               first == Moves(order)
    <3>1. k \in Nat /\ DOMAIN first = 1..k
      BY <2>1, <2>2
    <3>2. first = [i \in DOMAIN first |-> first[i]]
      OBVIOUS
    <3>3. \A i \in DOMAIN first : first[i] \in Every
      OBVIOUS
    <3>4. SUFFICES first \in Seq(Every)
      OBVIOUS
    <3> HIDE DEF k, first, Every
    <3>5. first \in [1..k -> Every]
      BY <3>1, <3>2, <3>3
    <3> QED
      BY <3>1, <3>5
  <2>4. Tail(tx[c].todo) \in Seq(Every)
    <3>1. Statement \subseteq Every
      OBVIOUS
    <3>2. tx[c].todo \in Seq(Statement) /\ tx[c].todo # << >>
      BY <1>2, <1>4
    <3> HIDE DEF Every
    <3>3. Tail(tx[c].todo) \in Seq(Statement)
      BY <3>2
    <3> QED
      BY <3>1, <3>3
  <2> DEFINE first == Moves(order)
             rest == Tail(tx[c].todo)
  <2>5. first \in Seq(Every) /\ rest \in Seq(Every)
    BY <2>3, <2>4
  <2> HIDE DEF Every, first, rest
  <2>6. Items(first \o rest) = Items(first) \cup Items(rest)
    BY <2>5, ItemsJoined
  <2> QED
    BY <2>6 DEF first, rest
<1>6. \A x \in Items(Moves(order)) :
        x.type \in {"MOVE_SOURCE", "MOVE_TARGET"} /\ x.from = s.from /\ x.to = s.to
  BY DEF Items
<1> QED
  BY <1>2, <1>3, <1>4, <1>5, <1>6

LEMMA ExecuteTodo ==
  ASSUME TypeOK, NEW c \in Clients, Execute(c)
  PROVE  /\ UNCHANGED <<log, known>>
         /\ \A d \in Clients \ {c} : tx'[d] = tx[d]
         /\ tx[c].todo \in Seq(Statement) /\ tx[c].todo # << >>
         /\ tx'[c].todo = Tail(tx[c].todo)
         /\ tx'[c].rows = tx[c].rows
         /\ tx'[c].drawn = tx[c].drawn /\ tx'[c].batch = tx[c].batch
<1> DEFINE delta == Write(View(c), tx[c].delta, Head(tx[c].todo))
<1>1. /\ UNCHANGED <<log, known>> /\ tx \in [Clients -> Tx] /\ tx[c].todo # << >>
      /\ tx' = [tx EXCEPT ![c].todo = Tail(tx[c].todo), ![c].delta = delta]
  BY DEF Execute, TypeOK
<1> HIDE DEF delta
<1>2. /\ tx'[c] = [tx[c] EXCEPT !.todo = Tail(tx[c].todo), !.delta = delta]
      /\ \A d \in Clients \ {c} : tx'[d] = tx[d]
  BY <1>1
<1> QED
  BY <1>1, <1>2 DEF Tx

-----------------------------------------------------------------------------
(* Rows come from events.                                                   *)

LEMMA SourcedMore ==
  ASSUME NEW d, NEW rows, NEW more, rows \subseteq more, RowsComeFrom(d, rows)
  PROVE  RowsComeFrom(d, more)
<1>1. ASSUME NEW n, NEW row, NodeComesFrom(n, row, rows)
      PROVE  NodeComesFrom(n, row, more)
  BY <1>1 DEF NodeComesFrom
<1>2. ASSUME NEW event, NEW e, NEW row, Adds(event, e, row, rows)
      PROVE  Adds(event, e, row, more)
  BY <1>2 DEF Adds
<1>3. ASSUME NEW e, NEW row, EdgeComesFrom(e, row, rows)
      PROVE  EdgeComesFrom(e, row, more)
  BY <1>2, <1>3 DEF EdgeComesFrom
<1>4. ASSUME NEW m, NEW vector, VectorComesFrom(m, vector, rows)
      PROVE  VectorComesFrom(m, vector, more)
  BY <1>4 DEF VectorComesFrom
<1> QED
  BY <1>1, <1>3, <1>4 DEF RowsComeFrom

LEMMA NothingSourced == ASSUME NEW rows PROVE RowsComeFrom(EmptyDb, rows)
  BY EmptyTables DEF RowsComeFrom

LEMMA ViewSourced ==
  ASSUME TypeOK, NEW c \in Clients, SourceInv
  PROVE  RowsComeFrom(View(c), log \cup tx[c].rows)
<1> DEFINE all == log \cup tx[c].rows
<1>1. RowsComeFrom(db, all) /\ RowsComeFrom(tx[c].delta, all)
  <2>1. log \subseteq all /\ RowsComeFrom(db, log)
    BY DEF SourceInv
  <2>2. RowsComeFrom(tx[c].delta, all)
    BY DEF SourceInv, ClientSourced
  <2> HIDE DEF all
  <2> QED
    BY <2>1, <2>2, SourcedMore
<1> HIDE DEF all
<1>2. \A n \in NodeIds : View(c).nodes[n] # NoRow => NodeComesFrom(n, View(c).nodes[n], all)
  BY <1>1, ViewRows DEF RowsComeFrom
<1>3. \A e \in EdgeIds : View(c).edges[e] # NoRow => EdgeComesFrom(e, View(c).edges[e], all)
  BY <1>1, ViewRows DEF RowsComeFrom
<1>4. \A m \in NodeIds \X Models :
        View(c).embeddings[m] # NoRow => VectorComesFrom(m, View(c).embeddings[m], all)
  BY <1>1, ViewRows DEF RowsComeFrom
<1> QED
  BY <1>2, <1>3, <1>4 DEF RowsComeFrom, all

\* What a statement leaves in a node comes from its event, or from where the
\* node came from before.
LEMMA NodeSourced ==
  ASSUME NEW d \in Db, NEW s \in Statement, ~Rejected(d, s),
         NEW n \in NodesWritten(d.nodes, s), NEW rows, Backed(s, rows),
         d.nodes[n] # NoRow => NodeComesFrom(n, d.nodes[n], rows)
  PROVE  NodeComesFrom(n, NodeAfter(d.nodes[n], s), rows)
<1> DEFINE old == d.nodes[n]
           new == NodeAfter(old, s)
<1>0. n \in NodeIds /\ s.type \in {"NODE_CREATED", "NODE_UPDATED", "NODE_RETRACTED"}
  BY DEF NodesWritten
<1>1. PICK r \in rows : Backs(r.event, s)
  BY DEF Backed
<1>2. old \in NodeRow \cup {NoRow}
  BY <1>0 DEF Db
<1>3. CASE s.type = "NODE_CREATED" /\ old = NoRow
  <2>1. n = s.id
    BY <1>3 DEF NodesWritten, KeyHolders
  <2>2. new = [ns |-> s.ns, key |-> s.key, attrs |-> s.attrs, retracted |-> FALSE]
    BY <1>3 DEF NodeAfter
  <2>3. r.event = s
    BY <1>1, <1>3 DEF Backs
  <2> HIDE DEF old, new
  <2>4. Creates(r.event, n, new) /\ ~new.retracted
    BY <1>3, <2>1, <2>2, <2>3 DEF Creates
  <2>5. \A f \in NodeFields : WritesNode(r.event, n, new, f, new.attrs[f])
    BY <1>3, <2>1, <2>2, <2>3 DEF WritesNode
  <2> QED
    BY <2>4, <2>5 DEF NodeComesFrom, old, new
<1>4. ASSUME old # NoRow
      PROVE  /\ old \in NodeRow /\ NodeComesFrom(n, old, rows)
             /\ \E p \in rows : Creates(p.event, n, old)
             /\ \A f \in NodeFields : \E p \in rows : WritesNode(p.event, n, old, f, old.attrs[f])
  BY <1>2, <1>4 DEF NodeComesFrom
<1>5. ASSUME NEW row, old # NoRow, row.ns = old.ns, row.key = old.key
      PROVE  /\ \E p \in rows : Creates(p.event, n, row)
             /\ \A f \in NodeFields : \E p \in rows : WritesNode(p.event, n, row, f, old.attrs[f])
  BY <1>4, <1>5 DEF Creates, WritesNode
<1>6. CASE s.type = "NODE_CREATED" /\ old # NoRow
  <2>1. s.key # NoKey /\ old.ns = s.ns /\ old.key = s.key
    BY <1>6 DEF NodesWritten, KeyHolders, Rejected
  <2>2. new = [old EXCEPT !.attrs = s.attrs]
    BY <1>6 DEF NodeAfter
  <2>3. r.event = s
    BY <1>1, <1>6 DEF Backs
  <2> HIDE DEF old, new
  <2>4. /\ new.ns = old.ns /\ new.key = old.key /\ new.retracted = old.retracted
        /\ new.attrs = s.attrs
    BY <1>4, <1>6, <2>2 DEF NodeRow
  <2>5. \A f \in NodeFields : WritesNode(r.event, n, new, f, new.attrs[f])
    BY <1>6, <2>1, <2>3, <2>4 DEF WritesNode
  <2>6. new.retracted => \E p \in rows : RetractsNode(p.event, n)
    BY <1>4, <1>6, <2>4 DEF NodeComesFrom
  <2> QED
    <3>1. \E p \in rows : Creates(p.event, n, new)
      BY <1>5, <1>6, <2>4
    <3>2. NodeComesFrom(n, new, rows)
      BY <2>5, <2>6, <3>1 DEF NodeComesFrom
    <3> QED
      BY <3>2 DEF new, old
<1>7. CASE s.type = "NODE_UPDATED"
  <2>1. n = s.id /\ old # NoRow
    BY <1>7 DEF NodesWritten
  <2>2. new = [old EXCEPT !.attrs = Patched(old.attrs, s.patch)]
    BY <1>7 DEF NodeAfter
  <2>3. r.event = s
    BY <1>1, <1>7 DEF Backs
  <2> HIDE DEF old, new
  <2>4. /\ new.ns = old.ns /\ new.key = old.key /\ new.retracted = old.retracted
        /\ new.attrs = Patched(old.attrs, s.patch) /\ DOMAIN old.attrs = NodeFields
    BY <1>4, <2>1, <2>2 DEF NodeRow, NodeAttrs
  <2>5. ASSUME NEW f \in NodeFields
        PROVE  \E p \in rows : WritesNode(p.event, n, new, f, new.attrs[f])
    <3>1. CASE f \in DOMAIN s.patch
      <4>1. new.attrs[f] = s.patch[f]
        BY <2>4, <3>1 DEF Patched
      <4> QED
        BY <1>7, <2>1, <2>3, <3>1, <4>1 DEF WritesNode
    <3>2. CASE f \notin DOMAIN s.patch
      <4>1. new.attrs[f] = old.attrs[f]
        BY <2>4, <3>2 DEF Patched
      <4> QED
        BY <1>5, <2>1, <2>4, <4>1
    <3> QED
      BY <3>1, <3>2
  <2>6. new.retracted => \E p \in rows : RetractsNode(p.event, n)
    BY <1>4, <2>1, <2>4 DEF NodeComesFrom
  <2> QED
    <3>1. \E p \in rows : Creates(p.event, n, new)
      BY <1>5, <2>1, <2>4
    <3>2. NodeComesFrom(n, new, rows)
      BY <2>5, <2>6, <3>1 DEF NodeComesFrom
    <3> QED
      BY <3>2 DEF new, old
<1>8. CASE s.type = "NODE_RETRACTED"
  <2>1. n = s.id /\ old # NoRow
    BY <1>8 DEF NodesWritten
  <2>2. new = [old EXCEPT !.retracted = TRUE]
    BY <1>8 DEF NodeAfter
  <2>3. RetractsNode(r.event, n)
    BY <1>1, <1>8, <2>1 DEF Backs
  <2> HIDE DEF old, new
  <2>4. new.ns = old.ns /\ new.key = old.key /\ new.attrs = old.attrs
    BY <1>4, <2>1, <2>2 DEF NodeRow
  <2> QED
    <3>1. /\ \E p \in rows : Creates(p.event, n, new)
          /\ \A f \in NodeFields : \E p \in rows :
               WritesNode(p.event, n, new, f, new.attrs[f])
      BY <1>5, <2>1, <2>4
    <3>2. NodeComesFrom(n, new, rows)
      BY <2>3, <3>1 DEF NodeComesFrom
    <3> QED
      BY <3>2 DEF new, old
<1> QED
  BY <1>0, <1>3, <1>6, <1>7, <1>8

\* The same of an edge: a move takes it away from a node that was merged.
LEMMA EdgeSourced ==
  ASSUME NEW d \in Db, NEW s \in Statement, ~Rejected(d, s),
         NEW e \in EdgesWritten(d.edges, s), NEW rows, Backed(s, rows),
         d.edges[e] # NoRow => EdgeComesFrom(e, d.edges[e], rows)
  PROVE  EdgeComesFrom(e, EdgeAfter(d.edges[e], s), rows)
<1> DEFINE old == d.edges[e]
           new == EdgeAfter(old, s)
<1>0. e \in EdgeIds
  BY DEF EdgesWritten
<1>1. PICK r \in rows : Backs(r.event, s)
  BY DEF Backed
<1>2. CASE s.type = "EDGE_ADDED"
  <2>1. e = s.id
    BY <1>2 DEF EdgesWritten, Remapped
  <2>2. new = [ns |-> s.ns, source |-> s.source, target |-> s.target,
               attrs |-> s.attrs, valid_from |-> s.valid_from, retracted |-> FALSE]
    BY <1>2 DEF EdgeAfter
  <2>3. /\ r.event.type = "EDGE_ADDED" /\ r.event.id = s.id /\ r.event.ns = s.ns
        /\ r.event.source = s.source /\ r.event.target = s.target
        /\ r.event.attrs = s.attrs /\ r.event.valid_from \in {NoTime, s.valid_from}
    BY <1>1, <1>2 DEF Backs
  <2> HIDE DEF old, new
  <2>4. Adds(r.event, e, new, rows) /\ ~new.retracted
    BY <2>1, <2>2, <2>3 DEF Adds
  <2>5. \A f \in EdgeFields : WritesEdge(r.event, e, f, new.attrs[f])
    BY <2>1, <2>2, <2>3 DEF WritesEdge
  <2> QED
    BY <2>4, <2>5 DEF EdgeComesFrom, new, old
<1>3. ASSUME s.type # "EDGE_ADDED"
      PROVE  /\ old # NoRow /\ old \in EdgeRow /\ EdgeComesFrom(e, old, rows)
             /\ \E p \in rows : Adds(p.event, e, old, rows)
             /\ old.retracted => \E p \in rows : RetractsEdge(p.event, e)
             /\ \A f \in EdgeFields : \E p \in rows : WritesEdge(p.event, e, f, old.attrs[f])
  <2>1. old # NoRow
    BY <1>3 DEF EdgesWritten, Remapped
  <2>2. old \in EdgeRow
    BY <1>0, <2>1 DEF Db
  <2> QED
    BY <2>1, <2>2 DEF EdgeComesFrom
<1>4. ASSUME s.type # "EDGE_ADDED", NEW row, row.ns = old.ns, row.source = old.source,
             row.target = old.target, row.valid_from = old.valid_from
      PROVE  \E p \in rows : Adds(p.event, e, row, rows)
  BY <1>3, <1>4 DEF Adds
<1>5. CASE s.type = "EDGE_UPDATED"
  <2>1. e = s.id
    BY <1>5 DEF EdgesWritten, Remapped
  <2>2. new = [old EXCEPT !.attrs = Patched(old.attrs, s.patch)]
    BY <1>5 DEF EdgeAfter
  <2>3. r.event = s
    BY <1>1, <1>5 DEF Backs
  <2> HIDE DEF old, new
  <2>4. /\ new.ns = old.ns /\ new.source = old.source /\ new.target = old.target
        /\ new.valid_from = old.valid_from /\ new.retracted = old.retracted
        /\ new.attrs = Patched(old.attrs, s.patch) /\ DOMAIN old.attrs = EdgeFields
    BY <1>3, <1>5, <2>2 DEF EdgeRow, EdgeAttrs
  <2>5. ASSUME NEW f \in EdgeFields
        PROVE  \E p \in rows : WritesEdge(p.event, e, f, new.attrs[f])
    <3>1. CASE f \in DOMAIN s.patch
      <4>1. new.attrs[f] = s.patch[f]
        BY <2>4, <3>1 DEF Patched
      <4> QED
        BY <1>5, <2>1, <2>3, <3>1, <4>1 DEF WritesEdge
    <3>2. CASE f \notin DOMAIN s.patch
      <4>1. new.attrs[f] = old.attrs[f]
        BY <2>4, <3>2 DEF Patched
      <4> QED
        BY <1>3, <1>5, <4>1
    <3> QED
      BY <3>1, <3>2
  <2> QED
    <3>1. /\ \E p \in rows : Adds(p.event, e, new, rows)
          /\ new.retracted => \E p \in rows : RetractsEdge(p.event, e)
      BY <1>3, <1>4, <1>5, <2>4
    <3>2. EdgeComesFrom(e, new, rows)
      BY <2>5, <3>1 DEF EdgeComesFrom
    <3> QED
      BY <3>2 DEF new, old
<1>6. CASE s.type = "EDGE_RETRACTED"
  <2>1. e = s.id
    BY <1>6 DEF EdgesWritten, Remapped
  <2>2. new = [old EXCEPT !.retracted = TRUE]
    BY <1>6 DEF EdgeAfter
  <2>3. RetractsEdge(r.event, e)
    BY <1>1, <1>6, <2>1 DEF Backs, RetractsEdge
  <2> HIDE DEF old, new
  <2>4. /\ new.ns = old.ns /\ new.source = old.source /\ new.target = old.target
        /\ new.valid_from = old.valid_from /\ new.attrs = old.attrs
    BY <1>3, <1>6, <2>2 DEF EdgeRow
  <2> QED
    <3>1. /\ \E p \in rows : Adds(p.event, e, new, rows)
          /\ \A f \in EdgeFields : \E p \in rows : WritesEdge(p.event, e, f, new.attrs[f])
      BY <1>3, <1>4, <1>6, <2>4
    <3>2. EdgeComesFrom(e, new, rows)
      BY <2>3, <3>1 DEF EdgeComesFrom
    <3> QED
      BY <3>2 DEF new, old
<1>7. CASE s.type \in {"REMAP_SOURCE", "MOVE_SOURCE"}
  <2>1. old.source = s.from
    BY <1>7 DEF EdgesWritten, Remapped
  <2>2. new = [old EXCEPT !.source = s.to]
    BY <1>7 DEF EdgeAfter
  <2>3. Merges(r.event, s.from)
    BY <1>1, <1>7 DEF Backs, RemapTypes, MoveTypes
  <2> HIDE DEF old, new
  <2>4. /\ new.ns = old.ns /\ new.target = old.target /\ new.attrs = old.attrs
        /\ new.valid_from = old.valid_from /\ new.retracted = old.retracted
    BY <1>3, <1>7, <2>2 DEF EdgeRow
  <2>5. PICK p \in rows : Adds(p.event, e, old, rows)
    BY <1>3, <1>7
  <2>6. Adds(p.event, e, new, rows)
    BY <2>1, <2>3, <2>4, <2>5 DEF Adds
  <2> QED
    <3>1. EdgeComesFrom(e, new, rows)
      BY <1>3, <1>7, <2>4, <2>6 DEF EdgeComesFrom
    <3> QED
      BY <3>1 DEF new, old
<1>8. CASE s.type \in {"REMAP_TARGET", "MOVE_TARGET"}
  <2>1. old.target = s.from
    BY <1>8 DEF EdgesWritten, Remapped
  <2>2. new = [old EXCEPT !.target = s.to]
    BY <1>8 DEF EdgeAfter
  <2>3. Merges(r.event, s.from)
    BY <1>1, <1>8 DEF Backs, RemapTypes, MoveTypes
  <2> HIDE DEF old, new
  <2>4. /\ new.ns = old.ns /\ new.source = old.source /\ new.attrs = old.attrs
        /\ new.valid_from = old.valid_from /\ new.retracted = old.retracted
    BY <1>3, <1>8, <2>2 DEF EdgeRow
  <2>5. PICK p \in rows : Adds(p.event, e, old, rows)
    BY <1>3, <1>8
  <2>6. Adds(p.event, e, new, rows)
    BY <2>1, <2>3, <2>4, <2>5 DEF Adds
  <2> QED
    <3>1. EdgeComesFrom(e, new, rows)
      BY <1>3, <1>8, <2>4, <2>6 DEF EdgeComesFrom
    <3> QED
      BY <3>1 DEF new, old
<1> QED
  BY <1>2, <1>5, <1>6, <1>7, <1>8 DEF EdgesWritten, Remapped

LEMMA ExecuteSourced ==
  ASSUME TypeOK, NEW c \in Clients, Execute(c), SourceInv
  PROVE  RowsComeFrom(tx'[c].delta, log \cup tx[c].rows)
<1> DEFINE s == Head(tx[c].todo)
           all == log \cup tx[c].rows
<1>1. RowsComeFrom(View(c), all) /\ RowsComeFrom(tx[c].delta, all) /\ View(c) \in Db
  BY ViewSourced, ViewType DEF SourceInv, ClientSourced
<1>2. Backed(s, all)
  <2>1. s \in Items(tx[c].todo)
    BY ExecuteTodo, ItemsOfTail
  <2> QED
    BY <2>1 DEF SourceInv, ClientSourced, Backed
<1>3. /\ s \in Statement /\ ~Rejected(View(c), s)
      /\ \A n \in NodeIds : tx'[c].delta.nodes[n] =
           IF n \in NodesWritten(View(c).nodes, s)
           THEN NodeAfter(View(c).nodes[n], s) ELSE tx[c].delta.nodes[n]
      /\ \A e \in EdgeIds : tx'[c].delta.edges[e] =
           IF e \in EdgesWritten(View(c).edges, s)
           THEN EdgeAfter(View(c).edges[e], s) ELSE tx[c].delta.edges[e]
      /\ \A m \in NodeIds \X Models : tx'[c].delta.embeddings[m] =
           IF m \in EmbeddingsWritten(s)
           THEN s.vector ELSE tx[c].delta.embeddings[m]
  BY ExecuteData
<1> HIDE DEF s, all
<1>4. ASSUME NEW n \in NodeIds, tx'[c].delta.nodes[n] # NoRow
      PROVE  NodeComesFrom(n, tx'[c].delta.nodes[n], all)
  <2>1. CASE n \in NodesWritten(View(c).nodes, s)
    <3>1. View(c).nodes[n] # NoRow => NodeComesFrom(n, View(c).nodes[n], all)
      BY <1>1 DEF RowsComeFrom
    <3> QED
      BY <1>1, <1>2, <1>3, <2>1, <3>1, NodeSourced
  <2>2. CASE n \notin NodesWritten(View(c).nodes, s)
    BY <1>1, <1>3, <1>4, <2>2 DEF RowsComeFrom
  <2> QED
    BY <2>1, <2>2
<1>5. ASSUME NEW e \in EdgeIds, tx'[c].delta.edges[e] # NoRow
      PROVE  EdgeComesFrom(e, tx'[c].delta.edges[e], all)
  <2>1. CASE e \in EdgesWritten(View(c).edges, s)
    <3>1. View(c).edges[e] # NoRow => EdgeComesFrom(e, View(c).edges[e], all)
      BY <1>1 DEF RowsComeFrom
    <3> QED
      BY <1>1, <1>2, <1>3, <2>1, <3>1, EdgeSourced
  <2>2. CASE e \notin EdgesWritten(View(c).edges, s)
    BY <1>1, <1>3, <1>5, <2>2 DEF RowsComeFrom
  <2> QED
    BY <2>1, <2>2
<1>6. ASSUME NEW m \in NodeIds \X Models, tx'[c].delta.embeddings[m] # NoRow
      PROVE  VectorComesFrom(m, tx'[c].delta.embeddings[m], all)
  <2>1. CASE m \in EmbeddingsWritten(s)
    <3>1. /\ s.type = "EMBEDDING_STORED" /\ m = <<s.node, s.model>>
          /\ tx'[c].delta.embeddings[m] = s.vector
      BY <1>3, <2>1 DEF EmbeddingsWritten
    <3>2. \E r \in all : r.event = s
      BY <1>2, <3>1 DEF Backed, Backs
    <3> QED
      BY <3>1, <3>2 DEF VectorComesFrom
  <2>2. CASE m \notin EmbeddingsWritten(s)
    <3>1. tx'[c].delta.embeddings[m] = tx[c].delta.embeddings[m]
      BY <1>3, <2>2
    <3> QED
      BY <1>1, <1>6, <3>1 DEF RowsComeFrom
  <2> QED
    BY <2>1, <2>2
<1> QED
  BY <1>4, <1>5, <1>6 DEF RowsComeFrom, all

\* A client that keeps what it has is not disturbed when the log grows.
LEMMA SourceKept ==
  ASSUME NEW c \in Clients, ClientSourced(c), log \subseteq log',
         tx'[c].rows = tx[c].rows, tx'[c].delta = tx[c].delta, tx'[c].todo = tx[c].todo
  PROVE  ClientSourced(c)'
<1>1. log \cup tx[c].rows \subseteq log' \cup tx'[c].rows
  OBVIOUS
<1>2. RowsComeFrom(tx'[c].delta, log' \cup tx'[c].rows)
  <2>1. RowsComeFrom(tx[c].delta, log \cup tx[c].rows)
    BY DEF ClientSourced
  <2>2. RowsComeFrom(tx[c].delta, log' \cup tx'[c].rows)
    BY <1>1, <2>1, SourcedMore
  <2> QED
    BY <2>2
<1>3. \A s \in Items(tx'[c].todo) : Backed(s, tx'[c].rows)
  BY DEF ClientSourced
<1> QED
  BY <1>2, <1>3 DEF ClientSourced

LEMMA SourceStep == TypeOK /\ SourceInv /\ [Next]_vars => SourceInv'
<1> SUFFICES ASSUME TypeOK, SourceInv, [Next]_vars PROVE SourceInv'
  OBVIOUS
<1>0. CASE UNCHANGED vars
  <2>1. \A c \in Clients : ClientSourced(c)'
    BY <1>0, SourceKept DEF vars, SourceInv
  <2> QED
    BY <1>0, <2>1 DEF vars, SourceInv
<1>1. ASSUME NEW c \in Clients, Gathers(c) PROVE SourceInv'
  <2>1. \A d \in Clients : ClientSourced(d)'
    BY <1>1, SourceKept DEF Gathers, SourceInv
  <2> QED
    BY <1>1, <2>1 DEF Gathers, SourceInv
<1>2. ASSUME NEW c \in Clients, Clears(c) PROVE SourceInv'
  <2>1. \A d \in Clients \ {c} : ClientSourced(d)'
    BY <1>2, SourceKept DEF Clears, SourceInv
  <2>2. ClientSourced(c)'
    BY <1>2, NothingSourced, NoItems DEF Clears, ClientSourced
  <2> QED
    BY <1>2, <2>1, <2>2 DEF Clears, SourceInv
<1>3. ASSUME NEW c \in Clients, InsertEvent(c) PROVE SourceInv'
  <2> DEFINE event == tx[c].batch[tx[c].pos + 1]
             row == [id |-> seq + 1, event |-> event]
  <2>1. /\ UNCHANGED <<log, db>> /\ event \in Event /\ row.event = event
        /\ \A d \in Clients \ {c} : tx'[d] = tx[d]
        /\ tx'[c].delta = tx[c].delta /\ tx'[c].rows = tx[c].rows \cup {row}
        /\ \E now \in Times : tx'[c].todo = Statements(At(event, now))
    BY <1>3, InsertData
  <2> HIDE DEF row, event
  <2>2. RowsComeFrom(tx'[c].delta, log' \cup tx'[c].rows)
    <3>1. RowsComeFrom(tx[c].delta, log \cup tx[c].rows)
      BY DEF SourceInv, ClientSourced
    <3>2. log \cup tx[c].rows \subseteq log' \cup tx'[c].rows
      BY <2>1
    <3>3. RowsComeFrom(tx[c].delta, log' \cup tx'[c].rows)
      BY <3>1, <3>2, SourcedMore
    <3> QED
      BY <2>1, <3>3
  <2>3. ASSUME NEW s \in Items(tx'[c].todo)
        PROVE  Backed(s, tx'[c].rows)
    <3>1. Backs(event, s)
      BY <2>1, <2>3, StatementsBacked
    <3> QED
      BY <2>1, <3>1 DEF Backed
  <2>4. ClientSourced(c)'
    BY <2>2, <2>3 DEF ClientSourced
  <2>5. \A d \in Clients \ {c} : ClientSourced(d)'
    BY <2>1, SourceKept DEF SourceInv
  <2> QED
    BY <2>1, <2>4, <2>5 DEF SourceInv
<1>4. ASSUME NEW c \in Clients, Scan(c) PROVE SourceInv'
  <2>1. ASSUME NEW s \in Items(tx'[c].todo)
        PROVE  Backed(s, tx'[c].rows)
    <3>1. Items(tx[c].todo) = {Head(tx[c].todo)} \cup Items(Tail(tx[c].todo))
      BY <1>4, ScanData, ItemsOfTail
    <3>2. CASE s \in Items(Tail(tx[c].todo))
      BY <1>4, <3>1, <3>2, ScanData DEF SourceInv, ClientSourced
    <3>3. CASE s \notin Items(Tail(tx[c].todo))
      <4>1. s.type \in MoveTypes /\ s.from = Head(tx[c].todo).from
        BY <1>4, <3>3, ScanData DEF MoveTypes
      <4>2. Head(tx[c].todo).type \in RemapTypes /\ Backed(Head(tx[c].todo), tx[c].rows)
        BY <1>4, <3>1, ScanData DEF SourceInv, ClientSourced
      <4>3. PICK r \in tx[c].rows : Merges(r.event, Head(tx[c].todo).from)
        BY <4>2 DEF Backed, Backs
      <4>4. Backs(r.event, s)
        BY <4>1, <4>3 DEF Backs, MoveTypes
      <4> QED
        BY <1>4, <4>4, ScanData DEF Backed
    <3> QED
      BY <3>2, <3>3
  <2>2. /\ UNCHANGED <<log, db>> /\ \A d \in Clients \ {c} : tx'[d] = tx[d]
        /\ tx'[c].rows = tx[c].rows /\ tx'[c].delta = tx[c].delta
    BY <1>4, ScanData
  <2>3. ClientSourced(c)'
    BY <2>1, <2>2 DEF SourceInv, ClientSourced
  <2>4. \A d \in Clients \ {c} : ClientSourced(d)'
    BY <2>2, SourceKept DEF SourceInv
  <2> QED
    BY <2>2, <2>3, <2>4 DEF SourceInv
<1>5. ASSUME NEW c \in Clients, Execute(c) PROVE SourceInv'
  <2>1. RowsComeFrom(tx'[c].delta, log \cup tx[c].rows)
    BY <1>5, ExecuteSourced
  <2>2. Items(tx'[c].todo) \subseteq Items(tx[c].todo)
    BY <1>5, ExecuteTodo, ItemsOfTail
  <2>3. /\ UNCHANGED <<db, log>> /\ tx'[c].rows = tx[c].rows
        /\ \A d \in Clients \ {c} : tx'[d] = tx[d]
    BY <1>5, ExecuteData, ExecuteTodo
  <2>4. ClientSourced(c)'
    BY <2>1, <2>2, <2>3 DEF SourceInv, ClientSourced
  <2>5. \A d \in Clients \ {c} : ClientSourced(d)'
    BY <2>3, SourceKept DEF SourceInv
  <2> QED
    BY <2>3, <2>4, <2>5 DEF SourceInv
<1>6. ASSUME NEW c \in Clients, Commit(c) PROVE SourceInv'
  <2>1. /\ db' = View(c) /\ log' = log \cup tx[c].rows
        /\ tx'[c] = Idle /\ \A d \in Clients \ {c} : tx'[d] = tx[d]
    BY <1>6 DEF Commit, TypeOK
  <2>2. RowsComeFrom(db', log')
    BY <2>1, ViewSourced
  <2>3. \A d \in Clients \ {c} : ClientSourced(d)'
    BY <2>1, SourceKept DEF SourceInv
  <2>4. ClientSourced(c)'
    <3>1. tx'[c].delta = EmptyDb /\ tx'[c].todo = << >>
      BY <2>1 DEF Idle
    <3> QED
      BY <3>1, NothingSourced, NoItems DEF ClientSourced
  <2> QED
    BY <2>2, <2>3, <2>4 DEF SourceInv
<1> QED
  BY <1>0, <1>1, <1>2, <1>3, <1>4, <1>5, <1>6, Steps

\* Every row of the graph was put there by an event of the log, which gave it
\* its namespace, its key, its ends and its time; an event of the log wrote what
\* each of its columns holds, and retracted it if it is: whatever fails, dies or
\* is rolled back, no projection outlives its event.
THEOREM GraphFollowsLog == Spec => []RowsComeFromEvents
<1>1. Init => TypeOK /\ SourceInv
  <2> SUFFICES ASSUME Init PROVE TypeOK /\ SourceInv
    OBVIOUS
  <2>1. db = EmptyDb /\ \A c \in Clients : tx[c].delta = EmptyDb /\ tx[c].todo = << >>
    BY DEF Init, Idle
  <2> QED
    BY <2>1, TypeInit, NothingSourced, NoItems DEF SourceInv, ClientSourced
<1>2. (TypeOK /\ SourceInv) /\ [Next]_vars => (TypeOK /\ SourceInv)'
  BY TypeStep, SourceStep
<1>3. SourceInv => RowsComeFromEvents
  BY DEF SourceInv, RowsComeFromEvents
<1> QED
  BY <1>1, <1>2, <1>3, PTL DEF Spec

-----------------------------------------------------------------------------
(* Identities.                                                              *)

LEMMA NamesMore ==
  ASSUME NEW s, NEW ids, NEW more, ids \subseteq more
  PROVE  /\ Names(s, ids) => Names(s, more)
         /\ Draws(s, ids) => Draws(s, more)
  BY DEF Names, Draws

\* The time of its transaction changes neither.
LEMMA AtNames ==
  ASSUME NEW event \in Event, NEW now \in Times, NEW ids, NEW drawn
  PROVE  /\ Names(event, ids) => Names(At(event, now), ids)
         /\ Draws(event, drawn) => Draws(At(event, now), drawn)
<1>1. CASE event.type = "EDGE_ADDED"
  BY <1>1, AtType DEF Names, Draws
<1>2. CASE event.type # "EDGE_ADDED"
  BY <1>2, AtType
<1> QED
  BY <1>1, <1>2

LEMMA MarkerNames ==
  ASSUME NEW event, NEW ids, NEW drawn, Names(event, ids), Draws(event, drawn)
  PROVE  Names(Marker(event), ids) /\ Draws(Marker(event), drawn)
<1>1. CASE event.type = "NODES_MERGED"
  BY <1>1 DEF Names, Draws, Marker
<1>2. CASE event.type # "NODES_MERGED"
  BY <1>2 DEF Marker
<1> QED
  BY <1>1, <1>2

\* A client that keeps what it has is not disturbed when other calls return.
LEMMA IdentifiedKept ==
  ASSUME NEW c \in Clients, Identified(c), known \subseteq known',
         tx'[c].drawn = tx[c].drawn, tx[c].drawn \cap known' = {},
         Items(tx'[c].batch) \subseteq Items(tx[c].batch),
         Items(tx'[c].todo) \subseteq Items(tx[c].todo),
         tx'[c].rows = tx[c].rows
  PROVE  Identified(c)'
  BY NamesMore DEF Identified

LEMMA IdentityStep == TypeOK /\ IdentityInv /\ [Next]_vars => IdentityInv'
<1> SUFFICES ASSUME TypeOK, IdentityInv, [Next]_vars PROVE IdentityInv'
  OBVIOUS
<1>a. \A d \in Clients : /\ Identified(d) /\ tx[d].drawn \cap known = {}
                         /\ tx'[d] = tx[d] /\ known' = known => Identified(d)'
  BY IdentifiedKept DEF IdentityInv, Identified
<1>0. CASE UNCHANGED vars
  <2>1. \A d \in Clients : Identified(d)'
    BY <1>0, <1>a DEF vars
  <2> QED
    BY <1>0, <2>1 DEF vars, IdentityInv
<1>1. ASSUME NEW c \in Clients, Gathers(c) PROVE IdentityInv'
  <2>1. /\ UNCHANGED <<log, known>>
        /\ \A d \in Clients \ {c} : tx'[d] = tx[d]
        /\ tx'[c].rows = tx[c].rows /\ tx'[c].todo = tx[c].todo
    BY <1>1 DEF Gathers
  <2>2. PICK id \in NodeIds \cup EdgeIds :
          /\ Fresh(id)
          /\ tx'[c].drawn = tx[c].drawn \cup {id}
          /\ \A x \in Items(tx'[c].batch) :
               \/ x \in Items(tx[c].batch)
               \/ x.type \in SourceTypes /\ Draws(x, {id})
    BY <1>1 DEF Gathers
  <2>3. ASSUME NEW s \in Items(tx'[c].batch) \cup Items(tx'[c].todo)
        PROVE  Names(s, known) /\ Draws(s, tx'[c].drawn)
    <3>1. CASE s \in Items(tx[c].batch) \cup Items(tx[c].todo)
      <4>1. Names(s, known) /\ Draws(s, tx[c].drawn)
        BY <3>1 DEF IdentityInv, Identified
      <4> QED
        BY <2>2, <4>1, NamesMore
    <3>2. CASE s.type \in SourceTypes /\ Draws(s, {id})
      <4>1. Names(s, known)
        BY <3>2 DEF Names, SourceTypes
      <4> QED
        BY <2>2, <3>2, <4>1, NamesMore
    <3> QED
      BY <2>1, <2>2, <3>1, <3>2
  <2>4. tx'[c].drawn \cap known = {}
    BY <2>2 DEF Fresh, IdentityInv, Identified
  <2>5. Identified(c)'
    <3>1. \A r \in tx'[c].rows : Names(r.event, known)
      BY <2>1 DEF IdentityInv, Identified
    <3> QED
      BY <2>1, <2>3, <2>4, <3>1 DEF Identified
  <2>6. \A d \in Clients \ {c} : Identified(d)'
    BY <2>1, <1>a
  <2>7. \A d \in Clients \ {c} : tx'[c].drawn \cap tx'[d].drawn = {}
    BY <2>1, <2>2 DEF Fresh, IdentityInv
  <2> QED
    BY <2>1, <2>5, <2>6, <2>7 DEF IdentityInv
<1>2. ASSUME NEW c \in Clients, Clears(c) PROVE IdentityInv'
  <2>1. /\ UNCHANGED <<log, known>>
        /\ \A d \in Clients \ {c} : tx'[d] = tx[d]
        /\ tx'[c].rows = {} /\ tx'[c].todo = << >> /\ tx'[c].drawn = {}
        /\ \A x \in Items(tx'[c].batch) :
             Names(x, known) /\ x.type \notin {"NODE_CREATED", "EDGE_ADDED"}
    BY <1>2 DEF Clears
  <2>2. Identified(c)'
    BY <2>1, NoItems DEF Identified, Draws
  <2>3. \A d \in Clients \ {c} : Identified(d)'
    BY <2>1, <1>a
  <2> QED
    BY <2>1, <2>2, <2>3 DEF IdentityInv
<1>3. ASSUME NEW c \in Clients, InsertEvent(c) PROVE IdentityInv'
  <2> DEFINE event == tx[c].batch[tx[c].pos + 1]
             row == [id |-> seq + 1, event |-> event]
  <2>1. /\ UNCHANGED <<log, known>> /\ event \in Event /\ row.event = event
        /\ event \in Items(tx[c].batch)
        /\ \A d \in Clients \ {c} : tx'[d] = tx[d]
        /\ \E now \in Times : tx'[c].todo = Statements(At(event, now))
        /\ tx'[c].batch = tx[c].batch
        /\ tx'[c].drawn = tx[c].drawn /\ tx'[c].rows = tx[c].rows \cup {row}
    BY <1>3, InsertData
  <2> HIDE DEF row, event
  <2>2. Names(event, known) /\ Draws(event, tx[c].drawn)
    BY <2>1 DEF IdentityInv, Identified
  <2>6. PICK now \in Times : tx'[c].todo = Statements(At(event, now))
    BY <2>1
  <2>7. /\ At(event, now) \in Event
        /\ Names(At(event, now), known) /\ Draws(At(event, now), tx[c].drawn)
    BY <2>1, <2>2, AtType, AtNames
  <2>3. ASSUME NEW s \in Items(tx'[c].todo)
        PROVE  Names(s, known) /\ Draws(s, tx[c].drawn)
    <3>1. s = Marker(At(event, now)) \/ s.type \in RemapTypes
      BY <2>3, <2>6, <2>7, StatementItems
    <3>2. CASE s = Marker(At(event, now))
      BY <2>7, <3>2, MarkerNames
    <3>3. CASE s.type \in RemapTypes
      BY <3>3 DEF RemapTypes, Names, Draws
    <3> QED
      BY <3>1, <3>2, <3>3
  <2>4. Identified(c)'
    <3>1. \A r \in tx'[c].rows : Names(r.event, known)
      BY <2>1, <2>2 DEF IdentityInv, Identified
    <3>2. \A s \in Items(tx'[c].batch) : Names(s, known) /\ Draws(s, tx[c].drawn)
      BY <2>1 DEF IdentityInv, Identified
    <3>3. tx'[c].drawn \cap known = {}
      BY <2>1 DEF IdentityInv, Identified
    <3> QED
      BY <2>1, <2>3, <3>1, <3>2, <3>3 DEF Identified
  <2>5. \A d \in Clients \ {c} : Identified(d)'
    BY <2>1, <1>a
  <2> QED
    BY <2>1, <2>4, <2>5 DEF IdentityInv
<1>4. ASSUME NEW c \in Clients, Scan(c) PROVE IdentityInv'
  <2>1. ASSUME NEW s \in Items(tx'[c].todo)
        PROVE  Names(s, known) /\ Draws(s, tx[c].drawn)
    <3>1. CASE s \in Items(tx[c].todo)
      BY <3>1 DEF IdentityInv, Identified
    <3>2. CASE s.type \in {"MOVE_SOURCE", "MOVE_TARGET"}
      BY <3>2 DEF Names, Draws
    <3> QED
      BY <1>4, <3>1, <3>2, ScanData, ItemsOfTail
  <2>2. /\ UNCHANGED <<log, known>> /\ \A d \in Clients \ {c} : tx'[d] = tx[d]
        /\ tx'[c].rows = tx[c].rows /\ tx'[c].drawn = tx[c].drawn
        /\ tx'[c].batch = tx[c].batch
    BY <1>4, ScanData
  <2>3. Identified(c)'
    BY <2>1, <2>2 DEF IdentityInv, Identified
  <2>4. \A d \in Clients \ {c} : Identified(d)'
    BY <2>2, <1>a
  <2> QED
    BY <2>2, <2>3, <2>4 DEF IdentityInv
<1>5. ASSUME NEW c \in Clients, Execute(c) PROVE IdentityInv'
  <2>1. Items(tx'[c].todo) \subseteq Items(tx[c].todo)
    BY <1>5, ExecuteTodo, ItemsOfTail
  <2>2. /\ UNCHANGED <<log, known>> /\ \A d \in Clients \ {c} : tx'[d] = tx[d]
        /\ tx'[c].rows = tx[c].rows /\ tx'[c].drawn = tx[c].drawn
        /\ tx'[c].batch = tx[c].batch
    BY <1>5, ExecuteTodo
  <2>3. Identified(c)'
    BY <2>1, <2>2, IdentifiedKept DEF IdentityInv, Identified
  <2>4. \A d \in Clients \ {c} : Identified(d)'
    BY <2>2, <1>a
  <2> QED
    BY <2>2, <2>3, <2>4 DEF IdentityInv
<1>6. ASSUME NEW c \in Clients, Commit(c) PROVE IdentityInv'
  <2>1. /\ log' = log \cup tx[c].rows /\ known' = known \cup tx[c].drawn
        /\ tx'[c] = Idle /\ \A d \in Clients \ {c} : tx'[d] = tx[d]
    BY <1>6 DEF Commit, TypeOK
  <2>2. ASSUME NEW d \in Clients \ {c} PROVE Identified(d)'
    <3>1. Identified(d) /\ tx[d].drawn \cap known' = {}
      BY <2>1 DEF IdentityInv, Identified
    <3> QED
      BY <2>1, <3>1, IdentifiedKept
  <2>3. /\ tx'[c].drawn = {} /\ tx'[c].rows = {} /\ tx'[c].todo = << >>
        /\ tx'[c].batch = << >>
    BY <2>1 DEF Idle
  <2>4. Identified(c)'
    BY <2>3, NoItems DEF Identified
  <2>5. \A r \in log' : Names(r.event, known')
    BY <2>1, NamesMore DEF IdentityInv, Identified
  <2> QED
    BY <2>1, <2>2, <2>3, <2>4, <2>5 DEF IdentityInv
<1> QED
  BY <1>0, <1>1, <1>2, <1>3, <1>4, <1>5, <1>6, Steps

-----------------------------------------------------------------------------
(* Views grow.                                                              *)

LEMMA GrowsNot == ASSUME NEW d, NEW ids PROVE Grows(d, d, ids)
  BY DEF Grows

LEMMA GrowsOn ==
  ASSUME NEW a, NEW b, NEW d, NEW ids, Grows(a, b, ids), Grows(b, d, ids)
  PROVE  Grows(a, d, ids)
<1>1. \A n \in NodeIds : a.nodes[n] # NoRow =>
        /\ d.nodes[n] # NoRow
        /\ d.nodes[n].ns = a.nodes[n].ns /\ d.nodes[n].key = a.nodes[n].key
        /\ a.nodes[n].retracted => d.nodes[n].retracted
  BY DEF Grows
<1>2. \A e \in EdgeIds : a.edges[e] # NoRow =>
        /\ d.edges[e] # NoRow /\ d.edges[e].ns = a.edges[e].ns
        /\ a.edges[e].retracted => d.edges[e].retracted
  BY DEF Grows
<1>3. \A m \in NodeIds \X Models : a.embeddings[m] # NoRow => d.embeddings[m] # NoRow
  BY DEF Grows
<1>4. /\ \A n \in NodeIds : a.nodes[n] = NoRow /\ d.nodes[n] # NoRow => n \in ids
      /\ \A e \in EdgeIds : a.edges[e] = NoRow /\ d.edges[e] # NoRow => e \in ids
  BY DEF Grows
<1> QED
  BY <1>1, <1>2, <1>3, <1>4 DEF Grows

LEMMA ExecuteGrows ==
  ASSUME TypeOK, NEW c \in Clients, Execute(c),
         Draws(Head(tx[c].todo), tx[c].drawn)
  PROVE  Grows(View(c), View(c)', tx[c].drawn)
<1> DEFINE s == Head(tx[c].todo)
           old == View(c)
           new == View(c)'
<1>1. /\ s \in Statement /\ ~Rejected(old, s) /\ Draws(s, tx[c].drawn)
      /\ old \in Db /\ old.nodes \in [NodeIds -> NodeRow \cup {NoRow}]
  <2>1. old \in Db
    BY ViewType
  <2> QED
    BY <2>1, ExecuteData DEF Db
<1>2. /\ \A n \in NodeIds : new.nodes[n] =
           IF n \in NodesWritten(old.nodes, s)
           THEN NodeAfter(old.nodes[n], s) ELSE old.nodes[n]
      /\ \A e \in EdgeIds : new.edges[e] =
           IF e \in EdgesWritten(old.edges, s)
           THEN EdgeAfter(old.edges[e], s) ELSE old.edges[e]
      /\ \A m \in NodeIds \X Models : new.embeddings[m] =
           IF m \in EmbeddingsWritten(s) THEN s.vector ELSE old.embeddings[m]
  BY ExecuteView
<1> HIDE DEF s, old, new
<1>3. ASSUME NEW n \in NodeIds, old.nodes[n] # NoRow
      PROVE  /\ new.nodes[n] # NoRow
             /\ new.nodes[n].ns = old.nodes[n].ns /\ new.nodes[n].key = old.nodes[n].key
             /\ old.nodes[n].retracted => new.nodes[n].retracted
  <2>1. CASE n \in NodesWritten(old.nodes, s)
    BY <1>1, <1>2, <1>3, <2>1, WrittenNode, GraphAssumption
  <2>2. CASE n \notin NodesWritten(old.nodes, s)
    BY <1>2, <1>3, <2>2
  <2> QED
    BY <2>1, <2>2
<1>4. ASSUME NEW e \in EdgeIds, old.edges[e] # NoRow
      PROVE  /\ new.edges[e] # NoRow /\ new.edges[e].ns = old.edges[e].ns
             /\ old.edges[e].retracted => new.edges[e].retracted
  <2>1. CASE e \in EdgesWritten(old.edges, s)
    <3>1. old.edges \in [EdgeIds -> EdgeRow \cup {NoRow}]
      BY <1>1 DEF Db
    <3>2. EdgeAfter(old.edges[e], s) \in EdgeRow
      BY <1>1, <2>1, <3>1, EdgeAfterType
    <3>3. /\ EdgeAfter(old.edges[e], s).ns = old.edges[e].ns
          /\ old.edges[e].retracted => EdgeAfter(old.edges[e], s).retracted
      BY <1>1, <1>4, <2>1, EdgeStays
    <3> QED
      BY <1>2, <2>1, <3>2, <3>3, GraphAssumption
  <2>2. CASE e \notin EdgesWritten(old.edges, s)
    BY <1>2, <1>4, <2>2
  <2> QED
    BY <2>1, <2>2
<1>5. ASSUME NEW m \in NodeIds \X Models, old.embeddings[m] # NoRow
      PROVE  new.embeddings[m] # NoRow
  <2>1. CASE m \in EmbeddingsWritten(s)
    <3>1. s \in EmbeddingStored /\ s.vector # EmptyVector
      BY <1>1, <2>1, StatementTags DEF Rejected, EmbeddingsWritten
    <3>2. s.vector # NoRow
      BY <3>1, GraphAssumption DEF EmbeddingStored
    <3> QED
      BY <1>2, <2>1, <3>2
  <2>2. CASE m \notin EmbeddingsWritten(s)
    BY <1>2, <1>5, <2>2
  <2> QED
    BY <2>1, <2>2
<1>6. ASSUME NEW n \in NodeIds, old.nodes[n] = NoRow, new.nodes[n] # NoRow
      PROVE  n \in tx[c].drawn
  <2>1. s.type = "NODE_CREATED" /\ n = s.id
    BY <1>1, <1>2, <1>6, WrittenNode
  <2> QED
    BY <1>1, <2>1 DEF Draws
<1>7. ASSUME NEW e \in EdgeIds, old.edges[e] = NoRow, new.edges[e] # NoRow
      PROVE  e \in tx[c].drawn
  <2>1. s.type = "EDGE_ADDED" /\ e = s.id
    BY <1>2, <1>7 DEF EdgesWritten, Remapped
  <2> QED
    BY <1>1, <2>1 DEF Draws
<1> QED
  BY <1>3, <1>4, <1>5, <1>6, <1>7 DEF Grows, old, new

\* A commit of c leaves every other client's view growing, from what is
\* committed then and from what the view was.
LEMMA CommitGrows ==
  ASSUME TypeOK, Exclusion, NEW c \in Clients, Commit(c), NEW d \in Clients \ {c},
         Grows(db, View(c), tx[c].drawn), Grows(db, View(d), tx[d].drawn)
  PROVE  /\ Grows(db', View(d)', tx[d].drawn)
         /\ Grows(View(d), View(d)', tx[c].drawn)
<1> DEFINE mine == View(c)
           theirs == View(d)
           new == View(d)'
           delta == tx[d].delta
<1>1. db' = mine /\ tx'[d].delta = delta /\ mine \in Db
  BY CommitData, ViewType
<1>2. /\ \A n \in NodeIds : new.nodes[n] =
           IF delta.nodes[n] = NoRow THEN mine.nodes[n] ELSE delta.nodes[n]
      /\ \A e \in EdgeIds : new.edges[e] =
           IF delta.edges[e] = NoRow THEN mine.edges[e] ELSE delta.edges[e]
      /\ \A m \in NodeIds \X Models : new.embeddings[m] =
           IF delta.embeddings[m] = NoRow THEN mine.embeddings[m] ELSE delta.embeddings[m]
  <2>1. /\ DOMAIN mine.nodes = NodeIds
        /\ DOMAIN mine.edges = EdgeIds
        /\ DOMAIN mine.embeddings = NodeIds \X Models
    BY <1>1 DEF Db
  <2> QED
    BY <1>1, <2>1 DEF View, OverlayDb, Overlay
<1>3. /\ \A n \in NodeIds : theirs.nodes[n] =
           IF delta.nodes[n] = NoRow THEN db.nodes[n] ELSE delta.nodes[n]
      /\ \A e \in EdgeIds : theirs.edges[e] =
           IF delta.edges[e] = NoRow THEN db.edges[e] ELSE delta.edges[e]
      /\ \A m \in NodeIds \X Models : theirs.embeddings[m] =
           IF delta.embeddings[m] = NoRow THEN db.embeddings[m] ELSE delta.embeddings[m]
  BY ViewRows
<1>4. /\ \A n \in NodeIds : delta.nodes[n] # NoRow => mine.nodes[n] = db.nodes[n]
      /\ \A e \in EdgeIds : delta.edges[e] # NoRow => mine.edges[e] = db.edges[e]
      /\ \A m \in NodeIds \X Models :
           delta.embeddings[m] # NoRow => mine.embeddings[m] = db.embeddings[m]
  BY ViewRows DEF Exclusion
<1> HIDE DEF mine, theirs, new, delta
<1>5. Grows(db, mine, tx[c].drawn) /\ Grows(db, theirs, tx[d].drawn)
  BY DEF mine, theirs
<1>6. Grows(mine, new, tx[d].drawn)
  <2>1. \A n \in NodeIds : mine.nodes[n] # NoRow =>
          /\ new.nodes[n] # NoRow
          /\ new.nodes[n].ns = mine.nodes[n].ns /\ new.nodes[n].key = mine.nodes[n].key
          /\ mine.nodes[n].retracted => new.nodes[n].retracted
    BY <1>2, <1>3, <1>4, <1>5 DEF Grows
  <2>2. \A e \in EdgeIds : mine.edges[e] # NoRow =>
          /\ new.edges[e] # NoRow /\ new.edges[e].ns = mine.edges[e].ns
          /\ mine.edges[e].retracted => new.edges[e].retracted
    BY <1>2, <1>3, <1>4, <1>5 DEF Grows
  <2>3. \A m \in NodeIds \X Models : mine.embeddings[m] # NoRow => new.embeddings[m] # NoRow
    BY <1>2
  <2>4. /\ \A n \in NodeIds : mine.nodes[n] = NoRow /\ new.nodes[n] # NoRow => n \in tx[d].drawn
        /\ \A e \in EdgeIds : mine.edges[e] = NoRow /\ new.edges[e] # NoRow => e \in tx[d].drawn
    BY <1>2, <1>3, <1>4, <1>5 DEF Grows
  <2> QED
    BY <2>1, <2>2, <2>3, <2>4 DEF Grows
<1>7. Grows(theirs, new, tx[c].drawn)
  <2>1. \A n \in NodeIds : theirs.nodes[n] # NoRow =>
          /\ new.nodes[n] # NoRow
          /\ new.nodes[n].ns = theirs.nodes[n].ns /\ new.nodes[n].key = theirs.nodes[n].key
          /\ theirs.nodes[n].retracted => new.nodes[n].retracted
    BY <1>2, <1>3, <1>4, <1>5 DEF Grows
  <2>2. \A e \in EdgeIds : theirs.edges[e] # NoRow =>
          /\ new.edges[e] # NoRow /\ new.edges[e].ns = theirs.edges[e].ns
          /\ theirs.edges[e].retracted => new.edges[e].retracted
    BY <1>2, <1>3, <1>4, <1>5 DEF Grows
  <2>3. \A m \in NodeIds \X Models :
          theirs.embeddings[m] # NoRow => new.embeddings[m] # NoRow
    BY <1>2, <1>3, <1>5 DEF Grows
  <2>4. /\ \A n \in NodeIds : theirs.nodes[n] = NoRow /\ new.nodes[n] # NoRow => n \in tx[c].drawn
        /\ \A e \in EdgeIds : theirs.edges[e] = NoRow /\ new.edges[e] # NoRow => e \in tx[c].drawn
    BY <1>2, <1>3, <1>4, <1>5 DEF Grows
  <2> QED
    BY <2>1, <2>2, <2>3, <2>4 DEF Grows
<1> QED
  BY <1>1, <1>6, <1>7 DEF new, theirs

\* The step leaves what client d sees and has drawn.
Sees(d) == db' = db /\ tx'[d].delta = tx[d].delta /\ tx[d].drawn \subseteq tx'[d].drawn

LEMMA GrowsKept ==
  ASSUME NEW d \in Clients, Grows(db, View(d), tx[d].drawn), Sees(d)
  PROVE  Grows(db', View(d)', tx'[d].drawn) /\ View(d)' = View(d)
<1>1. View(d)' = View(d)
  BY DEF Sees, View
<1>2. Grows(db, View(d), tx'[d].drawn)
  BY DEF Sees, Grows
<1> QED
  BY <1>1, <1>2 DEF Sees

LEMMA GrowStep ==
  TypeOK /\ Exclusion /\ IdentityInv /\ GrowInv /\ [Next]_vars => GrowInv'
<1> SUFFICES ASSUME TypeOK, Exclusion, IdentityInv, GrowInv, [Next]_vars,
                    NEW d \in Clients
             PROVE  Grows(db', View(d)', tx'[d].drawn)
  BY DEF GrowInv
<1>a. Grows(db, View(d), tx[d].drawn)
  BY DEF GrowInv
<1>b. CASE Sees(d)
  BY <1>a, <1>b, GrowsKept
<1>0. CASE UNCHANGED vars
  BY <1>0, <1>b DEF vars, Sees
<1>1. ASSUME NEW c \in Clients, Gathers(c) PROVE Sees(d)
  BY <1>1 DEF Gathers, Sees
<1>2. ASSUME NEW c \in Clients, Clears(c)
      PROVE  Grows(db', View(d)', tx'[d].drawn)
  <2>1. CASE d # c
    BY <1>2, <2>1, <1>b DEF Clears, Sees
  <2>2. CASE d = c
    <3>1. View(d)' = db'
      BY <1>2, <2>2, EmptyDelta DEF Clears, View, TypeOK
    <3> QED
      BY <3>1, GrowsNot
  <2> QED
    BY <2>1, <2>2
<1>3. ASSUME NEW c \in Clients, InsertEvent(c) PROVE Sees(d)
  BY <1>3, InsertData DEF Sees
<1>4. ASSUME NEW c \in Clients, Scan(c) PROVE Sees(d)
  BY <1>4, ScanData DEF Sees
<1>5. ASSUME NEW c \in Clients, Execute(c)
      PROVE  Grows(db', View(d)', tx'[d].drawn)
  <2>1. db' = db /\ tx'[c].drawn = tx[c].drawn /\ \A b \in Clients \ {c} : tx'[b] = tx[b]
    BY <1>5, ExecuteData, ExecuteTodo
  <2>2. CASE d # c
    BY <2>1, <2>2, <1>b DEF Sees
  <2>3. CASE d = c
    <3>1. Draws(Head(tx[c].todo), tx[c].drawn)
      <4>1. Head(tx[c].todo) \in Items(tx[c].todo)
        BY <1>5, ExecuteTodo, ItemsOfTail
      <4> QED
        BY <4>1 DEF IdentityInv, Identified
    <3>2. Grows(View(c), View(c)', tx[c].drawn)
      BY <1>5, <3>1, ExecuteGrows
    <3> QED
      BY <1>a, <2>1, <2>3, <3>2, GrowsOn
  <2> QED
    BY <2>2, <2>3
<1>6. ASSUME NEW c \in Clients, Commit(c)
      PROVE  Grows(db', View(d)', tx'[d].drawn)
  <2>1. CASE d # c
    <3>1. tx'[d] = tx[d]
      BY <1>6, <2>1 DEF Commit, TypeOK
    <3>2. Grows(db, View(c), tx[c].drawn)
      BY DEF GrowInv
    <3> QED
      BY <1>6, <1>a, <2>1, <3>1, <3>2, CommitGrows
  <2>2. CASE d = c
    <3>1. db' \in Db /\ tx'[c].delta = EmptyDb
      BY <1>6, CommitData, ViewType
    <3>2. View(d)' = db'
      BY <2>2, <3>1, EmptyDelta DEF View
    <3> QED
      BY <3>2, GrowsNot
  <2> QED
    BY <2>1, <2>2
<1> QED
  BY <1>b, <1>0, <1>1, <1>2, <1>3, <1>4, <1>5, <1>6, Steps

-----------------------------------------------------------------------------
(* Events leave marks.                                                      *)

\* A mark stays while rows are added under identities nobody has retracted.
LEMMA MarkStays ==
  ASSUME NEW old, NEW new, NEW ids, NEW others, NEW event \in Event,
         Grows(old, new, ids), Names(event, others), others \cap ids = {},
         Marked(old, event)
  PROVE  Marked(new, event)
<1>1. CASE event.type = "NODE_CREATED"
  <2>1. event.id \in NodeIds
    BY <1>1, EventTags DEF NodeCreated
  <2>2. CASE event.key = NoKey
    BY <1>1, <2>1, <2>2 DEF Marked, Grows
  <2>3. CASE event.key # NoKey
    <3>1. PICK n \in NodeIds : old.nodes[n] # NoRow /\ old.nodes[n].ns = event.ns
                               /\ old.nodes[n].key = event.key
      BY <1>1, <2>3 DEF Marked, KeyHolders
    <3>2. n \in KeyHolders(new.nodes, event)
      BY <2>3, <3>1 DEF Grows, KeyHolders
    <3> QED
      BY <1>1, <2>3, <3>2 DEF Marked
  <2> QED
    BY <2>2, <2>3
<1>2. CASE event.type = "EDGE_ADDED"
  <2>1. event.id \in EdgeIds
    BY <1>2, EventTags DEF EdgeAdded
  <2> QED
    BY <1>2, <2>1 DEF Marked, Grows
<1>3. CASE event.type = "EMBEDDING_STORED"
  <2>1. <<event.node, event.model>> \in NodeIds \X Models
    BY <1>3, EventTags DEF EmbeddingStored
  <2> QED
    BY <1>3, <2>1 DEF Marked, Grows
<1>4. ASSUME NEW n \in NodeIds, n \in others, GoneOrRetracted(old.nodes, n)
      PROVE  GoneOrRetracted(new.nodes, n)
  BY <1>4 DEF GoneOrRetracted, Grows
<1>5. CASE event.type = "NODE_RETRACTED"
  <2>1. event.id \in NodeIds
    BY <1>5, EventTags DEF NodeRetracted
  <2> QED
    BY <1>4, <1>5, <2>1 DEF Marked, Names
<1>6. CASE event.type = "NODES_MERGED"
  <2>1. event.removed \in NodeIds
    BY <1>6, EventTags DEF NodesMerged
  <2> QED
    BY <1>4, <1>6, <2>1 DEF Marked, Names
<1>7. CASE event.type = "EDGE_RETRACTED"
  <2>1. event.id \in EdgeIds
    BY <1>7, EventTags DEF EdgeRetracted
  <2> QED
    BY <1>7, <2>1 DEF Marked, Names, GoneOrRetracted, Grows
<1>8. CASE event.type \notin {"NODE_CREATED", "EDGE_ADDED", "EMBEDDING_STORED",
                              "NODE_RETRACTED", "NODES_MERGED", "EDGE_RETRACTED"}
  BY <1>8 DEF Marked
<1> QED
  BY <1>1, <1>2, <1>3, <1>5, <1>6, <1>7, <1>8

LEMMA LeavesMark ==
  ASSUME NEW d, NEW event, NEW s, Leaves(s, event)
  PROVE  s.type # "NODES_MERGED" /\ (Marked(d, s) => Marked(d, event))
<1>1. CASE event.type = "NODES_MERGED"
  BY <1>1 DEF Leaves, Marker, Marked
<1>2. CASE event.type = "EDGE_ADDED"
  <2>1. s.type = "EDGE_ADDED" /\ s.id = event.id
    BY <1>2 DEF Leaves, Marker
  <2> QED
    BY <1>2, <2>1 DEF Marked
<1>3. CASE event.type \notin {"NODES_MERGED", "EDGE_ADDED"}
  BY <1>3 DEF Leaves, Marker
<1> QED
  BY <1>1, <1>2, <1>3

\* The statements of an event leave its mark.
LEMMA StatementsLeave ==
  ASSUME NEW event \in Event, NEW now \in Times, event.type # "RAW_INPUT_RECEIVED"
  PROVE  \E s \in Items(Statements(At(event, now))) : Leaves(s, event)
<1>1. /\ At(event, now) \in Event /\ At(event, now).type = event.type
      /\ Marker(At(event, now)) \in Items(Statements(At(event, now)))
  BY AtType, StatementItems
<1>2. CASE event.type = "EDGE_ADDED"
  BY <1>1, <1>2, AtType DEF Leaves, Marker
<1>3. CASE event.type # "EDGE_ADDED"
  <2>1. At(event, now) = event
    BY <1>3, AtType
  <2> QED
    BY <1>1, <2>1 DEF Leaves
<1> QED
  BY <1>2, <1>3

\* The statement of an event leaves its mark in what its client sees.
LEMMA ExecuteMarks ==
  ASSUME TypeOK, NEW c \in Clients, Execute(c),
         Head(tx[c].todo).type # "NODES_MERGED"
  PROVE  Marked(View(c)', Head(tx[c].todo))
<1> DEFINE s == Head(tx[c].todo)
           old == View(c)
           new == View(c)'
<1>1. /\ s \in Statement /\ ~Rejected(old, s) /\ s.type # "NODES_MERGED"
      /\ old \in Db /\ old.nodes \in [NodeIds -> NodeRow \cup {NoRow}]
      /\ old.edges \in [EdgeIds -> EdgeRow \cup {NoRow}]
  <2>1. old \in Db
    BY ViewType
  <2> QED
    BY <2>1, ExecuteData DEF Db
<1>2. /\ \A n \in NodeIds : new.nodes[n] =
           IF n \in NodesWritten(old.nodes, s)
           THEN NodeAfter(old.nodes[n], s) ELSE old.nodes[n]
      /\ \A e \in EdgeIds : new.edges[e] =
           IF e \in EdgesWritten(old.edges, s)
           THEN EdgeAfter(old.edges[e], s) ELSE old.edges[e]
      /\ \A m \in NodeIds \X Models : new.embeddings[m] =
           IF m \in EmbeddingsWritten(s) THEN s.vector ELSE old.embeddings[m]
  BY ExecuteView
<1> SUFFICES Marked(new, s)
  OBVIOUS
<1> HIDE DEF s, old, new
<1>3. CASE s.type = "NODE_CREATED"
  <2>1. s \in NodeCreated /\ s.id \in NodeIds
    BY <1>1, <1>3, StatementTags DEF NodeCreated
  <2>2. CASE KeyHolders(old.nodes, s) = {}
    <3>1. s.id \in NodesWritten(old.nodes, s) /\ old.nodes[s.id] = NoRow
      BY <1>1, <1>3, <2>1, <2>2 DEF NodesWritten, Rejected
    <3>2. /\ new.nodes[s.id] \in NodeRow
          /\ new.nodes[s.id].key = s.key /\ new.nodes[s.id].ns = s.ns
      BY <1>1, <1>2, <2>1, <3>1, WrittenNode
    <3>3. new.nodes[s.id] # NoRow
      BY <3>2, GraphAssumption
    <3>4. s.key # NoKey => s.id \in KeyHolders(new.nodes, s)
      BY <2>1, <3>2, <3>3 DEF KeyHolders
    <3> QED
      BY <1>3, <3>3, <3>4 DEF Marked
  <2>3. CASE KeyHolders(old.nodes, s) # {}
    <3>1. PICK n \in NodeIds : n \in KeyHolders(old.nodes, s)
      BY <2>3 DEF KeyHolders
    <3>2. /\ s.key # NoKey /\ old.nodes[n] # NoRow
          /\ old.nodes[n].ns = s.ns /\ old.nodes[n].key = s.key
          /\ n \in NodesWritten(old.nodes, s)
      BY <1>3, <3>1 DEF KeyHolders, NodesWritten
    <3>3. /\ new.nodes[n] \in NodeRow
          /\ new.nodes[n].key = s.key /\ new.nodes[n].ns = s.ns
      BY <1>1, <1>2, <3>2, WrittenNode
    <3>4. n \in KeyHolders(new.nodes, s)
      BY <3>2, <3>3, GraphAssumption DEF KeyHolders
    <3> QED
      BY <1>3, <3>2, <3>4 DEF Marked
  <2> QED
    BY <2>2, <2>3
<1>4. CASE s.type = "EDGE_ADDED"
  <2>1. s.id \in EdgeIds /\ s.id \in EdgesWritten(old.edges, s)
    BY <1>1, <1>4, StatementTags DEF EdgeAdded, EdgesWritten, Remapped
  <2>2. new.edges[s.id] \in EdgeRow
    BY <1>1, <1>2, <2>1, EdgeAfterType
  <2> QED
    BY <1>4, <2>2, GraphAssumption DEF Marked
<1>5. CASE s.type = "EMBEDDING_STORED"
  <2>1. /\ s \in EmbeddingStored /\ s.vector # EmptyVector
        /\ <<s.node, s.model>> \in NodeIds \X Models
    BY <1>1, <1>5, StatementTags DEF Rejected, EmbeddingStored
  <2>2. new.embeddings[<<s.node, s.model>>] = s.vector
    BY <1>2, <1>5, <2>1 DEF EmbeddingsWritten
  <2>3. s.vector # NoRow
    BY <2>1, GraphAssumption DEF EmbeddingStored
  <2> QED
    BY <1>5, <2>2, <2>3 DEF Marked
<1>6. CASE s.type = "NODE_RETRACTED"
  <2>1. s.id \in NodeIds
    BY <1>1, <1>6, StatementTags DEF NodeRetracted
  <2>2. CASE old.nodes[s.id] = NoRow
    BY <1>2, <1>6, <2>1, <2>2 DEF NodesWritten, Marked, GoneOrRetracted
  <2>3. CASE old.nodes[s.id] # NoRow
    <3>1. s.id \in NodesWritten(old.nodes, s) /\ old.nodes[s.id] \in NodeRow
      BY <1>1, <1>6, <2>1, <2>3 DEF NodesWritten
    <3>2. new.nodes[s.id] = [old.nodes[s.id] EXCEPT !.retracted = TRUE]
      BY <1>2, <1>6, <2>1, <3>1 DEF NodeAfter
    <3>3. new.nodes[s.id].retracted
      BY <3>1, <3>2 DEF NodeRow
    <3> QED
      BY <1>6, <3>3 DEF Marked, GoneOrRetracted
  <2> QED
    BY <2>2, <2>3
<1>7. CASE s.type = "EDGE_RETRACTED"
  <2>1. s.id \in EdgeIds
    BY <1>1, <1>7, StatementTags DEF EdgeRetracted
  <2>2. CASE old.edges[s.id] = NoRow
    BY <1>2, <1>7, <2>1, <2>2 DEF EdgesWritten, Remapped, Marked, GoneOrRetracted
  <2>3. CASE old.edges[s.id] # NoRow
    <3>1. s.id \in EdgesWritten(old.edges, s) /\ old.edges[s.id] \in EdgeRow
      BY <1>1, <1>7, <2>1, <2>3 DEF EdgesWritten, Remapped
    <3>2. new.edges[s.id] = [old.edges[s.id] EXCEPT !.retracted = TRUE]
      BY <1>2, <1>7, <2>1, <3>1 DEF EdgeAfter
    <3>3. new.edges[s.id].retracted
      BY <3>1, <3>2 DEF EdgeRow
    <3> QED
      BY <1>7, <3>3 DEF Marked, GoneOrRetracted
  <2> QED
    BY <2>2, <2>3
<1>8. CASE s.type \notin {"NODE_CREATED", "EDGE_ADDED", "EMBEDDING_STORED",
                          "NODE_RETRACTED", "EDGE_RETRACTED"}
  BY <1>1, <1>8 DEF Marked
<1> QED
  BY <1>3, <1>4, <1>5, <1>6, <1>7, <1>8

LEMMA MarksKept ==
  ASSUME NEW c \in Clients, ClientMarks(c), Sees(c),
         tx'[c].rows = tx[c].rows, tx'[c].todo = tx[c].todo
  PROVE  ClientMarks(c)'
<1>1. View(c)' = View(c)
  BY DEF Sees, View
<1> QED
  BY <1>1 DEF ClientMarks

LEMMA MarkStep ==
  TypeOK /\ Exclusion /\ IdentityInv /\ GrowInv /\ MarkInv /\ [Next]_vars => MarkInv'
<1> SUFFICES ASSUME TypeOK, Exclusion, IdentityInv, GrowInv, MarkInv, [Next]_vars
             PROVE  MarkInv'
  OBVIOUS
<1>a. \A d \in Clients : ClientMarks(d) /\ db' = db /\ tx'[d] = tx[d] => ClientMarks(d)'
  BY MarksKept DEF Sees
<1>0. CASE UNCHANGED vars
  BY <1>0, <1>a DEF vars, MarkInv, EventsLeaveMarks
<1>1. ASSUME NEW c \in Clients, Gathers(c) PROVE MarkInv'
  <2>1. ClientMarks(c)'
    BY <1>1, MarksKept DEF Gathers, MarkInv, Sees
  <2> QED
    BY <1>1, <1>a, <2>1 DEF Gathers, MarkInv, EventsLeaveMarks
<1>2. ASSUME NEW c \in Clients, Clears(c) PROVE MarkInv'
  <2>1. ClientMarks(c)'
    BY <1>2 DEF Clears, ClientMarks
  <2> QED
    BY <1>2, <1>a, <2>1 DEF Clears, MarkInv, EventsLeaveMarks
<1>3. ASSUME NEW c \in Clients, InsertEvent(c) PROVE MarkInv'
  <2> DEFINE event == tx[c].batch[tx[c].pos + 1]
             row == [id |-> seq + 1, event |-> event]
  <2>1. /\ UNCHANGED <<log, db>> /\ event \in Event /\ row.event = event
        /\ \A d \in Clients \ {c} : tx'[d] = tx[d]
        /\ tx[c].todo = << >>
        /\ \E now \in Times : tx'[c].todo = Statements(At(event, now))
        /\ tx'[c].delta = tx[c].delta /\ tx'[c].rows = tx[c].rows \cup {row}
    BY <1>3, InsertData
  <2> HIDE DEF row, event
  <2>2. View(c)' = View(c)
    BY <2>1 DEF View
  <2>3. \A r \in tx[c].rows : Marked(View(c), r.event)
    BY <2>1, NoItems DEF MarkInv, ClientMarks
  <2>4. Marked(View(c), event) \/ \E s \in Items(tx'[c].todo) : Leaves(s, event)
    <3>1. CASE event.type = "RAW_INPUT_RECEIVED"
      BY <3>1 DEF Marked
    <3>2. CASE event.type # "RAW_INPUT_RECEIVED"
      BY <2>1, <3>2, StatementsLeave
    <3> QED
      BY <3>1, <3>2
  <2>5. ClientMarks(c)'
    BY <2>1, <2>2, <2>3, <2>4 DEF ClientMarks
  <2> QED
    BY <1>a, <2>1, <2>5 DEF MarkInv, EventsLeaveMarks
<1>4. ASSUME NEW c \in Clients, Scan(c) PROVE MarkInv'
  <2>1. /\ UNCHANGED <<log, db>> /\ \A d \in Clients \ {c} : tx'[d] = tx[d]
        /\ tx'[c].rows = tx[c].rows /\ tx'[c].delta = tx[c].delta
        /\ Head(tx[c].todo).type \in RemapTypes
        /\ Items(tx[c].todo) = {Head(tx[c].todo)} \cup Items(Tail(tx[c].todo))
        /\ Items(Tail(tx[c].todo)) \subseteq Items(tx'[c].todo)
    BY <1>4, ScanData, ItemsOfTail
  <2>2. View(c)' = View(c)
    BY <2>1 DEF View
  <2>3. \A r \in tx[c].rows : ~Leaves(Head(tx[c].todo), r.event)
    <3>1. ASSUME NEW r \in tx[c].rows PROVE Marker(r.event).type \notin RemapTypes
      <4>1. r.event \in Event
        BY DEF TypeOK, Tx, LogRow
      <4>2. r.event.type \notin RemapTypes
        BY <4>1 DEF RemapTypes, Event, NodeCreated, NodeUpdated, NodeRetracted,
               EdgeAdded, EdgeUpdated, EdgeRetracted, EmbeddingStored,
               RawInputReceived, NodesMerged
      <4> QED
        BY <4>2 DEF Marker, RemapTypes
    <3> QED
      BY <2>1, <3>1 DEF Leaves, RemapTypes
  <2>4. ClientMarks(c)'
    BY <2>1, <2>2, <2>3 DEF MarkInv, ClientMarks
  <2> QED
    BY <1>a, <2>1, <2>4 DEF MarkInv, EventsLeaveMarks
<1>5. ASSUME NEW c \in Clients, Execute(c) PROVE MarkInv'
  <2> DEFINE s == Head(tx[c].todo)
  <2>1. /\ UNCHANGED <<log, db>> /\ tx'[c].rows = tx[c].rows
        /\ \A d \in Clients \ {c} : tx'[d] = tx[d]
        /\ Items(tx[c].todo) = {s} \cup Items(tx'[c].todo)
    BY <1>5, ExecuteData, ExecuteTodo, ItemsOfTail
  <2>2. Grows(View(c), View(c)', tx[c].drawn)
    BY <1>5, <2>1, ExecuteGrows DEF IdentityInv, Identified
  <2>3. s.type # "NODES_MERGED" => Marked(View(c)', s)
    BY <1>5, ExecuteMarks
  <2> HIDE DEF s
  <2>4. ASSUME NEW r \in tx[c].rows
        PROVE  \/ Marked(View(c)', r.event)
               \/ \E x \in Items(tx'[c].todo) : Leaves(x, r.event)
    <3>1. r.event \in Event
      BY DEF TypeOK, Tx, LogRow
    <3>2. CASE Marked(View(c), r.event)
      <4>1. Names(r.event, known) /\ known \cap tx[c].drawn = {}
        BY DEF IdentityInv, Identified
      <4> QED
        BY <2>2, <3>1, <3>2, <4>1, MarkStays
    <3>3. CASE Leaves(s, r.event)
      BY <2>3, <3>3, LeavesMark
    <3> QED
      BY <2>1, <3>2, <3>3 DEF MarkInv, ClientMarks
  <2>5. ClientMarks(c)'
    BY <2>1, <2>4 DEF ClientMarks
  <2> QED
    BY <1>a, <2>1, <2>5 DEF MarkInv, EventsLeaveMarks
<1>6. ASSUME NEW c \in Clients, Commit(c) PROVE MarkInv'
  <2>1. /\ db' = View(c) /\ log' = log \cup tx[c].rows /\ tx[c].todo = << >>
        /\ tx'[c] = Idle /\ \A d \in Clients \ {c} : tx'[d] = tx[d]
    BY <1>6 DEF Commit, TypeOK
  <2>2. EventsLeaveMarks'
    <3>1. ASSUME NEW r \in log PROVE Marked(View(c), r.event)
      <4>1. r.event \in Event /\ Marked(db, r.event)
        BY DEF TypeOK, LogRow, MarkInv, EventsLeaveMarks
      <4>2. Grows(db, View(c), tx[c].drawn)
        BY DEF GrowInv
      <4>3. Names(r.event, known) /\ known \cap tx[c].drawn = {}
        BY DEF IdentityInv, Identified
      <4> QED
        BY <4>1, <4>2, <4>3, MarkStays
    <3>2. ASSUME NEW r \in tx[c].rows PROVE Marked(View(c), r.event)
      BY <2>1, NoItems DEF MarkInv, ClientMarks
    <3> QED
      BY <2>1, <3>1, <3>2 DEF EventsLeaveMarks
  <2>3. ASSUME NEW d \in Clients \ {c} PROVE ClientMarks(d)'
    <3>1. Grows(View(d), View(d)', tx[c].drawn)
      BY <1>6, CommitGrows DEF GrowInv
    <3>2. ASSUME NEW r \in tx[d].rows, Marked(View(d), r.event)
          PROVE  Marked(View(d)', r.event)
      <4>1. r.event \in Event
        BY DEF TypeOK, Tx, LogRow
      <4>2. Names(r.event, known) /\ known \cap tx[c].drawn = {}
        BY DEF IdentityInv, Identified
      <4> QED
        BY <3>1, <3>2, <4>1, <4>2, MarkStays
    <3> QED
      BY <2>1, <3>2 DEF MarkInv, ClientMarks
  <2>4. ClientMarks(c)'
    <3>1. tx'[c].rows = {}
      BY <2>1 DEF Idle
    <3> QED
      BY <3>1 DEF ClientMarks
  <2> QED
    BY <2>2, <2>3, <2>4 DEF MarkInv
<1> QED
  BY <1>0, <1>1, <1>2, <1>3, <1>4, <1>5, <1>6, Steps

\* Every event of the log has left its mark in the graph and no later event,
\* committed or about to be, takes it away: a row that was created stays, what
\* was retracted stays retracted.
THEOREM GraphKeepsMarks == Spec => []EventsLeaveMarks
<1> DEFINE Inv == TypeOK /\ Exclusion /\ IdentityInv /\ GrowInv /\ MarkInv
<1>1. Init => Inv
  <2> SUFFICES ASSUME Init PROVE Inv
    OBVIOUS
  <2>1. /\ db = EmptyDb /\ log = {} /\ known = {}
        /\ \A c \in Clients : /\ tx[c].delta = EmptyDb /\ tx[c].todo = << >>
                              /\ tx[c].batch = << >> /\ tx[c].rows = {}
                              /\ tx[c].drawn = {}
    BY DEF Init, Idle
  <2>2. IdentityInv
    BY <2>1, NoItems DEF IdentityInv, Identified
  <2>3. GrowInv
    <3>1. \A c \in Clients : View(c) = EmptyDb
      BY <2>1, EmptyDelta, EmptyDbType DEF View
    <3> QED
      BY <2>1, <3>1, GrowsNot DEF GrowInv
  <2>4. MarkInv
    BY <2>1 DEF MarkInv, ClientMarks, EventsLeaveMarks
  <2> QED
    BY <2>2, <2>3, <2>4, TypeInit, ExclusionInit
<1>2. Inv /\ [Next]_vars => Inv'
  BY TypeStep, ExclusionStep, IdentityStep, GrowStep, MarkStep
<1>3. Inv => EventsLeaveMarks
  BY DEF MarkInv
<1> QED
  BY <1>1, <1>2, <1>3, PTL DEF Spec

-----------------------------------------------------------------------------
(* Merges: edges move only with them, however merges race.  The invariant.  *)

\* Client c is merging from into to.
Merging(c, from, to) ==
  \E r \in tx[c].rows : /\ r.event.type = "NODES_MERGED"
                        /\ r.event.removed = from /\ r.event.kept = to

Moved(c, old, new) == old = new \/ Merging(c, old, new)

\* A call has one merge at most; what moves edges belongs to it, and the ends
\* of an edge that c sees elsewhere than they are committed were moved by it.
ClientMoves(c) ==
  /\ \A x, y \in Items(tx[c].batch) :
       x.type = "NODES_MERGED" /\ y.type = "NODES_MERGED" => x = y
  /\ \A r \in tx[c].rows : r.event \in Items(tx[c].batch)
  /\ \A s \in Items(tx[c].todo) :
       s.type \in RemapTypes \cup MoveTypes => Merging(c, s.from, s.to)
  /\ \A e \in EdgeIds : db.edges[e] # NoRow =>
       /\ Moved(c, db.edges[e].source, View(c).edges[e].source)
       /\ Moved(c, db.edges[e].target, View(c).edges[e].target)

MoveInv == \A c \in Clients : ClientMoves(c)

-----------------------------------------------------------------------------
(* The steps.                                                               *)

LEMMA OneMerge ==
  ASSUME NEW c \in Clients, ClientMoves(c), NEW a, NEW b, NEW x, NEW y,
         Merging(c, a, b), Merging(c, x, y)
  PROVE  a = x /\ b = y
  BY DEF ClientMoves, Merging

\* Statement s puts an end of an edge from one node to another.
Shifts(s, old, new) ==
  old = new \/ (s.type \in RemapTypes \cup MoveTypes /\ old = s.from /\ new = s.to)

LEMMA WrittenEnds ==
  ASSUME NEW d \in Db, NEW s \in Statement, NEW e \in EdgesWritten(d.edges, s),
         ~Rejected(d, s), d.edges[e] # NoRow
  PROVE  /\ Shifts(s, d.edges[e].source, EdgeAfter(d.edges[e], s).source)
         /\ Shifts(s, d.edges[e].target, EdgeAfter(d.edges[e], s).target)
<1>1. e \in EdgeIds /\ d.edges[e] \in EdgeRow
  BY DEF EdgesWritten, Remapped, Db
<1>2. s.type # "EDGE_ADDED"
  BY DEF Rejected, EdgesWritten, Remapped
<1>3. CASE s.type = "EDGE_UPDATED"
  <2>1. EdgeAfter(d.edges[e], s) = [d.edges[e] EXCEPT !.attrs = Patched(d.edges[e].attrs, s.patch)]
    BY <1>3 DEF EdgeAfter
  <2> QED
    BY <1>1, <2>1 DEF EdgeRow, Shifts
<1>4. CASE s.type = "EDGE_RETRACTED"
  <2>1. EdgeAfter(d.edges[e], s) = [d.edges[e] EXCEPT !.retracted = TRUE]
    BY <1>4 DEF EdgeAfter
  <2> QED
    BY <1>1, <2>1 DEF EdgeRow, Shifts
<1>5. CASE s.type \in {"REMAP_SOURCE", "MOVE_SOURCE"}
  <2>1. EdgeAfter(d.edges[e], s) = [d.edges[e] EXCEPT !.source = s.to]
    BY <1>5 DEF EdgeAfter
  <2>2. d.edges[e].source = s.from
    BY <1>5 DEF EdgesWritten, Remapped
  <2> QED
    BY <1>1, <1>5, <2>1, <2>2 DEF EdgeRow, Shifts, RemapTypes, MoveTypes
<1>6. CASE s.type \in {"REMAP_TARGET", "MOVE_TARGET"}
  <2>1. EdgeAfter(d.edges[e], s) = [d.edges[e] EXCEPT !.target = s.to]
    BY <1>6 DEF EdgeAfter
  <2>2. d.edges[e].target = s.from
    BY <1>6 DEF EdgesWritten, Remapped
  <2> QED
    BY <1>1, <1>6, <2>1, <2>2 DEF EdgeRow, Shifts, RemapTypes, MoveTypes
<1> QED
  BY <1>2, <1>3, <1>4, <1>5, <1>6 DEF EdgesWritten, Remapped

LEMMA ExecuteMoves ==
  ASSUME TypeOK, NEW c \in Clients, Execute(c), ClientMoves(c), GrowInv
  PROVE  \A e \in EdgeIds : db.edges[e] # NoRow =>
           /\ Moved(c, db.edges[e].source, View(c)'.edges[e].source)
           /\ Moved(c, db.edges[e].target, View(c)'.edges[e].target)
<1> DEFINE s == Head(tx[c].todo)
           old == View(c).edges
           new == View(c)'.edges
<1>1. SUFFICES ASSUME NEW e \in EdgeIds, db.edges[e] # NoRow
               PROVE  /\ Moved(c, db.edges[e].source, new[e].source)
                      /\ Moved(c, db.edges[e].target, new[e].target)
  OBVIOUS
<1>2. s \in Statement /\ ~Rejected(View(c), s) /\ View(c) \in Db
  BY ExecuteData, ViewType
<1>3. old[e] # NoRow
  BY <1>1 DEF GrowInv, Grows
<1>4. new[e] = IF e \in EdgesWritten(old, s) THEN EdgeAfter(old[e], s) ELSE old[e]
  BY ExecuteView
<1>5. s.type \in RemapTypes \cup MoveTypes => Merging(c, s.from, s.to)
  <2>1. s \in Items(tx[c].todo)
    BY ExecuteTodo, ItemsOfTail
  <2> QED
    BY <2>1 DEF ClientMoves
<1>6. /\ Moved(c, db.edges[e].source, old[e].source)
      /\ Moved(c, db.edges[e].target, old[e].target)
  BY <1>1 DEF ClientMoves
<1> HIDE DEF s
<1>7. Shifts(s, old[e].source, new[e].source) /\ Shifts(s, old[e].target, new[e].target)
  <2>1. CASE e \in EdgesWritten(old, s)
    BY <1>2, <1>3, <1>4, <2>1, WrittenEnds
  <2>2. CASE e \notin EdgesWritten(old, s)
    BY <1>4, <2>2 DEF Shifts
  <2> QED
    BY <2>1, <2>2
<1>8. ASSUME NEW a, NEW b, NEW z, Moved(c, a, b), Shifts(s, b, z)
      PROVE  Moved(c, a, z)
  <2>1. CASE b = z
    BY <1>8, <2>1
  <2>2. CASE a = b /\ b # z
    BY <1>5, <1>8, <2>2 DEF Shifts, Moved
  <2>3. CASE a # b /\ b # z
    <3>1. Merging(c, a, b) /\ Merging(c, b, z)
      BY <1>5, <1>8, <2>3 DEF Shifts, Moved
    <3> QED
      BY <2>3, <3>1, OneMerge
  <2> QED
    BY <2>1, <2>2, <2>3
<1> QED
  BY <1>6, <1>7, <1>8

LEMMA MovesKept ==
  ASSUME NEW c \in Clients, ClientMoves(c), db' = db,
         tx'[c].delta = tx[c].delta, tx'[c].rows = tx[c].rows,
         tx'[c].todo = tx[c].todo,
         \A x \in Items(tx'[c].batch) :
           x \in Items(tx[c].batch) \/ x.type # "NODES_MERGED",
         Items(tx[c].batch) \subseteq Items(tx'[c].batch)
  PROVE  ClientMoves(c)'
<1>1. View(c)' = View(c)
  BY DEF View
<1>2. \A a, b : Merging(c, a, b)' <=> Merging(c, a, b)
  BY DEF Merging
<1> QED
  BY <1>1, <1>2 DEF ClientMoves, Moved

LEMMA MoveStep ==
  TypeOK /\ Exclusion /\ GrowInv /\ MoveInv /\ [Next]_vars => MoveInv'
<1> SUFFICES ASSUME TypeOK, Exclusion, GrowInv, MoveInv, [Next]_vars
             PROVE  MoveInv'
  OBVIOUS
<1>a. \A d \in Clients : ClientMoves(d) /\ db' = db /\ tx'[d] = tx[d] => ClientMoves(d)'
  BY MovesKept
<1>0. CASE UNCHANGED vars
  BY <1>0, <1>a DEF vars, MoveInv
<1>1. ASSUME NEW c \in Clients, Gathers(c) PROVE MoveInv'
  <2>1. ClientMoves(c)'
    BY <1>1, MovesKept DEF Gathers, MoveInv, SourceTypes
  <2> QED
    BY <1>1, <1>a, <2>1 DEF Gathers, MoveInv
<1>2. ASSUME NEW c \in Clients, Clears(c) PROVE MoveInv'
  <2>1. View(c)' = db' /\ db' = db
    BY <1>2, EmptyDelta DEF Clears, View, TypeOK
  <2>2. ClientMoves(c)'
    BY <1>2, <2>1, NoItems DEF Clears, ClientMoves, Moved
  <2> QED
    BY <1>2, <1>a, <2>2 DEF Clears, MoveInv
<1>3. ASSUME NEW c \in Clients, InsertEvent(c) PROVE MoveInv'
  <2> DEFINE event == tx[c].batch[tx[c].pos + 1]
             row == [id |-> seq + 1, event |-> event]
  <2>1. /\ UNCHANGED db /\ event \in Event /\ row.event = event
        /\ event \in Items(tx[c].batch)
        /\ \A d \in Clients \ {c} : tx'[d] = tx[d]
        /\ \E now \in Times : tx'[c].todo = Statements(At(event, now))
        /\ tx'[c].batch = tx[c].batch
        /\ tx'[c].delta = tx[c].delta /\ tx'[c].rows = tx[c].rows \cup {row}
    BY <1>3, InsertData
  <2> HIDE DEF row, event
  <2>2. View(c)' = View(c) /\ \A a, b : Merging(c, a, b) => Merging(c, a, b)'
    BY <2>1 DEF View, Merging
  <2>3. \A s \in Items(tx'[c].todo) :
          s.type \in RemapTypes \cup MoveTypes => Merging(c, s.from, s.to)'
    <3>1. PICK now \in Times : tx'[c].todo = Statements(At(event, now))
      BY <2>1
    <3>2. SUFFICES ASSUME NEW s \in Items(tx'[c].todo),
                          s.type \in RemapTypes \cup MoveTypes
                   PROVE  Merging(c, s.from, s.to)'
      OBVIOUS
    <3>3. At(event, now) \in Event /\ At(event, now).type = event.type
      BY <2>1, AtType
    <3>4. /\ event.type = "NODES_MERGED"
          /\ s.from = At(event, now).removed /\ s.to = At(event, now).kept
      BY <3>1, <3>2, <3>3, RemapItems
    <3>5. At(event, now) = event
      BY <2>1, <3>4, AtType
    <3> QED
      BY <2>1, <3>4, <3>5 DEF Merging
  <2>4. \A r \in tx'[c].rows : r.event \in Items(tx'[c].batch)
    BY <2>1 DEF MoveInv, ClientMoves
  <2>5. \A e \in EdgeIds : db'.edges[e] # NoRow =>
          /\ Moved(c, db.edges[e].source, View(c).edges[e].source)'
          /\ Moved(c, db.edges[e].target, View(c).edges[e].target)'
    BY <2>1, <2>2 DEF MoveInv, ClientMoves, Moved
  <2>6. ClientMoves(c)'
    BY <2>1, <2>3, <2>4, <2>5 DEF MoveInv, ClientMoves
  <2> QED
    BY <1>a, <2>1, <2>6 DEF MoveInv
<1>4. ASSUME NEW c \in Clients, Scan(c) PROVE MoveInv'
  <2> DEFINE s == Head(tx[c].todo)
  <2>1. /\ UNCHANGED db /\ \A d \in Clients \ {c} : tx'[d] = tx[d]
        /\ tx'[c].rows = tx[c].rows /\ tx'[c].delta = tx[c].delta
        /\ tx'[c].batch = tx[c].batch /\ s.type \in RemapTypes
        /\ Items(tx[c].todo) = {s} \cup Items(Tail(tx[c].todo))
        /\ \A x \in Items(tx'[c].todo) :
             x \in Items(Tail(tx[c].todo)) \/ (x.from = s.from /\ x.to = s.to)
    BY <1>4, ScanData, ItemsOfTail
  <2> HIDE DEF s
  <2>2. View(c)' = View(c) /\ \A a, b : Merging(c, a, b)' <=> Merging(c, a, b)
    BY <2>1 DEF View, Merging
  <2>3. \A x \in Items(tx'[c].todo) :
          x.type \in RemapTypes \cup MoveTypes => Merging(c, x.from, x.to)
    BY <2>1 DEF MoveInv, ClientMoves
  <2>4. ClientMoves(c)'
    BY <2>1, <2>2, <2>3 DEF MoveInv, ClientMoves, Moved
  <2> QED
    BY <1>a, <2>1, <2>4 DEF MoveInv
<1>5. ASSUME NEW c \in Clients, Execute(c) PROVE MoveInv'
  <2>1. /\ UNCHANGED db /\ \A d \in Clients \ {c} : tx'[d] = tx[d]
        /\ tx'[c].rows = tx[c].rows /\ tx'[c].batch = tx[c].batch
        /\ Items(tx'[c].todo) \subseteq Items(tx[c].todo)
    BY <1>5, ExecuteData, ExecuteTodo, ItemsOfTail
  <2>2. \A a, b : Merging(c, a, b)' <=> Merging(c, a, b)
    BY <2>1 DEF Merging
  <2>3. \A e \in EdgeIds : db.edges[e] # NoRow =>
          /\ Moved(c, db.edges[e].source, View(c)'.edges[e].source)
          /\ Moved(c, db.edges[e].target, View(c)'.edges[e].target)
    BY <1>5, ExecuteMoves DEF MoveInv
  <2>4. ClientMoves(c)'
    BY <2>1, <2>2, <2>3 DEF MoveInv, ClientMoves, Moved
  <2> QED
    BY <1>a, <2>1, <2>4 DEF MoveInv
<1>6. ASSUME NEW c \in Clients, Commit(c) PROVE MoveInv'
  <2>1. /\ db' = View(c) /\ View(c) \in Db
        /\ tx'[c] = Idle /\ \A d \in Clients \ {c} : tx'[d] = tx[d]
    BY <1>6, ViewType DEF Commit, TypeOK
  <2>2. ClientMoves(c)'
    <3>1. /\ tx'[c].rows = {} /\ tx'[c].todo = << >> /\ tx'[c].batch = << >>
          /\ tx'[c].delta = EmptyDb
      BY <2>1 DEF Idle
    <3>2. View(c)' = db'
      BY <2>1, <3>1, EmptyDelta DEF View
    <3> QED
      BY <3>1, <3>2, NoItems DEF ClientMoves, Moved
  <2>3. ASSUME NEW d \in Clients \ {c} PROVE ClientMoves(d)'
    <3>1. \A a, b : Merging(d, a, b)' <=> Merging(d, a, b)
      BY <2>1 DEF Merging
    <3>2. ASSUME NEW e \in EdgeIds, db'.edges[e] # NoRow
          PROVE  /\ Moved(d, db'.edges[e].source, View(d)'.edges[e].source)
                 /\ Moved(d, db'.edges[e].target, View(d)'.edges[e].target)
      <4>1. View(d)'.edges[e] = IF tx[d].delta.edges[e] = NoRow THEN db'.edges[e]
                                ELSE tx[d].delta.edges[e]
        <5>1. DOMAIN View(c).edges = EdgeIds
          BY <2>1 DEF Db
        <5> QED
          BY <2>1, <5>1 DEF View, OverlayDb, Overlay
      <4>2. CASE tx[d].delta.edges[e] = NoRow
        BY <4>1, <4>2 DEF Moved
      <4>3. CASE tx[d].delta.edges[e] # NoRow
        <5>1. /\ db'.edges[e] = db.edges[e]
              /\ View(d)'.edges[e] = View(d).edges[e]
          BY <2>1, <4>1, <4>3, ViewRows DEF Exclusion
        <5> QED
          BY <3>2, <5>1 DEF MoveInv, ClientMoves
      <4> QED
        BY <4>2, <4>3
    <3> QED
      BY <2>1, <3>1, <3>2 DEF MoveInv, ClientMoves, Moved
  <2> QED
    BY <2>2, <2>3 DEF MoveInv
<1> QED
  BY <1>0, <1>1, <1>2, <1>3, <1>4, <1>5, <1>6, Steps

-----------------------------------------------------------------------------
(* What a transaction is about to append is not in the log.                 *)

Apart == \A c \in Clients : tx[c].rows \cap log = {}

LEMMA ApartStep == TypeOK /\ IdInv /\ Apart /\ [Next]_vars => Apart'
<1> SUFFICES ASSUME TypeOK, IdInv, Apart, [Next]_vars PROVE Apart'
  OBVIOUS
<1>0. CASE log' = log /\ \A d \in Clients : tx'[d].rows \subseteq tx[d].rows
  BY <1>0 DEF Apart
<1>1. ASSUME NEW c \in Clients, Gathers(c) \/ Clears(c) PROVE Apart'
  BY <1>0, <1>1 DEF Gathers, Clears
<1>2. ASSUME NEW c \in Clients, InsertEvent(c) PROVE Apart'
  <2> DEFINE row == [id |-> seq + 1, event |-> tx[c].batch[tx[c].pos + 1]]
  <2>1. /\ log' = log /\ tx'[c].rows = tx[c].rows \cup {row}
        /\ \A d \in Clients \ {c} : tx'[d] = tx[d]
    BY <1>2, InsertData
  <2>2. row \notin log
    <3>1. row.id = seq + 1
      OBVIOUS
    <3> HIDE DEF row
    <3> QED
      BY <3>1 DEF IdInv, AllRows, TypeOK, LogRow
  <2> HIDE DEF row
  <2> QED
    BY <2>1, <2>2 DEF Apart
<1>3. ASSUME NEW c \in Clients, Scan(c) PROVE Apart'
  BY <1>0, <1>3, ScanData
<1>4. ASSUME NEW c \in Clients, Execute(c) PROVE Apart'
  BY <1>0, <1>4, ExecuteTodo
<1>5. ASSUME NEW c \in Clients, Commit(c) PROVE Apart'
  <2>1. /\ log' = log \cup tx[c].rows
        /\ tx'[c] = Idle /\ \A d \in Clients \ {c} : tx'[d] = tx[d]
    BY <1>5 DEF Commit, TypeOK
  <2>2. tx'[c].rows = {}
    BY <2>1 DEF Idle
  <2> QED
    BY <2>1, <2>2 DEF Apart, IdInv, LogIdsUnique
<1> QED
  BY <1>0, <1>1, <1>2, <1>3, <1>4, <1>5, Steps DEF vars

-----------------------------------------------------------------------------
(* The theorem.                                                             *)

\* A merge that this step commits names old and new, and old is retracted.
Explained(old, new) ==
  \/ old = new
  \/ /\ db'.nodes[old].retracted
     /\ \E r \in log' \ log : /\ r.event.type = "NODES_MERGED"
                              /\ r.event.removed = old
                              /\ r.event.kept = new

MoveStepOK ==
  \A e \in EdgeIds :
    db.edges[e] # NoRow =>
      \A old, new \in NodeIds :
        \/ db.edges[e].source = old /\ db'.edges[e].source = new
        \/ db.edges[e].target = old /\ db'.edges[e].target = new
        => Explained(old, new)

LEMMA CommitExplains ==
  ASSUME TypeOK, NEW c \in Clients, Commit(c), GrowInv, MarkInv, Apart,
         NEW old \in NodeIds, NEW new, db.nodes[old] # NoRow, Moved(c, old, new)
  PROVE  Explained(old, new)
<1>1. /\ db' = View(c) /\ log' = log \cup tx[c].rows /\ tx[c].todo = << >>
  BY DEF Commit
<1>2. CASE old = new
  BY <1>2 DEF Explained
<1>3. CASE Merging(c, old, new)
  <2>1. PICK r \in tx[c].rows : /\ r.event.type = "NODES_MERGED"
                                /\ r.event.removed = old /\ r.event.kept = new
    BY <1>3 DEF Merging
  <2>2. r \in log' \ log
    BY <1>1 DEF Apart
  <2>3. Marked(View(c), r.event)
    BY <1>1, NoItems DEF MarkInv, ClientMarks
  <2>4. View(c).nodes[old] = NoRow \/ View(c).nodes[old].retracted
    BY <2>1, <2>3 DEF Marked, GoneOrRetracted
  <2>5. View(c).nodes[old] # NoRow
    BY DEF GrowInv, Grows
  <2> QED
    BY <1>1, <2>1, <2>2, <2>4, <2>5 DEF Explained
<1> QED
  BY <1>2, <1>3 DEF Moved

LEMMA MovesExplained ==
  TypeOK /\ NothingDangles /\ GrowInv /\ MarkInv /\ MoveInv /\ Apart /\ [Next]_vars
    => MoveStepOK
<1> SUFFICES ASSUME TypeOK, NothingDangles, GrowInv, MarkInv, MoveInv, Apart,
                    [Next]_vars,
                    NEW e \in EdgeIds, db.edges[e] # NoRow,
                    NEW old \in NodeIds, NEW new \in NodeIds,
                    \/ db.edges[e].source = old /\ db'.edges[e].source = new
                    \/ db.edges[e].target = old /\ db'.edges[e].target = new
             PROVE  Explained(old, new)
  BY DEF MoveStepOK
<1>1. CASE db' = db
  BY <1>1 DEF Explained
<1>2. ASSUME NEW c \in Clients, Commit(c) PROVE Explained(old, new)
  <2>1. db' = View(c)
    BY <1>2 DEF Commit
  <2>2. db.nodes[old] # NoRow
    BY DEF NothingDangles, Anchored
  <2>3. Moved(c, old, new)
    BY <2>1 DEF MoveInv, ClientMoves
  <2> QED
    BY <1>2, <2>2, <2>3, CommitExplains
<1> QED
  <2>1. \A c \in Clients :
          Gathers(c) \/ Clears(c) \/ InsertEvent(c) \/ Scan(c) \/ Execute(c) => db' = db
    BY InsertData, ScanData DEF Gathers, Clears, Execute
  <2> QED
    BY <1>1, <1>2, <2>1, Steps DEF vars

\* However merges race with each other and with the rest, the end of a committed
\* edge changes only in the commit of a merge that names the node it leaves and
\* the node it goes to, and from that commit on the node it left is retracted.
THEOREM MergesMoveEdges == Spec => EdgesMoveOnlyInMerges
<1> DEFINE Graph == TypeOK /\ Exclusion /\ IdentityInv /\ GrowInv /\ MarkInv
           Log == IdInv /\ Apart
           Inv == Graph /\ Log /\ NothingDangles /\ MoveInv
<1>1. Init => Inv
  <2> SUFFICES ASSUME Init PROVE Inv
    OBVIOUS
  <2>1. /\ db = EmptyDb /\ log = {} /\ known = {}
        /\ \A c \in Clients : /\ tx[c].delta = EmptyDb /\ tx[c].todo = << >>
                              /\ tx[c].batch = << >> /\ tx[c].rows = {}
                              /\ tx[c].drawn = {}
    BY DEF Init, Idle
  <2>2. \A c \in Clients : View(c) = EmptyDb
    BY <2>1, EmptyDelta, EmptyDbType DEF View
  <2>3. IdentityInv
    BY <2>1, NoItems DEF IdentityInv, Identified
  <2>4. GrowInv
    BY <2>1, <2>2, GrowsNot DEF GrowInv
  <2>5. MarkInv
    BY <2>1 DEF MarkInv, ClientMarks, EventsLeaveMarks
  <2>6. Log
    BY <2>1 DEF IdInv, LogIdsUnique, AllRows, Apart
  <2>7. NothingDangles
    BY <2>1, <2>2, EmptyTables DEF NothingDangles, Anchored
  <2>8. MoveInv
    BY <2>1, EmptyTables, NoItems DEF MoveInv, ClientMoves
  <2> QED
    BY <2>3, <2>4, <2>5, <2>6, <2>7, <2>8, TypeInit, ExclusionInit
<1>2. Inv /\ [Next]_vars => Inv'
  <2> SUFFICES ASSUME Inv, [Next]_vars PROVE Inv'
    OBVIOUS
  <2>1. TypeOK' /\ Exclusion'
    BY TypeStep, ExclusionStep
  <2>2. IdentityInv' /\ GrowInv' /\ MarkInv'
    BY IdentityStep, GrowStep, MarkStep
  <2>3. IdInv' /\ Apart'
    BY IdStep, ApartStep
  <2>4. NothingDangles' /\ MoveInv'
    BY DanglesStep, MoveStep
  <2> QED
    BY <2>1, <2>2, <2>3, <2>4
<1>3. Inv /\ [Next]_vars => [MoveStepOK]_vars
  BY MovesExplained
<1>4. EdgesMoveOnlyInMerges <=> [][MoveStepOK]_vars
  BY DEF EdgesMoveOnlyInMerges, MoveStepOK, Explained
<1> QED
  BY <1>1, <1>2, <1>3, <1>4, PTL DEF Spec
=============================================================================
