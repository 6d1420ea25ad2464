----------------------------- MODULE GraphModel -----------------------------
(***************************************************************************)
(* The data of a smrti store and the effect of one event on it.            *)
(*                                                                         *)
(* A database is a record of three tables (nodes, edges, embeddings), each *)
(* a total function from row identities to rows, with NoRow where the      *)
(* table holds none.  Projecting an event runs SQL statements; a statement *)
(* is described by the rows it writes in a given view of the database, by  *)
(* the value it leaves in each of them, and by whether a constraint of the *)
(* schema rejects it.  Everything here is pure: who runs the statements,   *)
(* and when, is the business of EventStore and SerialStore.                *)
(*                                                                         *)
(* Columns are kept only when a statement or a constraint tells them       *)
(* apart: the four caller-supplied columns of a node (content, node_type,  *)
(* content_type, metadata) are a function on NodeFields, those of an edge  *)
(* that can be updated (metadata, valid_to) a function on EdgeFields.  The *)
(* valid_from of an edge is what the caller gives, or else NOW().          *)
(***************************************************************************)
EXTENDS Integers, Sequences, FiniteSets

CONSTANTS
  NodeIds,          \* the UUIDs a node may get
  EdgeIds,          \* the UUIDs an edge may get
  Namespaces,
  DefaultNamespace, \* SmrtiConfig.default_namespace
  Keys,             \* node_key values
  NodeFields,       \* the updatable columns of nodes
  EdgeFields,       \* the updatable columns of edges
  Values,           \* what such a column may hold
  Times,            \* the instants of valid_from and of NOW()
  Models,           \* embedding model names
  Vectors,          \* embedding vectors
  EmptyVector,      \* the embedding [] that project_embedding_stored refuses
  NoKey,            \* node_key IS NULL
  NoTime,           \* an event gives no valid_from
  NoRow             \* the table has no row under this identity

-----------------------------------------------------------------------------
(* Rows and tables.                                                         *)

NodeAttrs == [NodeFields -> Values]
EdgeAttrs == [EdgeFields -> Values]

NodeRow == [ns: Namespaces, key: Keys \cup {NoKey}, attrs: NodeAttrs,
            retracted: BOOLEAN]

EdgeRow == [ns: Namespaces, source: NodeIds, target: NodeIds,
            attrs: EdgeAttrs, valid_from: Times, retracted: BOOLEAN]

Db == [nodes: [NodeIds -> NodeRow \cup {NoRow}],
       edges: [EdgeIds -> EdgeRow \cup {NoRow}],
       embeddings: [NodeIds \X Models -> Vectors \cup {NoRow}]]

ASSUME GraphAssumption ==
  /\ IsFiniteSet(EdgeIds)
  /\ DefaultNamespace \in Namespaces
  /\ NoKey \notin Keys
  /\ NoTime \notin Times
  /\ EmptyVector \notin Vectors
  /\ NoRow \notin NodeRow \cup EdgeRow \cup Vectors

EmptyDb == [nodes |-> [n \in NodeIds |-> NoRow],
            edges |-> [e \in EdgeIds |-> NoRow],
            embeddings |-> [m \in NodeIds \X Models |-> NoRow]]

\* The table base, with the rows of delta in place of its own.
Overlay(base, delta) ==
  [k \in DOMAIN base |-> IF delta[k] = NoRow THEN base[k] ELSE delta[k]]

\* What a transaction that has written delta sees on top of db.
OverlayDb(db, delta) ==
  [nodes |-> Overlay(db.nodes, delta.nodes),
   edges |-> Overlay(db.edges, delta.edges),
   embeddings |-> Overlay(db.embeddings, delta.embeddings)]

-----------------------------------------------------------------------------
(* Events.  The payload of an update names only the fields to change.       *)

Patch(fields) == UNION {[chosen -> Values] : chosen \in SUBSET fields}

NodeCreated == [type: {"NODE_CREATED"}, ns: Namespaces, id: NodeIds,
                key: Keys \cup {NoKey}, attrs: NodeAttrs]
NodeUpdated == [type: {"NODE_UPDATED"}, ns: Namespaces, id: NodeIds,
                patch: Patch(NodeFields)]
NodeRetracted == [type: {"NODE_RETRACTED"}, ns: Namespaces, id: NodeIds]
EdgeAdded == [type: {"EDGE_ADDED"}, ns: Namespaces, id: EdgeIds,
              source: NodeIds, target: NodeIds, attrs: EdgeAttrs,
              valid_from: Times \cup {NoTime}]
EdgeUpdated == [type: {"EDGE_UPDATED"}, ns: Namespaces, id: EdgeIds,
                patch: Patch(EdgeFields)]
EdgeRetracted == [type: {"EDGE_RETRACTED"}, ns: Namespaces, id: EdgeIds]
EmbeddingStored == [type: {"EMBEDDING_STORED"}, ns: Namespaces, node: NodeIds,
                    model: Models, vector: Vectors \cup {EmptyVector}]
RawInputReceived == [type: {"RAW_INPUT_RECEIVED"}, ns: Namespaces]
NodesMerged == [type: {"NODES_MERGED"}, ns: Namespaces, kept: NodeIds,
                removed: NodeIds]

Event == NodeCreated \cup NodeUpdated \cup NodeRetracted
         \cup EdgeAdded \cup EdgeUpdated \cup EdgeRetracted
         \cup EmbeddingStored \cup RawInputReceived \cup NodesMerged

-----------------------------------------------------------------------------
(* Statements.  An event whose projection is a single statement stands for  *)
(* that statement; the merge runs three.  REMAP_ statements are UPDATEs of  *)
(* every edge that leaves (enters) a node; a transaction runs one as a scan *)
(* followed by one MOVE_ statement per edge the scan found (see EventStore).*)
(* A statement that adds an edge knows the valid_from it writes.            *)

Remap == [type: {"REMAP_SOURCE", "REMAP_TARGET"}, from: NodeIds, to: NodeIds]
Move == [type: {"MOVE_SOURCE", "MOVE_TARGET"}, id: EdgeIds, from: NodeIds,
         to: NodeIds]

Statement == {event \in Event : event.type = "EDGE_ADDED" => event.valid_from # NoTime}
             \cup Remap \cup Move

\* Mutant: the valid_from an event gives is not used.
AtNow(event, now) ==
  IF event.type = "EDGE_ADDED" THEN [event EXCEPT !.valid_from = now] ELSE event

\* COALESCE(valid_from, NOW()) in a transaction that began at the instant now:
\* the row of an edge is not a function of its event alone.
At(event, now) ==
  IF event.type = "EDGE_ADDED" /\ event.valid_from = NoTime
  THEN [event EXCEPT !.valid_from = now] ELSE event

\* Mutant: a merge that forgets to retract the node it removes.
StatementsKeepRemoved(event) ==
  CASE event.type = "NODES_MERGED" ->
         << [type |-> "REMAP_SOURCE", from |-> event.removed, to |-> event.kept],
            [type |-> "REMAP_TARGET", from |-> event.removed, to |-> event.kept] >>
    [] event.type = "RAW_INPUT_RECEIVED" -> << >>
    [] OTHER -> << event >>

\* apply_projection: the statements an event runs, in order, once its times
\* are known.
Statements(event) ==
  CASE event.type = "NODES_MERGED" ->
         << [type |-> "REMAP_SOURCE", from |-> event.removed, to |-> event.kept],
            [type |-> "REMAP_TARGET", from |-> event.removed, to |-> event.kept],
            [type |-> "NODE_RETRACTED", ns |-> event.ns, id |-> event.removed] >>
    [] event.type = "RAW_INPUT_RECEIVED" -> << >>
    [] OTHER -> << event >>

-----------------------------------------------------------------------------
(* The rows a statement writes.                                             *)

\* The rows under the unique index (namespace, node_key) WHERE node_key IS
\* NOT NULL that the row of s would collide with.
KeyHolders(nodes, s) ==
  {n \in NodeIds : /\ s.key # NoKey
                   /\ nodes[n] # NoRow
                   /\ nodes[n].ns = s.ns
                   /\ nodes[n].key = s.key}

\* Mutant: the unique index or the ON CONFLICT clause is gone.
NodesWrittenWithoutIndex(nodes, s) ==
  {n \in NodeIds :
     \/ s.type = "NODE_CREATED" /\ n = s.id
     \/ /\ s.type \in {"NODE_UPDATED", "NODE_RETRACTED"}
        /\ n = s.id
        /\ nodes[n] # NoRow}

\* INSERT ... ON CONFLICT (namespace, node_key) DO UPDATE writes the row that
\* holds the key, under its own identity, or else a new row under the id of
\* the payload; the updates write the row they name, if it is there.
NodesWritten(nodes, s) ==
  {n \in NodeIds :
     \/ /\ s.type = "NODE_CREATED"
        /\ IF KeyHolders(nodes, s) = {} THEN n = s.id
                                        ELSE n \in KeyHolders(nodes, s)
     \/ /\ s.type \in {"NODE_UPDATED", "NODE_RETRACTED"}
        /\ n = s.id
        /\ nodes[n] # NoRow}

\* The WHERE clauses of the two UPDATEs of a merge.
Remapped(edges, e, s) ==
  \/ /\ s.type \in {"REMAP_SOURCE", "MOVE_SOURCE"}
     /\ s.type = "MOVE_SOURCE" => e = s.id
     /\ edges[e] # NoRow
     /\ edges[e].source = s.from
  \/ /\ s.type \in {"REMAP_TARGET", "MOVE_TARGET"}
     /\ s.type = "MOVE_TARGET" => e = s.id
     /\ edges[e] # NoRow
     /\ edges[e].target = s.from

EdgesWritten(edges, s) ==
  {e \in EdgeIds :
     \/ s.type = "EDGE_ADDED" /\ e = s.id
     \/ /\ s.type \in {"EDGE_UPDATED", "EDGE_RETRACTED"}
        /\ e = s.id
        /\ edges[e] # NoRow
     \/ Remapped(edges, e, s)}

EmbeddingsWritten(s) ==
  {m \in NodeIds \X Models :
     s.type = "EMBEDDING_STORED" /\ m = <<s.node, s.model>>}

-----------------------------------------------------------------------------
(* The value a statement leaves in a row that held old.                     *)

Patched(attrs, patch) ==
  [f \in DOMAIN attrs |-> IF f \in DOMAIN patch THEN patch[f] ELSE attrs[f]]

\* Mutant: an upsert that replaces the row, its is_retracted included.
NodeAfterReplacing(old, s) ==
  CASE s.type = "NODE_CREATED" ->
         [ns |-> s.ns, key |-> s.key, attrs |-> s.attrs, retracted |-> FALSE]
    [] s.type = "NODE_UPDATED" -> [old EXCEPT !.attrs = Patched(@, s.patch)]
    [] s.type = "NODE_RETRACTED" -> [old EXCEPT !.retracted = TRUE]

\* The upsert overwrites the four caller-supplied columns and nothing else:
\* id, namespace, node_key and is_retracted keep what they were.
NodeAfter(old, s) ==
  CASE s.type = "NODE_CREATED" /\ old = NoRow ->
         [ns |-> s.ns, key |-> s.key, attrs |-> s.attrs, retracted |-> FALSE]
    [] s.type = "NODE_CREATED" /\ old # NoRow -> [old EXCEPT !.attrs = s.attrs]
    [] s.type = "NODE_UPDATED" -> [old EXCEPT !.attrs = Patched(@, s.patch)]
    [] s.type = "NODE_RETRACTED" -> [old EXCEPT !.retracted = TRUE]

EdgeAfter(old, s) ==
  CASE s.type = "EDGE_ADDED" ->
         [ns |-> s.ns, source |-> s.source, target |-> s.target,
          attrs |-> s.attrs, valid_from |-> s.valid_from, retracted |-> FALSE]
    [] s.type = "EDGE_UPDATED" -> [old EXCEPT !.attrs = Patched(@, s.patch)]
    [] s.type = "EDGE_RETRACTED" -> [old EXCEPT !.retracted = TRUE]
    [] s.type \in {"REMAP_SOURCE", "MOVE_SOURCE"} -> [old EXCEPT !.source = s.to]
    [] s.type \in {"REMAP_TARGET", "MOVE_TARGET"} -> [old EXCEPT !.target = s.to]

-----------------------------------------------------------------------------
(* Constraints.                                                             *)

\* Mutant: the check for an empty embedding is missing.
RejectedNotEmpty(db, s) ==
  \/ /\ s.type = "NODE_CREATED"
     /\ KeyHolders(db.nodes, s) = {}
     /\ db.nodes[s.id] # NoRow
  \/ /\ s.type = "EDGE_ADDED"
     /\ \/ db.edges[s.id] # NoRow
        \/ db.nodes[s.source] = NoRow
        \/ db.nodes[s.target] = NoRow
  \/ s.type = "EMBEDDING_STORED" /\ db.nodes[s.node] = NoRow

\* Mutant: the schema has no foreign keys.
RejectedNoForeignKey(db, s) ==
  \/ /\ s.type = "NODE_CREATED"
     /\ KeyHolders(db.nodes, s) = {}
     /\ db.nodes[s.id] # NoRow
  \/ s.type = "EDGE_ADDED" /\ db.edges[s.id] # NoRow
  \/ s.type = "EMBEDDING_STORED" /\ s.vector = EmptyVector

\* A primary key, a foreign key or a check of the provider refuses s: the
\* statement raises an error and the transaction it runs in rolls back.
Rejected(db, s) ==
  \/ /\ s.type = "NODE_CREATED"
     /\ KeyHolders(db.nodes, s) = {}
     /\ db.nodes[s.id] # NoRow
  \/ /\ s.type = "EDGE_ADDED"
     /\ \/ db.edges[s.id] # NoRow
        \/ db.nodes[s.source] = NoRow
        \/ db.nodes[s.target] = NoRow
  \/ /\ s.type = "EMBEDDING_STORED"
     /\ s.vector = EmptyVector \/ db.nodes[s.node] = NoRow
  \/ /\ s.type \in {"REMAP_SOURCE", "REMAP_TARGET", "MOVE_SOURCE", "MOVE_TARGET"}
     /\ EdgesWritten(db.edges, s) # {}
     /\ db.nodes[s.to] = NoRow

-----------------------------------------------------------------------------
(* Running a statement.                                                     *)

\* The tables of base with the rows that s, run in view, writes.
Write(view, base, s) ==
  [nodes |-> [n \in NodeIds |-> IF n \in NodesWritten(view.nodes, s)
                                THEN NodeAfter(view.nodes[n], s)
                                ELSE base.nodes[n]],
   edges |-> [e \in EdgeIds |-> IF e \in EdgesWritten(view.edges, s)
                                THEN EdgeAfter(view.edges[e], s)
                                ELSE base.edges[e]],
   embeddings |-> [m \in NodeIds \X Models |->
                     IF m \in EmbeddingsWritten(s) THEN s.vector
                                                   ELSE base.embeddings[m]]]

\* The database after s ran alone in it.
Effect(db, s) == Write(db, db, s)
=============================================================================
