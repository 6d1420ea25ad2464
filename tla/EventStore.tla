----------------------------- MODULE EventStore -----------------------------
(***************************************************************************)
(* The write path of smrti: clients call the mutating operations of Memory,*)
(* each call hands a batch of events to apply_event or apply_events_batch, *)
(* and the provider runs the batch in one READ COMMITTED transaction.      *)
(*                                                                         *)
(* A transaction works event by event: it inserts the event in the log,    *)
(* which draws an id from the sequence (the sequence is not transactional, *)
(* an id drawn is never drawn again), and then runs the statements of the  *)
(* projection.  A statement sees what is committed when it runs, and what  *)
(* its own transaction wrote.  The rows a transaction wrote stay locked    *)
(* until it ends: a statement that needs one of them waits.                *)
(*                                                                         *)
(* A statement that waits is modelled as one that has not started, so it   *)
(* sees what is committed when it gets its locks; that is what PostgreSQL  *)
(* does with the one row an INSERT or an UPDATE by id is after.  The two   *)
(* UPDATEs of a merge are after many rows: they scan first (Scan) and then *)
(* lock, re-check and write row by row (Execute).                          *)
(***************************************************************************)
EXTENDS GraphModel, SequencesExt

CONSTANTS
  Clients,      \* tasks that share one store, each running one call at a time
  Ops,          \* the operations they call
  NodeInputs,   \* the nodes a caller passes to add_nodes
  NodePatches,  \* the fields a caller passes to update_node
  EdgeInputs,   \* the metadata, valid_to and valid_from passed to add_edges
  EdgePatches,  \* the fields of an EDGE_UPDATED event
  MaxBatch,     \* bound: items in one add_nodes or add_edges
  MaxCalls      \* bound: calls in one behaviour

VARIABLES
  seq,    \* the last id drawn from the BIGSERIAL sequence of events
  log,    \* the committed rows of events
  db,     \* the committed rows of nodes, edges and node_embeddings
  tx,     \* per client: its call and the transaction of that call
  known,  \* the identities that some call has returned
  calls   \* the number of calls made so far

vars == <<seq, log, db, tx, known, calls>>

OpNames == {"add_nodes", "add_edges", "update_node", "retract_node",
            "retract_edge", "merge_nodes", "apply_event"}

\* An element of nodes in add_nodes; vector is NoRow when it has no embedding.
NodeInput == [key: Keys \cup {NoKey}, attrs: NodeAttrs, model: Models,
              vector: Vectors \cup {EmptyVector, NoRow}]

EdgeInput == [attrs: EdgeAttrs, valid_from: Times \cup {NoTime}]

ASSUME EventStoreAssumption ==
  /\ Ops \subseteq OpNames
  /\ NodeInputs \subseteq NodeInput
  /\ NodePatches \subseteq Patch(NodeFields)
  /\ EdgeInputs \subseteq EdgeInput
  /\ EdgePatches \subseteq Patch(EdgeFields)
  /\ MaxBatch \in Nat \ {0}
  /\ MaxCalls \in Nat

LogRow == [id: Nat \ {0}, event: Event]

(***************************************************************************)
(* The state of a client.                                                  *)
(*   phase  idle; building the batch of add_nodes or add_edges; or open: in *)
(*          a transaction                                                   *)
(*   now    NOW(), the instant at which the transaction began               *)
(*   batch  the events of the call, pos of them logged                      *)
(*   todo   the statements left of the event logged last                    *)
(*   drawn  the UUIDs generated for the call                                *)
(*   rows   what the transaction appended to the log                        *)
(*   delta  the rows the transaction wrote, which it holds locked           *)
(***************************************************************************)
Phases == {"idle", "nodes", "edges", "open"}

Tx == [phase: Phases, now: Times \cup {NoTime}, batch: Seq(Event), pos: Nat,
       todo: Seq(Statement), drawn: SUBSET (NodeIds \cup EdgeIds),
       rows: SUBSET LogRow, delta: Db]

Idle == [phase |-> "idle", now |-> NoTime, batch |-> << >>, pos |-> 0,
         todo |-> << >>, drawn |-> {}, rows |-> {}, delta |-> EmptyDb]

View(c) == OverlayDb(db, tx[c].delta)

Init == /\ seq = 0
        /\ log = {}
        /\ db = EmptyDb
        /\ tx = [c \in Clients |-> Idle]
        /\ known = {}
        /\ calls = 0

-----------------------------------------------------------------------------
(* Calls of Memory.                                                         *)

Fresh(id) == id \notin known /\ \A c \in Clients : id \notin tx[c].drawn

KnownNodes == known \cap NodeIds
KnownEdges == known \cap EdgeIds

\* The client hands batch to the provider, which opens a transaction.
Call(c, op, batch) ==
  /\ op \in Ops
  /\ tx[c].phase = "idle"
  /\ calls < MaxCalls
  /\ calls' = calls + 1
  /\ tx' = [tx EXCEPT ![c] = [Idle EXCEPT !.phase = "open", !.batch = batch]]
  /\ UNCHANGED <<seq, log, db, known>>

\* One round of the loop in which add_nodes and add_edges draw a UUID for
\* each item and collect the events of the batch; the first starts the call.
\* All events of a batch carry the namespace of the call.
Collect(c, op, phase, ns, id, events) ==
  /\ op \in Ops
  /\ \/ /\ tx[c].phase = "idle"
        /\ calls < MaxCalls
        /\ calls' = calls + 1
     \/ /\ tx[c].phase = phase
        /\ Cardinality(tx[c].drawn) < MaxBatch
        /\ tx[c].batch[1].ns = ns
        /\ UNCHANGED calls
  /\ Fresh(id)
  /\ tx' = [tx EXCEPT ![c].phase = phase,
                      ![c].batch = @ \o events,
                      ![c].drawn = @ \cup {id}]
  /\ UNCHANGED <<seq, log, db, known>>

\* The events add_nodes makes of one node: its embedding follows it.
NodeEvents(ns, id, node) ==
  << [type |-> "NODE_CREATED", ns |-> ns, id |-> id, key |-> node.key,
      attrs |-> node.attrs] >>
  \o IF node.vector = NoRow THEN << >>
     ELSE << [type |-> "EMBEDDING_STORED", ns |-> ns, node |-> id,
              model |-> node.model, vector |-> node.vector] >>

AddNodes(c) ==
  \E ns \in Namespaces, id \in NodeIds, node \in NodeInputs :
    Collect(c, "add_nodes", "nodes", ns, id, NodeEvents(ns, id, node))

AddEdges(c) ==
  \E ns \in Namespaces, id \in EdgeIds, edge \in EdgeInputs,
     source \in KnownNodes, target \in KnownNodes :
    Collect(c, "add_edges", "edges", ns, id,
            << [type |-> "EDGE_ADDED", ns |-> ns, id |-> id, source |-> source,
                target |-> target, attrs |-> edge.attrs,
                valid_from |-> edge.valid_from] >>)

\* update_node looks the node up first (NodeNotFound otherwise).  The row may
\* be gone when the statement runs (see Purge): it then updates nothing.
UpdateNode(c) ==
  \E id \in KnownNodes, patch \in NodePatches :
    /\ db.nodes[id] # NoRow
    /\ Call(c, "update_node",
            << [type |-> "NODE_UPDATED", ns |-> DefaultNamespace, id |-> id,
                patch |-> patch] >>)

RetractNode(c) ==
  \E id \in KnownNodes :
    Call(c, "retract_node",
         << [type |-> "NODE_RETRACTED", ns |-> DefaultNamespace, id |-> id] >>)

RetractEdge(c) ==
  \E id \in KnownEdges :
    Call(c, "retract_edge",
         << [type |-> "EDGE_RETRACTED", ns |-> DefaultNamespace, id |-> id] >>)

MergeNodes(c) ==
  \E kept \in KnownNodes, removed \in KnownNodes :
    Call(c, "merge_nodes",
         << [type |-> "NODES_MERGED", ns |-> DefaultNamespace, kept |-> kept,
             removed |-> removed] >>)

\* Events that no method of Memory builds and users of the provider apply.
ApplyEvent(c) ==
  \E ns \in Namespaces :
    \/ \E id \in KnownEdges, patch \in EdgePatches :
         Call(c, "apply_event", << [type |-> "EDGE_UPDATED", ns |-> ns,
                                    id |-> id, patch |-> patch] >>)
    \/ \E node \in KnownNodes, model \in Models,
          vector \in Vectors \cup {EmptyVector} :
         Call(c, "apply_event", << [type |-> "EMBEDDING_STORED", ns |-> ns,
                                    node |-> node, model |-> model,
                                    vector |-> vector] >>)
    \/ Call(c, "apply_event", << [type |-> "RAW_INPUT_RECEIVED", ns |-> ns] >>)

-----------------------------------------------------------------------------
(* Steps of a transaction.                                                  *)

RemapTypes == {"REMAP_SOURCE", "REMAP_TARGET"}

\* Client c is about to run statement s.
Running(c, s) == /\ tx[c].phase = "open"
                 /\ tx[c].todo # << >>
                 /\ s = Head(tx[c].todo)

\* Statement s of client c needs a row, or a (namespace, node_key), that the
\* transaction of d has written and still holds.
Holds(d, c, s) ==
  /\ d # c
  /\ \/ \E n \in NodesWritten(View(c).nodes, s) : tx[d].delta.nodes[n] # NoRow
     \/ s.type = "NODE_CREATED" /\ KeyHolders(tx[d].delta.nodes, s) # {}
     \/ \E e \in EdgesWritten(View(c).edges, s) : tx[d].delta.edges[e] # NoRow
     \/ /\ s.type \in {"MOVE_SOURCE", "MOVE_TARGET"}
        /\ tx[d].delta.edges[s.id] # NoRow
     \/ \E m \in EmbeddingsWritten(s) : tx[d].delta.embeddings[m] # NoRow

\* s is a statement that locks rows, and c can have those it needs.
Granted(c, s) == /\ s.type \notin RemapTypes
                 /\ \A d \in Clients : ~Holds(d, c, s)

WaitsFor(c, d) == /\ tx[c].phase = "open"
                  /\ tx[c].todo # << >>
                  /\ Head(tx[c].todo).type \notin RemapTypes
                  /\ Holds(d, c, Head(tx[c].todo))

\* NOW() is the same for all statements of a transaction.
Instants(c) == IF tx[c].now = NoTime THEN Times ELSE {tx[c].now}

\* Mutant: ids are taken from the committed log instead of the sequence.
InsertEventMaxId(c) ==
  /\ tx[c].phase # "idle"
  /\ tx[c].todo = << >>
  /\ tx[c].pos < Len(tx[c].batch)
  /\ \E now \in Instants(c) :
       LET event == tx[c].batch[tx[c].pos + 1]
           id == Max({0} \cup {r.id : r \in log \cup tx[c].rows}) + 1
       IN /\ seq' = seq + 1
          /\ tx' = [tx EXCEPT ![c].phase = "open",
                              ![c].now = now,
                              ![c].pos = @ + 1,
                              ![c].todo = Statements(At(event, now)),
                              ![c].rows = @ \cup {[id |-> id, event |-> event]}]
  /\ UNCHANGED <<log, db, known, calls>>

\* insert_event_row: the first event of a batch opens the transaction, which
\* fixes its NOW(); the payload is logged as it is.
InsertEvent(c) ==
  /\ tx[c].phase # "idle"
  /\ tx[c].todo = << >>
  /\ tx[c].pos < Len(tx[c].batch)
  /\ \E now \in Instants(c) :
       LET event == tx[c].batch[tx[c].pos + 1] IN
       /\ seq' = seq + 1
       /\ tx' = [tx EXCEPT ![c].phase = "open",
                           ![c].now = now,
                           ![c].pos = @ + 1,
                           ![c].todo = Statements(At(event, now)),
                           ![c].rows = @ \cup {[id |-> seq + 1, event |-> event]}]
  /\ UNCHANGED <<log, db, known, calls>>

\* The orders in which a scan may meet the rows of a set.
Orders(set) == {f \in [1..Cardinality(set) -> set] : \A x \in set :
                  \E i \in 1..Cardinality(set) : f[i] = x}

\* An UPDATE over the edges of a node finds the rows it is going to move.
Scan(c) ==
  /\ tx[c].todo # << >>
  /\ LET s == Head(tx[c].todo)
         move == IF s.type = "REMAP_SOURCE" THEN "MOVE_SOURCE" ELSE "MOVE_TARGET"
     IN /\ Running(c, s)
        /\ s.type \in RemapTypes
        /\ \E order \in Orders(EdgesWritten(View(c).edges, s)) :
             tx' = [tx EXCEPT ![c].todo =
                      [i \in DOMAIN order |-> [type |-> move, id |-> order[i],
                                               from |-> s.from, to |-> s.to]]
                      \o Tail(@)]
  /\ UNCHANGED <<seq, log, db, known, calls>>

\* A statement gets its locks and writes its rows.
Execute(c) ==
  /\ tx[c].todo # << >>
  /\ LET s == Head(tx[c].todo) IN
       /\ Running(c, s)
       /\ Granted(c, s)
       /\ ~Rejected(View(c), s)
       /\ tx' = [tx EXCEPT ![c].todo = Tail(@),
                           ![c].delta = Write(View(c), @, s)]
  /\ UNCHANGED <<seq, log, db, known, calls>>

\* Mutant: the projection is committed and the log row is lost.
CommitGraphOnly(c) ==
  /\ tx[c].phase = "open"
  /\ tx[c].todo = << >>
  /\ tx[c].pos = Len(tx[c].batch)
  /\ db' = View(c)
  /\ known' = known \cup tx[c].drawn
  /\ tx' = [tx EXCEPT ![c] = Idle]
  /\ UNCHANGED <<seq, log, calls>>

\* Mutant: the batch may end after any of its events, as with the default
\* apply_events_batch of the trait, which has no transaction.
CommitPrefix(c) ==
  /\ tx[c].phase = "open"
  /\ tx[c].todo = << >>
  /\ log' = log \cup tx[c].rows
  /\ db' = View(c)
  /\ known' = known \cup tx[c].drawn
  /\ tx' = [tx EXCEPT ![c] = Idle]
  /\ UNCHANGED <<seq, calls>>

\* tx.commit(): rows, log and the answer to the caller appear together.
Commit(c) ==
  /\ tx[c].phase = "open"
  /\ tx[c].todo = << >>
  /\ tx[c].pos = Len(tx[c].batch)
  /\ log' = log \cup tx[c].rows
  /\ db' = View(c)
  /\ known' = known \cup tx[c].drawn
  /\ tx' = [tx EXCEPT ![c] = Idle]
  /\ UNCHANGED <<seq, calls>>

\* Mutant: events are inserted outside the transaction of the projection.
RollbackKeepsLog(c) == /\ tx' = [tx EXCEPT ![c] = Idle]
                       /\ log' = log \cup tx[c].rows
                       /\ UNCHANGED <<seq, db, known, calls>>

Rollback(c) == /\ tx' = [tx EXCEPT ![c] = Idle]
               /\ UNCHANGED <<seq, log, db, known, calls>>

\* A constraint refuses a statement: the ? of the projection returns early
\* and dropping the transaction rolls it back.
Fail(c) ==
  /\ tx[c].todo # << >>
  /\ LET s == Head(tx[c].todo) IN
       Running(c, s) /\ Granted(c, s) /\ Rejected(View(c), s)
  /\ Rollback(c)

\* c is on a cycle of waiting transactions and PostgreSQL aborts it: on such
\* a cycle everybody waits for a member and is waited for by a member.
DeadlockVictim(c) ==
  /\ \E cycle \in SUBSET Clients :
       /\ c \in cycle
       /\ \A d \in cycle : /\ \E b \in cycle : WaitsFor(d, b)
                           /\ \E b \in cycle : WaitsFor(b, d)
  /\ Rollback(c)

\* The task, its process or its connection dies before the commit.
Crash(c) == tx[c].phase # "idle" /\ Rollback(c)

-----------------------------------------------------------------------------

Step(c) == \/ InsertEvent(c) \/ Scan(c) \/ Execute(c) \/ Commit(c)
           \/ Fail(c) \/ DeadlockVictim(c)

Next == \E c \in Clients :
          \/ AddNodes(c) \/ AddEdges(c) \/ UpdateNode(c) \/ RetractNode(c)
          \/ RetractEdge(c) \/ MergeNodes(c) \/ ApplyEvent(c)
          \/ Step(c) \/ Crash(c)

Spec == Init /\ [][Next]_vars

\* A task that is alive is polled and the server answers it: a client that
\* can take a step of its transaction takes one.  Nobody has to call, and
\* nobody has to crash.
FairSpec == Spec /\ \A c \in Clients : WF_vars(Step(c))
-----------------------------------------------------------------------------
(* Properties.                                                              *)

\* Every variable holds what the tables, the log and the clients can hold.
TypeOK ==
  /\ seq \in Nat
  /\ log \in SUBSET LogRow
  /\ db \in Db
  /\ tx \in [Clients -> Tx]
  /\ known \in SUBSET (NodeIds \cup EdgeIds)
  /\ calls \in Nat

\* Ids of the log identify rows, across what is committed and what open
\* transactions are about to commit (events.id PRIMARY KEY).
AllRows == log \cup UNION {tx[c].rows : c \in Clients}

LogIdsUnique ==
  /\ \A r1, r2 \in AllRows : r1.id = r2.id => r1 = r2
  /\ \A c, d \in Clients : c # d => tx[c].rows \cap (log \cup tx[d].rows) = {}

\* At most one node, retracted or not, holds a key of a namespace, whatever
\* upserts race for it; the same holds of what any transaction is building.
KeyIdentifies(nodes) ==
  \A m, n \in NodeIds :
    /\ nodes[m] # NoRow /\ nodes[n] # NoRow
    /\ nodes[m].key # NoKey
    /\ nodes[m].key = nodes[n].key /\ nodes[m].ns = nodes[n].ns
    => m = n

UniqueKeys == KeyIdentifies(db.nodes) /\ \A c \in Clients : KeyIdentifies(View(c).nodes)

\* Every edge has both its nodes and every embedding its node, however the
\* projections of edges, embeddings and merges interleave with the rest.
Anchored(d) ==
  /\ \A e \in EdgeIds : d.edges[e] # NoRow =>
       d.nodes[d.edges[e].source] # NoRow /\ d.nodes[d.edges[e].target] # NoRow
  /\ \A m \in NodeIds \X Models :
       d.embeddings[m] # NoRow => d.nodes[m[1]] # NoRow

NothingDangles == Anchored(db) /\ \A c \in Clients : Anchored(View(c))

\* Log and graph are in step, row by row, at every commit (docs/decisions.md
\* D29): each row was put there, in its namespace, under its key and between
\* its nodes, by a committed event; a committed event wrote what each of its
\* columns holds, retracted it or took its node away, if that happened; and
\* each committed event has left its mark, which no later event takes away.
Creates(event, id, row) == /\ event.type = "NODE_CREATED" /\ event.id = id
                           /\ event.ns = row.ns /\ event.key = row.key

Merges(event, id) == event.type = "NODES_MERGED" /\ event.removed = id

Adds(event, id, row, rows) ==
  /\ event.type = "EDGE_ADDED" /\ event.id = id
  /\ event.ns = row.ns
  /\ event.valid_from \in {NoTime, row.valid_from}
  /\ event.source # row.source => \E r \in rows : Merges(r.event, event.source)
  /\ event.target # row.target => \E r \in rows : Merges(r.event, event.target)

RetractsNode(event, id) ==
  \/ event.type = "NODE_RETRACTED" /\ event.id = id
  \/ Merges(event, id)

RetractsEdge(event, id) == event.type = "EDGE_RETRACTED" /\ event.id = id

\* The events that write value in column f of a row.
WritesNode(event, id, row, f, value) ==
  \/ /\ event.type = "NODE_CREATED"
     /\ event.ns = row.ns /\ event.key = row.key
     /\ event.id = id \/ row.key # NoKey
     /\ event.attrs[f] = value
  \/ /\ event.type = "NODE_UPDATED" /\ event.id = id
     /\ f \in DOMAIN event.patch /\ event.patch[f] = value

WritesEdge(event, id, f, value) ==
  \/ /\ event.type = "EDGE_ADDED" /\ event.id = id
     /\ event.attrs[f] = value
  \/ /\ event.type = "EDGE_UPDATED" /\ event.id = id
     /\ f \in DOMAIN event.patch /\ event.patch[f] = value

NodeComesFrom(n, row, rows) ==
  /\ \E r \in rows : Creates(r.event, n, row)
  /\ row.retracted => \E r \in rows : RetractsNode(r.event, n)
  /\ \A f \in NodeFields : \E r \in rows : WritesNode(r.event, n, row, f, row.attrs[f])

EdgeComesFrom(e, row, rows) ==
  /\ \E r \in rows : Adds(r.event, e, row, rows)
  /\ row.retracted => \E r \in rows : RetractsEdge(r.event, e)
  /\ \A f \in EdgeFields : \E r \in rows : WritesEdge(r.event, e, f, row.attrs[f])

VectorComesFrom(m, vector, rows) ==
  \E r \in rows : /\ r.event.type = "EMBEDDING_STORED"
                  /\ <<r.event.node, r.event.model>> = m
                  /\ r.event.vector = vector

RowsComeFrom(d, rows) ==
  /\ \A n \in NodeIds : d.nodes[n] # NoRow => NodeComesFrom(n, d.nodes[n], rows)
  /\ \A e \in EdgeIds : d.edges[e] # NoRow => EdgeComesFrom(e, d.edges[e], rows)
  /\ \A m \in NodeIds \X Models :
       d.embeddings[m] # NoRow => VectorComesFrom(m, d.embeddings[m], rows)

RowsComeFromEvents == RowsComeFrom(db, log)

GoneOrRetracted(table, id) == table[id] = NoRow \/ table[id].retracted

Marked(d, event) ==
  CASE event.type = "NODE_CREATED" ->
         IF event.key = NoKey THEN d.nodes[event.id] # NoRow
                              ELSE KeyHolders(d.nodes, event) # {}
    [] event.type = "EDGE_ADDED" -> d.edges[event.id] # NoRow
    [] event.type = "EMBEDDING_STORED" ->
         d.embeddings[<<event.node, event.model>>] # NoRow
    [] event.type = "NODE_RETRACTED" -> GoneOrRetracted(d.nodes, event.id)
    [] event.type = "NODES_MERGED" -> GoneOrRetracted(d.nodes, event.removed)
    [] event.type = "EDGE_RETRACTED" -> GoneOrRetracted(d.edges, event.id)
    [] OTHER -> TRUE

EventsLeaveMarks == \A r \in log : Marked(db, r.event)

\* A merge is all or nothing, also for readers and for merges that race with
\* it: an edge leaves a node only in the commit of a merge that names it, and
\* the node it leaves is retracted once that commit is visible.
EdgesMoveOnlyInMerges ==
  [][\A e \in EdgeIds :
       db.edges[e] # NoRow =>
         \A old, new \in NodeIds :
           \/ db.edges[e].source = old /\ db'.edges[e].source = new
           \/ db.edges[e].target = old /\ db'.edges[e].target = new
           => \/ old = new
              \/ /\ db'.nodes[old].retracted
                 /\ \E r \in log' \ log : /\ r.event.type = "NODES_MERGED"
                                          /\ r.event.removed = old
                                          /\ r.event.kept = new]_vars

\* No call brings back a retracted row, not even an upsert on its key.
RetractionIsFinal ==
  [][/\ \A n \in NodeIds : db.nodes[n] # NoRow /\ db.nodes[n].retracted =>
          db'.nodes[n] # NoRow /\ db'.nodes[n].retracted
     /\ \A e \in EdgeIds : db.edges[e] # NoRow /\ db.edges[e].retracted =>
          db'.edges[e] # NoRow /\ db'.edges[e].retracted]_vars

\* Calls whose statements write single rows behave as if each ran alone, at
\* the instant of its commit.  (Two merges that race do not: see README.)
Serial == INSTANCE SerialStore WITH
            pending <- [c \in Clients |->
                          IF tx[c].phase = "open" THEN tx[c].batch ELSE << >>]

CallsAreAtomic == Serial!Spec

InIdOrder(rows) ==
  LET upTo[id \in 0 .. seq] ==
        IF id = 0 THEN << >>
        ELSE IF \E r \in rows : r.id = id
             THEN Append(upTo[id - 1], CHOOSE r \in rows : r.id = id)
             ELSE upTo[id - 1]
  IN upTo[seq]

Replay(now) ==
  LET rows == InIdOrder(log)
      statements == FlattenSeq([i \in DOMAIN rows |->
                                  Statements(At(rows[i].event, now[rows[i].id]))])
  IN FoldLeft(Effect, EmptyDb, statements)

\* The graph is what replaying the log in the order of its ids gives, at some
\* instants at least (docs/decisions.md D5 and D23).  Fails: ids are drawn
\* before rows are waited for, so their order is not that of the commits.
ReplayRebuilds == \E now \in [{r.id : r \in log} -> Times] : db = Replay(now)

\* add_nodes with an embedding gets through whether or not its key is taken.
UpsertTakesEmbedding ==
  \A c \in Clients : \A node \in tx[c].drawn \cap NodeIds :
    ~ \E s \in EmbeddingStored :
        Running(c, s) /\ s.node = node /\ s.vector # EmptyVector /\ Rejected(View(c), s)

\* Whoever starts a call gets an answer or an error, however calls contend
\* for rows and even when they deadlock.
CallsReturn == \A c \in Clients : tx[c].phase # "idle" ~> tx[c].phase = "idle"
=============================================================================
