--------------------------- MODULE EmbeddingIndex ---------------------------
(***************************************************************************)
(* The DDL inside a write: after the INSERT of an embedding,               *)
(* ensure_hnsw_index makes the HNSW index of its model and dimension in the*)
(* same transaction, unless smrti_meta says it has been made.              *)
(*                                                                         *)
(* The INSERT takes a ROW EXCLUSIVE lock on node_embeddings, before it     *)
(* waits for any row, and CREATE INDEX a SHARE lock; the two conflict      *)
(* between transactions and both are held until the transaction ends.  So  *)
(* transactions wait for each other's rows and for each other's table      *)
(* locks, and deadlock on any mixture of the two.                          *)
(*                                                                         *)
(* The index is on embedding::vector(dim) WHERE model_name = model: while  *)
(* it exists a row of that model with another dimension is an error, and   *)
(* it cannot be made while there is such a row.                            *)
(***************************************************************************)
EXTENDS EventStore

CONSTANTS
  Dim,         \* the dimension of a vector
  SafeModels,  \* the model names that is_safe_identifier accepts
  IndexName    \* per model and dimension, as sanitized and cut to 63 bytes

ASSUME IndexAssumption ==
  /\ Dim \in [Vectors -> Nat \ {0}]
  /\ SafeModels \subseteq Models
  /\ DOMAIN IndexName = Models \X {Dim[v] : v \in Vectors}
  /\ NoRow \notin Models \X Nat

VARIABLES
  meta,     \* the committed hnsw_index: rows of smrti_meta, as <<model, dim>>
  indexes,  \* the committed HNSW indexes
  ddl       \* per client: what its transaction holds and has made

indexVars == <<meta, indexes, ddl>>
allVars == <<vars, indexVars>>

Index(model, dim) == [name |-> IndexName[<<model, dim>>], model |-> model, dim |-> dim]

Pairs == Models \X {Dim[v] : v \in Vectors}
Indexes == {Index(p[1], p[2]) : p \in Pairs}

\* lock   on node_embeddings: none, row (ROW EXCLUSIVE) or share (SHARE too)
\* due    the <<model, dim>> that ensure_hnsw_index is at, or NoRow
\* create it has found no row in smrti_meta and runs CREATE INDEX
Ddl == [lock: {"none", "row", "share"}, due: Pairs \cup {NoRow}, create: BOOLEAN,
        meta: SUBSET Pairs, indexes: SUBSET Indexes]

NoDdl == [lock |-> "none", due |-> NoRow, create |-> FALSE, meta |-> {}, indexes |-> {}]

IndexInit == /\ Init
             /\ meta = {}
             /\ indexes = {}
             /\ ddl = [c \in Clients |-> NoDdl]
-----------------------------------------------------------------------------
(* Waiting.                                                                 *)

\* The projection of c is about to run its next statement, and it is s.
NextStatement(c, s) == Running(c, s) /\ ddl[c].due = NoRow

Embeds(c) == /\ tx[c].todo # << >>
             /\ NextStatement(c, Head(tx[c].todo))
             /\ Head(tx[c].todo).type = "EMBEDDING_STORED"

\* c wants a lock on node_embeddings that conflicts with one of d.
TableWaitsFor(c, d) ==
  /\ d # c
  /\ \/ Embeds(c) /\ ddl[c].lock = "none" /\ ddl[d].lock = "share"
     \/ ddl[c].create /\ ddl[d].lock # "none"

\* Mutant: only waiting for rows is seen by the deadlock detection.
WaitsForRowsOnly(c, d) == ddl[c].due = NoRow /\ WaitsFor(c, d)

Awaits(c, d) ==
  \/ TableWaitsFor(c, d)
  \/ ddl[c].due = NoRow /\ (Embeds(c) => ddl[c].lock # "none") /\ WaitsFor(c, d)

-----------------------------------------------------------------------------
(* Steps of a transaction.                                                  *)

Releases(c) == /\ ddl' = [ddl EXCEPT ![c] = NoDdl]
               /\ UNCHANGED <<meta, indexes>>

\* The INSERT starts: the lock on the table comes first.
LockTable(c) ==
  /\ Embeds(c)
  /\ Head(tx[c].todo).vector # EmptyVector
  /\ ddl[c].lock = "none"
  /\ \A d \in Clients : ~TableWaitsFor(c, d)
  /\ ddl' = [ddl EXCEPT ![c].lock = "row"]
  /\ UNCHANGED <<vars, meta, indexes>>

\* The indexes a statement of c meets.
Seen(c) == indexes \cup ddl[c].indexes

\* The row goes into every index of its model.
Fits(model, vector, set) ==
  \A i \in set : i.model = model => i.dim = Dim[vector]

\* The INSERT ... ON CONFLICT (node_id, model_name) DO UPDATE.
StoreEmbedding(c) ==
  /\ Embeds(c)
  /\ ddl[c].lock # "none"
  /\ LET s == Head(tx[c].todo) IN
       /\ Execute(c)
       /\ Fits(s.model, s.vector, Seen(c))
       /\ ddl' = [ddl EXCEPT ![c].due = <<s.model, Dim[s.vector]>>]
  /\ UNCHANGED <<meta, indexes>>

Misfit(c) ==
  /\ Embeds(c)
  /\ ddl[c].lock # "none"
  /\ LET s == Head(tx[c].todo) IN
       /\ Granted(c, s)
       /\ ~Rejected(View(c), s)
       /\ ~Fits(s.model, s.vector, Seen(c))
  /\ Rollback(c) /\ Releases(c)

\* ensure_hnsw_index up to its SELECT from smrti_meta.
CheckIndex(c) ==
  /\ ddl[c].due # NoRow
  /\ ~ddl[c].create
  /\ ddl[c].due[1] \in SafeModels
  /\ ddl' = [ddl EXCEPT ![c] = IF @.due \in meta \cup @.meta
                               THEN [@ EXCEPT !.due = NoRow]
                               ELSE [@ EXCEPT !.create = TRUE]]
  /\ UNCHANGED <<vars, meta, indexes>>

Unsafe(c) ==
  /\ ddl[c].due # NoRow
  /\ ddl[c].due[1] \notin SafeModels
  /\ Rollback(c) /\ Releases(c)

NameTaken(c) == \E i \in Seen(c) : i.name = Index(ddl[c].due[1], ddl[c].due[2]).name

\* No row of the model is in the way of the index.
Buildable(c) ==
  \A n \in NodeIds :
    LET vector == View(c).embeddings[<<n, ddl[c].due[1]>>] IN
      vector # NoRow => Dim[vector] = ddl[c].due[2]

\* Mutant: CREATE INDEX does not wait for those who have written the table.
CreateIndexUnlocked(c) ==
  /\ ddl[c].create
  /\ NameTaken(c) \/ Buildable(c)
  /\ LET pair == ddl[c].due IN
       ddl' = [ddl EXCEPT ![c].lock = "share",
                          ![c].due = NoRow,
                          ![c].create = FALSE,
                          ![c].meta = @ \cup {pair},
                          ![c].indexes = IF NameTaken(c) THEN @
                                         ELSE @ \cup {Index(pair[1], pair[2])}]
  /\ UNCHANGED <<vars, meta, indexes>>

\* Mutant: the row of smrti_meta is written outside the transaction.
CreateIndexRecorded(c) ==
  /\ ddl[c].create
  /\ \A d \in Clients : ~TableWaitsFor(c, d)
  /\ NameTaken(c) \/ Buildable(c)
  /\ LET pair == ddl[c].due IN
       /\ ddl' = [ddl EXCEPT ![c].lock = "share",
                             ![c].due = NoRow,
                             ![c].create = FALSE,
                             ![c].indexes = IF NameTaken(c) THEN @
                                            ELSE @ \cup {Index(pair[1], pair[2])}]
       /\ meta' = meta \cup {pair}
  /\ UNCHANGED <<vars, indexes>>

\* CREATE INDEX IF NOT EXISTS, which does nothing when an index has its name,
\* and the INSERT into smrti_meta.
CreateIndex(c) ==
  /\ ddl[c].create
  /\ \A d \in Clients : ~TableWaitsFor(c, d)
  /\ NameTaken(c) \/ Buildable(c)
  /\ LET pair == ddl[c].due IN
       ddl' = [ddl EXCEPT ![c].lock = "share",
                          ![c].due = NoRow,
                          ![c].create = FALSE,
                          ![c].meta = @ \cup {pair},
                          ![c].indexes = IF NameTaken(c) THEN @
                                         ELSE @ \cup {Index(pair[1], pair[2])}]
  /\ UNCHANGED <<vars, meta, indexes>>

CreateFails(c) ==
  /\ ddl[c].create
  /\ \A d \in Clients : ~TableWaitsFor(c, d)
  /\ ~NameTaken(c) /\ ~Buildable(c)
  /\ Rollback(c) /\ Releases(c)

\* What EventStore does between two runs of ensure_hnsw_index.
Proceed(c) ==
  /\ ddl[c].due = NoRow
  /\ \/ InsertEvent(c) /\ UNCHANGED indexVars
     \/ Scan(c) /\ UNCHANGED indexVars
     \/ Execute(c) /\ ~Embeds(c) /\ UNCHANGED indexVars
     \/ /\ Commit(c)
        /\ meta' = meta \cup ddl[c].meta
        /\ indexes' = indexes \cup ddl[c].indexes
        /\ ddl' = [ddl EXCEPT ![c] = NoDdl]
     \/ Fail(c) /\ (Embeds(c) => ddl[c].lock # "none" \/ Head(tx[c].todo).vector = EmptyVector)
        /\ Releases(c)

\* One of a cycle of transactions that wait for rows or for the table.
Victim(c) ==
  /\ \E cycle \in SUBSET Clients :
       /\ c \in cycle
       /\ \A d \in cycle : /\ \E b \in cycle : Awaits(d, b)
                           /\ \E b \in cycle : Awaits(b, d)
  /\ Rollback(c) /\ Releases(c)

-----------------------------------------------------------------------------

IndexStep(c) ==
  \/ Proceed(c) \/ LockTable(c) \/ StoreEmbedding(c) \/ Misfit(c)
  \/ CheckIndex(c) \/ Unsafe(c) \/ CreateIndex(c) \/ CreateFails(c)
  \/ Victim(c)

Calls(c) == \/ AddNodes(c) \/ AddEdges(c) \/ UpdateNode(c) \/ RetractNode(c)
            \/ RetractEdge(c) \/ MergeNodes(c) \/ ApplyEvent(c)

IndexNext == \E c \in Clients :
               \/ Calls(c) /\ UNCHANGED indexVars
               \/ Crash(c) /\ Releases(c)
               \/ IndexStep(c)

IndexSpec == IndexInit /\ [][IndexNext]_allVars

\* As in EventStore: a client that can take a step of its transaction does.
IndexFairSpec == IndexSpec /\ \A c \in Clients : WF_allVars(IndexStep(c))
-----------------------------------------------------------------------------
(* Properties.  CallsReturn, of EventStore, holds here too: also those who  *)
(* wait for the table, or wait on both kinds of locks, get an answer.       *)

\* Every variable of this module holds what it can; and of the indexes no two
\* have one name, also when several clients find it free at once.
IndexTypeOK == /\ meta \subseteq Pairs
               /\ indexes \subseteq Indexes
               /\ ddl \in [Clients -> Ddl]
               /\ \A i, j \in indexes : i.name = j.name => i = j

\* A row stored under a model has an index of that model and dimension, or
\* its model shares the name of an index with another one.
EmbeddingsAreIndexed ==
  \A n \in NodeIds, m \in Models : db.embeddings[<<n, m>>] # NoRow =>
    \E i \in indexes : i.name = Index(m, Dim[db.embeddings[<<n, m>>]]).name
=============================================================================
