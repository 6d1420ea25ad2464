# A verification project for smrti

smrti is a memory store for agents: a graph of nodes, edges and embeddings, and
working memory for sessions, in one PostgreSQL database.  Every call of its
`Memory` API (`smrti-core/src/memory.rs`) becomes SQL run by
`PostgresProvider` (`smrti-core/src/provider/postgres.rs`).  The Rust code
keeps no state of its own besides the connection pool; what makes the system
hard is that many tasks and processes share the database, that statements run
at READ COMMITTED, that some operations are one transaction and some are
several, and that a task may die between any two of its statements.

The project consists of TLA+ modules that model these operations statement by
statement, TLC configurations that check them on small instances, and proofs,
checked by TLAPS, that the main safety properties hold for every instance.

Contents: 1 the system; 2 the modules and the code; 3 what the runs check;
4 bounds and fairness; 5 what is proved; 6 where the code departs from its
words; 7 what is not modelled; 8 the plan.

## 1. The system

| part | state | operations | hard behaviour | what makes it correct |
|---|---|---|---|---|
| Write path (`memory.rs` 73-374, `postgres.rs` 199-610, 1307-1346) | `events` (append-only, BIGSERIAL id), `nodes`, `edges`, `node_embeddings` | `add_nodes`, `add_edges`, `update_node`, `retract_node`, `retract_edge`, `merge_nodes`; `apply_event`, `apply_events_batch` of the provider | transactions that race for rows and keys, deadlocks, a batch refused in the middle, a crash before the commit, ids drawn before the commit | log and graph in step at every commit; calls atomic; keys unique; no dangling rows; retraction final; every call returns |
| `get_or_create` (`memory.rs` 216-246, `postgres.rs` 1383-1491) | `nodes`; an advisory lock | the keyed path (two autocommit statements), the path by content (lock, SELECT, INSERT) | callers race between look-up and insert; hash collisions; the row goes between two statements; lock holders die | no twins; one node per key; a call with a key gets a node; every call returns |
| Session state (`memory.rs` 732-864, `postgres.rs` 1871-1975) | `session_state`: values with deadlines | `state_set`, `state_get`, `state_list`, `state_delete`, `state_clear`, `state_prune_expired` | late pruning against a renewed value, clears that take time, ttl of zero or below | readers see a plain store whose values end when deleted or due |
| Export and import (`memory.rs` 643-703, `postgres.rs` 1757-1798) | the log; the follower's cursor | `export_events`, `import_events` | ids committed out of order, imports cut off in the middle, pages, times taken at the import | only what an export has overtaken is skipped; the replica holds what the log alone determines |
| Purge (`memory.rs` 710-725, `postgres.rs` 1800-1865) | all tables, `smrti_audit_log` | `purge_namespace` | five transactions in a row, racing with writers, cut off; cascades | what was there is gone; nothing dangles; others keep their rows |
| Migrations (`postgres.rs` 1120-1305, `sql/migrations`) | `smrti_meta`, the schema, the trigger of `nodes.search_vector` | `connect`, `close`, `migrate` | check-then-apply without a lock; statements that commit one by one; processes of two languages; an UPDATE of all rows beside writers | who connects finds the schema; a start alone succeeds, but for one deadlock; rows, trigger and searches speak one language |
| HNSW indexes (`postgres.rs` 525-583) | `smrti_meta`, indexes | inside EMBEDDING_STORED | two first embeddings at once; table locks against row locks; names that collide | an embedding has an index of the name of its model and dimension; calls return |
| Reads (`postgres.rs` 1348-1381, 1493-1755) | none | `get_nodes`, `get_edges`, `traverse_graph`, `aggregate_edges` | depth and node caps, cycles, three snapshots in one answer | `traverse_graph` answers the edges of a breadth-first search, and lists their ends unless gone |
| Search (`postgres.rs` 620-1080) | none | `search` in three modes | a fallback in a second snapshot, fusion of ranked pools | nothing twice; what stays and matches is found; the fusion respects the lists |
| Scoped wrapper, Python binding, konf adapter, configuration, telemetry | none | forward calls | - | - |

Interaction: `Memory` builds events and calls the provider; the provider talks
to PostgreSQL; everything else (search, traversal, purge, get_or_create) goes to
the tables directly.  There are no callbacks and no background tasks.  All
sharing goes through the tables, row and table locks, unique indexes, foreign
keys and one advisory lock.  No call asks for a second connection of the pool
while it holds one, so the pool, however small, cannot make calls wait on each
other for ever.

## 2. The modules and the code

```
GraphModel ── the data and the effect of one statement (pure)
   ├── EventStore ── the write path        implements SerialStore (abstract)
   │      ├── EmbeddingIndex ── the DDL that storing an embedding runs
   │      ├── Replication ── a follower: export and import
   │      └── Purge ── purge_namespace beside the writers
   └── GetOrCreate ── get_or_create beside the other writers
SessionState ── the session_state table    implements SessionStore (abstract)
Migration ── connect and migrate, by processes that start at once
Queries ── the SQL of reads and searches (pure)
   └── Reads ── traverse and search beside writers

EventStoreProofs
   ├── OrderProofs ── calls at one instant, and the order of ids
   ├── PurgeProofs
   └── EmbeddingIndexProofs
GetOrCreateProofs      SessionStateProofs      MigrationProofs      ReadsProofs
```

`MC*` modules hold the inputs of the small instances; the modules that end in
`Proofs` hold the theorems.  Operators whose comment begins with "Mutant:" are
plausible bugs of the definition that follows them; no specification uses them.
They are there to show that each property can fail.

**GraphModel.**  A database is a record of three tables, functions from
identities to rows (`NoRow` where there is none).  An event is a record per
`EventType`; `Statements` is `apply_projection`: one statement per event, three
for NODES_MERGED, none for RAW_INPUT_RECEIVED.  A statement is given by the rows
it writes in a view (`NodesWritten`, `EdgesWritten`, `EmbeddingsWritten`), the
value it leaves (`NodeAfter`, `EdgeAfter`) and what makes a constraint refuse it
(`Rejected`): primary keys, foreign keys, the check for an empty embedding.  The
upsert of NODE_CREATED writes the holder of the key under the holder's id.  The
columns that a caller fills in (content, node_type, content_type, metadata) are
one function on `NodeFields`; the UPDATE per field of NODE_UPDATED is one
statement, since the first of them locks the row until the commit.  An edge has
the `valid_from` its event gives, or else NOW(): `At` is the COALESCE of
`project_edge_added`, applied before the statement runs.  So the row of an edge
is a function of its event and of the transaction that projects it, and a replay
or an import takes another instant.

**EventStore.**  Variables: the sequence, the committed log, the committed
tables, and per client its call and transaction.  `AddNodes`/`AddEdges` collect
a batch item by item, the other calls pass one event.  `InsertEvent` is
`insert_event_row` (it draws the id and adds the statements of the projection to
`todo`); `Execute` runs a statement on what is committed plus the transaction's
own writes (`View`); `Commit` publishes rows, log and answer together; `Fail`,
`DeadlockVictim` and `Crash` roll back.  The rows a transaction wrote are its
locks.  The two many-row UPDATEs of a merge are a `Scan`, in any order, then one
locked and re-checked write per edge found.  `now`, any member of `Times`, is NOW()
of the transaction: fixed by its first event, the same for all of them.

**SerialStore** is what a caller may assume: a call's events and statements take
effect at one instant, alone, under ids nobody used, or not at all; its edges
without a `valid_from` get one NOW().

**GetOrCreate.**  One action per statement of each path.  `Lock` is
`pg_advisory_xact_lock` on a hash that may collide; `Unlock` its release at the
end of the transaction.  The other calls appear with the effect of their commit,
which EventStore shows to happen at one instant; `PurgeNodes` is the statement of
a purge that deletes nodes.

**SessionState, SessionStore.**  `state_set` and `state_delete` are single rows
and one step; a DELETE of many rows is a scan and, later, the deletion of the
rows that still match in their newest version.  SessionStore, the abstract
module, knows only what readers see, and which clears are under way.

**Replication.**  An EventStore and a follower.  `Export` is `export_events`
(rows above the cursor, of one namespace or all, limited by the caller and by
`max_events_export`), `ImportEvent` one round of the loop of `import_events`,
each its own transaction in the replica, with a NOW() of its own; `ImportRefused`
its early return.  The source has any number of clients, so an export can return a
row while one with a lower id is `InFlight`; the history variable `overtaken` keeps
those.  That
the follower keeps the last id of the page it imported as its cursor is our
reading of `after_id` and of "Replication" in `docs/getting-started/concepts.md`;
the follower itself belongs to an application.

**Purge.**  An EventStore and one purge at a time.  Each DELETE is `Find` (the
rows committed when it starts) and a deletion that waits for the transactions
which wrote those rows or which hold a foreign key on the nodes; deleting nodes
takes their embeddings and all edges at them.  `CutOff` ends a purge anywhere.

**EmbeddingIndex.**  An EventStore whose statement EMBEDDING_STORED is taken
apart: `LockTable` is the ROW EXCLUSIVE lock that the INSERT takes before it waits
for a row, `StoreEmbedding` the INSERT, which the indexes of the model may refuse
(`Misfit`), `CheckIndex` the SELECT from `smrti_meta`, `CreateIndex` the CREATE
INDEX IF NOT EXISTS, under a SHARE lock, with its row in `smrti_meta`.  Index and
row are part of the transaction and appear with its commit.  Waiting for the
table and waiting for rows form one graph, whose cycles make victims.

**Migration.**  `migrate` is a list of steps, each committed on its own; a process
is a position in it.  `Create`, `SetTrigger`, `Record`, `Check`, `Backfill` and
`RecordLanguage` take it on; `Collide` is two CREATE ... IF NOT EXISTS of one
object at once, of which the catalog refuses one; `Fail` is any error, after which
`connect` returns it and nothing is undone; `Stop` is a `close` or a death anywhere.
Connected processes write rows, several in one transaction, through the trigger
(`Write`, `CommitWrites`, `RollBack`).  The UPDATE that fills `search_vector` again is
a transaction of many steps beside them: `Backfill` finds the rows that are committed,
`Fill` changes one as soon as no other transaction holds it, `Filled` commits.  It waits
for writers and they for it; on a cycle (`Deadlocked`) the start may be the victim,
which is one of the errors of `Fail`.
The history variable `torn` marks the gaps listed in section 6.

**Queries** has each SQL text as a function of the rows it meets: the recursion of
`traverse_graph`, its LIMIT, the conditions of `get_edges`, the candidates of the three
modes of search and the fusion of ranks.  A LIMIT without ORDER BY (that on the edges of
a walk, that on the text candidates of a hybrid search) keeps any rows (`Choices`).  What
PostgreSQL and pgvector compute from the content of a row is a number in it.

**Reads** runs them.  No read opens a transaction, so `traverse` is three
snapshots (`Traverse`, `ReadEdges`, `ReadNodes`) and a text search one or two
(`SearchWords`, `SearchTrigrams`), with anything that writers commit in between.

### How PostgreSQL appears

- A statement sees what is committed when it gets its locks.  A waiting statement
  is one that has not started: this agrees with READ COMMITTED for statements that
  look for one row; many-row statements scan first, as above.
- The lock of a row is its presence in a transaction's `delta`.  The KEY SHARE
  locks of foreign keys do not conflict with the updates of EventStore, which
  change no key, and appear only where rows are deleted (Purge).
- The table locks that matter are those of `node_embeddings` (EmbeddingIndex) and
  the lock that replacing a trigger takes on `nodes` (`SetTrigger`, which waits for
  open transactions that write nodes).
- A row that an UPDATE locked and then, on re-check, did not write is not kept
  locked; a many-row DELETE holds nothing while it waits.  A deadlock it could
  cause is covered by `CutOff` and `Crash`, which can end either party.
- A transaction that waits on a cycle is a possible victim; any other ends by its
  own steps.

## 3. What the runs check

| run | question | properties |
|---|---|---|
| `es_race` | two clients, every call that writes single rows, failures and crashes at any point | `TypeOK`; `LogIdsUnique`; `UniqueKeys`; `NothingDangles`; `RowsComeFromEvents` and `EventsLeaveMarks` (log and graph in step, both ways); `RetractionIsFinal`; `CallsAreAtomic` (EventStore implements SerialStore) |
| `es_merge` | merges against merges, edges added and retracted | `EventsLeaveMarks`; `EdgesMoveOnlyInMerges` |
| `es_index` | two clients upsert two keys in either order and store embeddings, of two models and two dimensions, that need an index | `IndexTypeOK` (with the names of indexes unique); `EmbeddingsAreIndexed` (each committed embedding has an index of the name of its model and dimension); `CallsReturn` |
| `goc_race` | two get_or_create callers against each other and against adds, updates, retractions and a purge, with crashes | `TypeOK`; `NoTwins`; `KeyHasOneNode`; `FetchesOrCreates`; `CallsReturn` |
| `ss_store` | sets, deletes, clears, purges and prunings while time passes | `TypeOK`; `ImplementsStore` |
| `rep_follow` | a source with two writers whose calls overlap, a follower that exports pages, is cut off at most once and imports again what it had imported | `OnlyOvertakenAreSkipped`; `ReplicaFollows`; `EventsArrive` |
| `purge_race` | one purge against two writers, cut off anywhere | `NothingDangles`; `PurgeIsComplete`; `OthersKeepTheirRows` |
| `mig_connect` | two processes start, at once or not, in three languages, die anywhere, write nodes in transactions beside each other and beside the UPDATE that fills the text vectors | `TypeOK`; `ConnectedFindsSchema`; `LoneStartSucceeds`; `SearchSpeaksOneLanguage` |
| `reads_race` | every small graph walked, every small text and vector table searched, with commits between the statements | `NoneTwice`; `FusionKeepsOrder`; `WalkIsBreadthFirst`; `EndsAccountedFor`; `SteadyMatchesFound` |
| `es_replay_race` | violated: two updates of one node | `ReplayRebuilds` |
| `es_upsert_embedding` | violated: a taken key and an embedding | `UpsertTakesEmbedding` |
| `purge_default` | violated: updates of a node outside the default namespace | `PurgeErasesEvents` |

The passing runs show: whatever two clients do at once and wherever they die, each
row that calls through `apply_event` and `apply_events_batch` have left comes from
events of the log, column by column, and each event of the log has left its mark
(`get_or_create` writes rows without events, see section 6, and is not part of these
runs).  Calls with single-row statements behave as if each ran alone.  Merges do not
(section 6), which is why `es_race` leaves them out and `es_merge` asks weaker
questions: that no edge moves but in the commit of a merge, not that a merge moves
all of them.  Contention, for rows, keys and the table that gets an index, may abort
a call and never hangs it.

A follower is told less than the docs promise.  What its cursor passes and it has not
got was in flight while a later row was exported, and nothing else
(`OnlyOvertakenAreSkipped`).  If nothing was overtaken and it has all there is, it
holds the rows of the source, with the same content wherever the log alone determines
it (`ReplicaFollows`): the columns that all events give one value, the ends of edges
that no merge may have moved, the `valid_from` that an event gives.  Where calls
overlapped the rest depends on the order of commits, which the log does not tell
(`es_replay_race`), and `valid_from` may be the NOW() of the import.  It assumes
`KeysInOrder`, that the node of the first upsert of a key, by id, has the key;
`EventsArrive`, that the follower catches up, assumes this too, and the absence of what
else section 6 shows to stop it.

A database that any number of starts have torn at is complete for whoever gets
connected, but the language of its text vectors is not kept by `migrate` alone:
`SearchSpeaksOneLanguage` says under which uses it is.  Readers see edges of one
instant and nodes of a later one; what they may miss is bounded by `EndsAccountedFor`
and `SteadyMatchesFound`, which say nothing of what the code brings beyond its docs:
nodes of other namespaces, and rows that match nearly beside rows that match.

Deadlock checking is off everywhere: `MaxCalls` lets each system stop.

## 4. Bounds and fairness

`MaxCalls` (2 to 4 calls), `MaxBatch` (2 items), `MaxTime`, `MaxPurges`,
`MaxInterrupts`, `MaxStarts`, `MaxCommits` and the sets of identities are the only
bounds, besides what the MC modules leave out.  Two clients are enough for each race the code has, all of them pairwise (two writers of a row,
of a key, of a lock, a writer and a purge); deadlock needs two clients and two
keys, hence four ids in `es_index`.  Two values tell an update from no
update, two `Times` one NOW() from another; one edge is enough for an edge to move,
dangle or be left; two nodes are the ends of an edge or the two sides of a merge.  `goc_race` has two contents
and a lock for each (that colliding hashes only make callers wait is covered by
the proofs, where `Hash` is any function).  `ss_store` lets time pass
the deadlines given to it, with a ttl that is already over.  `purge_race` has two
namespaces, edges that cross them, and only the commits of two writers beside one
purge; a second purge would begin from a state like those the first one leaves.
`es_index` has two models whose names are sanitized alike and two vectors of
different dimension, which is what it takes for an index to be shared, missed or
in the way; batches are built without interleaving and ids drawn in order, since
neither is seen by anybody else.  `mig_connect` has four starts: two that overlap
and two that meet what these left; two rows, which two transactions can take in
either order; a process that stopped may start again in another language; the third language is a name that passes the check for
identifiers and that the server does not have.  `reads_race` starts from every graph
of two or three edges on three nodes (cycles, self-loops, parallel edges, edges that begin
or end now) and lets two transactions commit, at most, between the statements of
one read: readers write nothing, so a second reader could not be noticed.
`rep_follow` has two writers and three calls, which is what it takes for an id to be
overtaken, for two updates of a node to cross, for a key to be taken out of order, or for
an edge to meet a merge; the caller's limit of 3 and `MaxEventsExport` 2 cut pages at the
smaller of the two, so a page may have a second row and the log a third page; one import
is cut off, so its events are imported a second time, merges among them.

To keep the instances small, the MC modules leave out interleavings that nobody can see:
a transaction takes the first instant unless it adds edges, the only rows of the model
that NOW() is written to (`TimeMatters`, in MCEventStore and MCReplication); an import runs while the
source stands still, with which it shares nothing (`ImportsAlone`); a call goes on until
its first event is logged (`BeginsAtOnce`), and UUIDs are drawn in one order
(`DrawsInOrder`); while nobody is at work one client makes the call (`FirstCalls`); and
calls and imports that are cut off before their first event are left out (`DiesAtWork`,
`CutsAtWork`): they leave nothing behind, and only use up a bound.  The specifications without these
restrictions are those the theorems are about.
Symmetry (clients and identities are never ordered) is used in safety runs only.

Fairness is weak and per client: `FairSpec` says that a client able to take a
step of its own transaction takes one (`WF_vars(Step(c))`): tokio polls a task
that is ready, and PostgreSQL answers statements, grants a free lock and breaks a
deadlock.  No client has to call, to crash, or to be chosen as a victim.  With
it `CallsReturn` says that locks and deadlocks cannot hang a call; strong
fairness is not needed because calls are finite, so a lock is in the end free
for whoever waits.  `IndexFairSpec` asks the same of `IndexStep`, the steps of
EventStore with those on the table and its index; `es_index` runs it with the
restrictions on batches above.  `FollowSpec` adds that the follower asks again
and its import proceeds; nothing is assumed of the source.  `rep_follow` runs it with the
restrictions above.  `EventsArrive` holds only while no import is cut off: repeating half
an import meets primary keys that are taken, and `import_events` returns the error each
time.  It also assumes that no row is overtaken, `KeysInOrder`, and that merges keep nodes
that have a row (section 6 says how each of them stops a follower).

## 5. What is proved

All theorems are of the form `Spec => ...`, for any sets of clients, identities,
keys, values and any bounds, from the named assumptions of the modules only
(finitely many edges, and nodes for the reads, `NoRow`/`NoKey`/`NoTime` distinct from data, constants of
their types, and for the reads tables and queries of their types).
`SingleRowCallsAreAtomic` is about stores whose callers do not merge, as in `es_race`:
with merges it is false (section 6).

| theorem | property | argument |
|---|---|---|
| `EventStoreProofs!TypeCorrect` | `TypeOK` | the type invariant is inductive; a lemma per action, and lemmas on `Statements`, `Write` and `Orders` |
| `EventStoreProofs!Anchoring` | `NothingDangles` | inductive: a view is the committed tables below a delta; a commit of another client only adds rows to it |
| `EventStoreProofs!KeysUnique` | `UniqueKeys` | needs `Exclusion` (no two deltas have a row in common) and `KeysExclude`: rows that one transaction adds under a key and rows of others do not meet, because an upsert waits for the holder of its key |
| `EventStoreProofs!Retraction` | `RetractionIsFinal` | needs `DeltaRetracts`: a delta never revives a row that is retracted in the committed table, which `Exclusion` keeps still |
| `EventStoreProofs!IdsUnique` | `LogIdsUnique` | needs: no row has an id above the sequence |
| `EventStoreProofs!GraphFollowsLog` | `RowsComeFromEvents` | `SourceInv`: every row of a delta, with its namespace, key, ends, time, columns and retraction, comes from events of the transaction or of the log, and what a client still has to run from one of its events |
| `EventStoreProofs!GraphKeepsMarks` | `EventsLeaveMarks` | `MarkInv`: an event of an open transaction has its mark in the client's view or its statement is still to run; with `GrowInv` (a view never loses a row, a key or a retraction of the committed tables) and `IdentityInv` (events retract only what some call has returned, so nothing drawn by another open call), a commit of one client leaves the marks of all |
| `EventStoreProofs!MergesMoveEdges` | `EdgesMoveOnlyInMerges` | `MoveInv`: an end of an edge that a view has elsewhere than the committed table was moved by the one merge of that client; with the invariants above the node it left is retracted, and with `Apart` (rows about to be appended are not in the log) the merge is in this very commit |
| `OrderProofs!CursorSkipsOvertakenOnly` | `OnlyOvertakenAreSkipped` | `PageInv`, over committed rows and those in flight: up to the cursor, and up to each row of the page, every selected row is imported, overtaken or earlier in the page; with `NewRowsAreLate` (a row whose id is drawn now is above all there are) and `ExportedRows` (a page is the first rows above the cursor in the order of ids), whatever commits later |
| `OrderProofs!SingleRowCallsAreAtomic` | `CallsAreAtomic` | the refinement, with the batches of open transactions as what SerialStore has pending; `AtomInv`: the delta of a client is what its statements, at its NOW(), would make of any graph that is like the committed one where they looked (see below) |
| `EmbeddingIndexProofs!IndexedStoreIsEventStore` | (`EventStore`'s `Spec`) | every step with the table and its indexes is a step of EventStore or a stutter, so all theorems about EventStore hold of the store with indexes |
| `EmbeddingIndexProofs!IndexTypes` | `IndexTypeOK` | inductive with the types of EventStore |
| `EmbeddingIndexProofs!AllIndexed` | `EmbeddingsAreIndexed` | `IndexInv` = `DdlType`, `Locked`, `InTransaction`, `Kept`, `ClientKept`: who makes an index or records one holds the SHARE lock, so no other open transaction has written an embedding; an embedding of a transaction has its index, committed or its own, or is the one whose statement is not over |
| `PurgeProofs!PurgedStoreTypes` | `TypeOK` | inductive in the store whose rows can go |
| `PurgeProofs!PurgeLeavesNothingDangling` | `NothingDangles` | `Store`: the invariants of EventStore that survive deletions (`TypeOK`, `Exclusion`, `IdentityInv`, `GrowInv`, `IdInv`, `Apart`, `RowsKnown`); a deletion waits for the locks that would be left without their node |
| `PurgeProofs!PurgeCompletes` | `PurgeIsComplete` | `PurgeInv`: what is doomed had been returned to a caller when the purge was called (`DoomedIsOld`), so that no call makes it again; each statement finds what is left of it (`Found`), and behind it all of its kind is gone (`Gone`) |
| `PurgeProofs!PurgeKeepsToItsNamespace` | `OthersKeepTheirRows` | `DoomedNodes`, `DoomedEdges`, `DoomedEvents`: rows keep their namespace between the scan and the deletion |
| `ReadsProofs!NobodyTwice` | `NoneTwice` | `ReadsInv`: the second snapshot leaves out the nodes of the first one |
| `ReadsProofs!SteadyNodesFound` | `SteadyMatchesFound` | `SearchCall`, `BetweenStatements`: what the call remembers of the first snapshot, and that it left room |
| `ReadsProofs!EndsListed` | `EndsAccountedFor` | `WalkCall`: the nodes are read by the ends of the edges that the call has found |
| `ReadsProofs!WalksAreBreadthFirst` | `WalkIsBreadthFirst` | by induction on the depth, from 1 on, the walks of the recursion end at the nodes of the breadth-first layers |
| `ReadsProofs!FusionRespectsLists` | `FusionKeepsOrder` | ranks that are both lower give a score that is not lower (`ScaleDivides`: `Scale` is a positive multiple of every `RrfK + i`, so the sums of fractions are compared exactly) |
| `GetOrCreateProofs!TypeCorrectness` | `TypeOK` | inductive |
| `GetOrCreateProofs!TwinFree` | `NoTwins` | `Locks` (who is past the lock holds it), `NoRival` (while one creates, no node made by another matches), with `Fresh` |
| `GetOrCreateProofs!KeysAgree` | `KeyHasOneNode` | `OneHolder` (one row per key) and `AnswersNameTheKey` (an answered row still has the key of the request) |
| `GetOrCreateProofs!KeyedCallsAnswer` | `FetchesOrCreates` | `Selecting`: between the two statements the key stays taken unless its namespace is purged |
| `SessionStateProofs!StateTypes` | `TypeOK` | inductive |
| `SessionStateProofs!Implements` | `ImplementsStore` | the refinement mapping (`visible <- Visible`, `clearing <- Clearing`), one lemma per step, with `StartedBefore`: a scan's NOW() is never ahead of the clock, so what it deletes as expired cannot be seen |
| `MigrationProofs!TypeCorrect` | `TypeOK` | inductive with `BackfillKnows` (who records a language has filled the rows with it, so the server knows it) and `OpenWhere` (who has a transaction open is at the UPDATE or connected) |
| `MigrationProofs!SchemaFound` | `ConnectedFindsSchema` | `SchemaInv`: who stands at a step finds the objects of the steps before it (`Laid`), made by it or vouched for by a record |
| `MigrationProofs!LoneStartsSucceed` | `LoneStartSucceeds` | `LoneInv`: what a process alone has checked stays as it found it (`HasChecked`); what it can wait for while it fills the rows is a writer that is connected |
| `MigrationProofs!OneLanguage` | `SearchSpeaksOneLanguage` | `SpeaksInv`: outside the gaps, starts do not overlap (`Alone`), a change of language is known from the position of its process (`Changing`), and function, trigger and rows are in the language on record or that of the change (`Founded`, `InLanguage`) |

None of these invariants is a consequence of its property: `EventsLeaveMarks` says
nothing of open transactions, so a commit could do anything; what has to be known
of a view before it is published is exactly `MarkInv`, `GrowInv` and `MoveInv`.

One argument, that of `SingleRowCallsAreAtomic`, deserves a word.  A transaction reads what is committed when
each of its statements runs, so the graph it began with is gone when it commits.  What
its statements made of that graph they would make of any graph `Alike`: the rows the
client has written are as they were, there are the same rows under the identities it
can name, and its keys are free.  `Carried` says so of all such graphs at once, which
makes it inductive: a commit of another client leaves the graph alike (`CommitDoes`,
from `Exclusion`, `GrowInv` and `IdentityInv`), and a statement of the client itself
looks at nothing in which two such graphs differ (`ExecuteBase`, `ExecuteKeys`,
`SameWrites`).  At its commit the client has the graph itself before it, alike by
`UniqueKeys`.

Induction over data is possible where one function, or one fold, is involved:
`SetInduction` takes a set of numbers and rests on the library's theorem of
well-founded orders, and a fold is unrolled from its last element (`After`).

Only model-checked: the liveness properties (`CallsReturn`, `EventsArrive`), since
fairness is beyond the prover, and `ReplicaFollows`, whose proof would have to compare
the effects of one log in two orders.

## 6. Where the code departs from its words

With a run that shows the behaviour:

- *Replay by id is not the order of commits* (`es_replay_race`).  The id is drawn
  before the row lock is waited for, so of two updates of a node the later commit
  can have the lower id.  `docs/decisions.md` D5 has the tables rebuilt from the log.
- *An upsert with an embedding fails* (`es_upsert_embedding`).  The embedding's
  event names the generated id; with a taken key that row does not exist.
- *A purge leaves updates of the namespace's nodes in the log* (`purge_default`):
  `update_node`, `retract_node`, `retract_edge` and `merge_nodes` log under the
  default namespace.

Seen while modelling, without a run, since one look at the code decides them:

- A merge can leave an edge behind: one that is committed between the UPDATEs of
  the merge and its commit keeps the removed node as its end, while `memory.rs` 345
  has the edges of the removed node moved.
- Following the log by id skips events, for the reason that replay by id goes
  wrong: a page can be read between the commit of a higher id and that of a lower
  one, and no later page has the lower one.  `OnlyOvertakenAreSkipped` says that these
  are all that is skipped.
- An edge added without `valid_from` gets the NOW() of the transaction that projects
  its event, and every row the `created_at` of its INSERT: a replay or an import gives
  it other times, and until then `get_edges`, `traverse_graph` and `aggregate_edges`,
  which ask for `valid_from <= NOW()`, would not have found it.  D23 of
  `docs/decisions.md` has replay reconstruct everything.
- Of two overlapping upserts of a new key, the one with the higher id can commit first
  and so keep its node.  A replay or an import by id keeps the other node, and refuses
  what later refers to the first one.  `KeysInOrder` excludes it.
- A follower can be stopped for ever by a merge whose kept id has no row (`add_nodes`
  returned it for a taken key): the source accepts it while the removed node has no edges,
  and the replica, which can have an edge earlier, refuses it.  `EventsArrive` excludes it.
- A follower that was cut off and imports merges again may end with another graph:
  imported after a later merge, a merge moves edges that it did not move in the source.
  `ReplicaFollows` leaves out the ends that a merge may have moved.
- `add_nodes` returns the generated id even when the key was taken; no row has it.
- With a key, `get_or_create` answers retracted nodes (its SELECT has no
  `is_retracted` condition), while an upsert on such a key updates a row that stays
  retracted.
- `get_or_create` writes no event: its nodes are in no export and no replay.
- The advisory lock does not keep out `add_nodes` and `update_node`: a call may
  create the twin of a node that these commit between its SELECT and its commit.
  `NoTwins` is about nodes made by `get_or_create` for that reason.
- A purge between the two statements of the keyed path makes `get_or_create` fail
  with RowNotFound, the exception in `FetchesOrCreates`.
- Two racing merges are not serial: an edge that one moves onto a node which the
  other is removing keeps that retracted node as its end.
- Purging a namespace deletes edges of other namespaces at its nodes (by CASCADE).
  Purging the default namespace deletes the retractions and updates of every other
  namespace from the log, so a replay revives what they retracted.
- A row that commits between the DELETE of its table and the DELETE of the events
  survives the purge without its event; a purge cut off leaves no audit row.
- Nothing in the library calls `state_prune_expired`; expired rows stay, unseen.

Migrations (the gaps that `torn` marks):

- A slow first start that another one overtakes runs v001 to its end and puts the
  function back to English, while the record keeps the other's language; no later
  start notices.
- Two running processes of different languages: the second changes function and
  rows under the first.
- A start that dies between replacing the function and recording the language,
  followed by a start in yet another language; in particular a language the server
  does not have leaves a trigger that fails every insert, and a start in English then
  changes nothing because no language is on record.
- Two starts on an empty database: one may fail on an object the other is creating.

Another gap of migrations, which a start without others beside it can fall into:

- The UPDATE that fills `search_vector` again waits for the rows of connected writers,
  and these for the rows it has changed: the server ends one of the two, and when it is
  the UPDATE the start fails (`LoneStartSucceeds` names the case).

Indexes:

- A model is pinned to one dimension by its index: storing a vector of another one
  fails, and its batch with it.  `docs/guides/error-handling.md` 90 says that smrti stores
  whatever is passed.
- Models whose names are sanitized alike, or begin alike and are cut to 63 bytes, share
  one index name: the second one is recorded as indexed and has no index
  (`EmbeddingsAreIndexed` speaks of the name).  When the names of two dimensions are
  taken by two other models, it may even get rows of both, and its searches then fail
  on vectors of different lengths.
- The search by vector orders by `ne.embedding <=> $1::vector` and the index is on
  `embedding::vector(dim)`, so the planner cannot use it: searches scan.

Reads and searches:

- `get_edges` and `traverse_graph`, also through the scoped wrapper, have no condition
  on the namespace, and `get_node` none on `is_retracted`; `provider/mod.rs` 50-52
  lists both as guarantees, and D18 of `docs/decisions.md` and `llms.txt` 95 promise
  isolation by namespace for every operation.  `EndsAccountedFor` speaks of ends in the namespace of the
  start node, of which code and docs say the same.
- `traverse_graph` puts the start node first only when its statement did not bring
  it; otherwise the cap may cut it off.  A depth of 0 walks one edge
  (`WalkIsBreadthFirst` is about depths from 1 on).  The LIMIT on
  edges has no order: what it keeps need not hang together.
- A merge between the statements of `traverse_graph` can leave an edge in the answer
  that names the retracted node, which is not listed.
- The trigram fallback runs whenever there is room left, not only when there are no
  results, as `docs/guides/search.md` 43 and `docs/guides/configuration.md` 55 have it;
  `SteadyMatchesFound` asks for rows that match nearly only when no row matches.  A node updated between the two statements can be missed
  although it matched before and after.
- A hybrid search ignores `min_similarity` and labels a row of one list "hybrid"; a
  `min_similarity` of 0 means the configured one.

## 7. What is not modelled, and why

- The scoped wrapper, the Python binding and the konf adapter forward calls and keep
  no state.  The one thing the binding shares is the handle itself, which `close`
  needs for itself and PyO3 checks at run time.
- Configuration, errors and telemetry: checks of fields, and a subscriber nobody
  reads back.  The settings that matter are constants of the modules.
- `aggregate_edges`: one statement, whose conditions on edges are those of `get_edges`,
  and sums over metadata.
- The scores of PostgreSQL and pgvector: numbers that no decision of the code but an
  ORDER BY depends on.
- The filters of a search on node_type, metadata and time: conditions on columns of
  the row, like those on the namespace, which are modelled.
- The operator class of an index; the splitting of a migration at its semicolons; the
  error of a ttl beyond what an interval can hold.
- The JSON of events, `_meta` of answers, logging and durations.

## 8. The plan

Done, in this order: GraphModel, EventStore with SerialStore (the core), its
proofs; GetOrCreate and its proofs; SessionState with SessionStore, and the proof
of the refinement; Replication; Purge; Migration and its proofs; EmbeddingIndex;
Queries and Reads; the proofs that log and graph stay in step and that edges move
with merges only; the proofs of EmbeddingIndex, Purge and Reads; calls that write single
rows take effect at one instant; `valid_from` and NOW(), a source with overlapping calls
under the follower, the UPDATE of migrations row by row, and the proof of what a cursor
skips.

Next:

1. **What merges leave of `CallsAreAtomic`**: a merge that overlaps no call on the
   edges of its two nodes should take effect at one instant as well; an abstract
   specification in which a merge moves some of the edges, and the proof that
   EventStore with all its calls implements it.
2. **A proof of `ReplicaFollows`**: that one set of events leaves the same rows in two
   orders, as far as the property asks.
3. A follower of one namespace: what `ReplicaFollows` becomes when `Followed` is a
   namespace whose edges stay within it.
