---------------------------- MODULE Replication ----------------------------
(***************************************************************************)
(* A store that follows another one through export_events and import_events*)
(* ("Replication", docs/getting-started/concepts.md).                      *)
(*                                                                         *)
(* The source is an EventStore at work.  The follower asks it for the      *)
(* events after the last id it has imported, a page at a time, and imports *)
(* the page into a replica that nobody else writes.  import_events applies *)
(* the events one by one, each in a transaction of its own: when one is    *)
(* refused, or the follower dies, those before it stay, and the follower   *)
(* goes on from the last page it knows to be imported.                     *)
(*                                                                         *)
(* Ids are drawn before transactions commit, so an export may meet a row   *)
(* while one with a lower id is still in flight.  The export has overtaken *)
(* that one: the cursor passes it, and no later export returns it.         *)
(***************************************************************************)
EXTENDS EventStore

CONSTANTS
  PageLimits,       \* the limits a follower passes to export_events
  MaxEventsExport,  \* SmrtiConfig.max_events_export
  Followed,         \* the namespace passed to export_events, or
  AllNamespaces,    \* none
  MaxInterrupts     \* bound: imports that are cut off

VARIABLES
  cursor,     \* after_id of the next export
  page,       \* the exported rows that are not imported yet
  replica,    \* the graph of the replica
  imported,   \* history: the rows of the source whose events were imported
  overtaken,  \* history: rows that were in flight when a later one was exported
  interrupts  \* the number of imports cut off so far

replicaVars == <<cursor, page, replica, imported, overtaken, interrupts>>
allVars == <<vars, replicaVars>>

ASSUME ReplicationAssumption ==
  /\ PageLimits \subseteq Nat \ {0}
  /\ MaxEventsExport \in Nat \ {0}
  /\ Followed \in Namespaces \cup {AllNamespaces}
  /\ MaxInterrupts \in Nat

ReplicaInit == /\ Init
               /\ cursor = 0
               /\ page = << >>
               /\ replica = EmptyDb
               /\ imported = {}
               /\ overtaken = {}
               /\ interrupts = 0
-----------------------------------------------------------------------------

\* The rows get_events selects, in the order of their ids.
Selected(r) == Followed \in {AllNamespaces, r.event.ns}

RowsAfter(id) == InIdOrder({r \in log : r.id > id /\ Selected(r)})

InFlight == UNION {tx[c].rows : c \in Clients}

\* Those of them that an export of rows passes.
Overtakes(rows) == {r \in InFlight : rows # << >> /\ r.id < Last(rows).id}

\* Mutant: the row of the cursor is exported again.
ExportFromCursor ==
  /\ page = << >>
  /\ \E limit \in PageLimits :
       LET rows == RowsAfter(cursor - 1)
       IN page' = SubSeq(rows, 1, Min({limit, MaxEventsExport, Len(rows)}))
  /\ overtaken' = overtaken \cup Overtakes(page')
  /\ UNCHANGED <<vars, cursor, replica, imported, interrupts>>

\* Mutant: the query has no ORDER BY.
ExportUnordered ==
  /\ page = << >>
  /\ \E r \in {q \in log : q.id > cursor /\ Selected(q)} : page' = << r >>
  /\ overtaken' = overtaken \cup Overtakes(page')
  /\ UNCHANGED <<vars, cursor, replica, imported, interrupts>>

\* export_events(after_id, namespace, limit).
Export ==
  /\ page = << >>
  /\ \E limit \in PageLimits :
       LET rows == RowsAfter(cursor)
       IN page' = SubSeq(rows, 1, Min({limit, MaxEventsExport, Len(rows)}))
  /\ overtaken' = overtaken \cup Overtakes(page')
  /\ UNCHANGED <<vars, cursor, replica, imported, interrupts>>

\* One round of the loop of import_events.  After the last one the follower
\* has the answer it waits for, and moves on to the last_id of the page.
ImportEvent ==
  /\ page # << >>
  /\ \E now \in Times :
       LET statements == Statements(At(Head(page).event, now))
       IN /\ Serial!Accepted(replica, statements)
          /\ replica' = Serial!Run(replica, statements)
  /\ imported' = imported \cup {Head(page)}
  /\ cursor' = IF Tail(page) = << >> THEN Head(page).id ELSE cursor
  /\ page' = Tail(page)
  /\ UNCHANGED <<vars, overtaken, interrupts>>

\* A constraint refuses the event: import_events returns the error.
ImportRefused ==
  /\ page # << >>
  /\ \E now \in Times :
       ~Serial!Accepted(replica, Statements(At(Head(page).event, now)))
  /\ page' = << >>
  /\ UNCHANGED <<vars, cursor, replica, imported, overtaken, interrupts>>

\* The follower dies in the middle of an import, or its answer is lost.
Interrupt ==
  /\ page # << >>
  /\ interrupts < MaxInterrupts
  /\ page' = << >>
  /\ interrupts' = interrupts + 1
  /\ UNCHANGED <<vars, cursor, replica, imported, overtaken>>

ReplicaNext == \/ Next /\ UNCHANGED replicaVars
               \/ Export \/ ImportEvent \/ ImportRefused \/ Interrupt

ReplicaSpec == ReplicaInit /\ [][ReplicaNext]_allVars

\* The follower keeps asking, and its imports make progress.
FollowSpec == ReplicaSpec /\ WF_allVars(Export) /\ WF_allVars(ImportEvent)
-----------------------------------------------------------------------------
(* Properties.                                                              *)

\* A cursor over ids skips what its exports have overtaken, and nothing else:
\* each committed event at or below it has been imported, whatever the pages,
\* the failures of imports and the transactions of the source.
OnlyOvertakenAreSkipped ==
  \A r \in log : Selected(r) /\ r.id <= cursor => r \in imported \cup overtaken

\* Upserts of a key committed in the order of their ids: the node of the first
\* event with the key has it.  A replay by id gives it to that node in any case.
FirstClaim(r) ==
  /\ r.event.type = "NODE_CREATED" /\ r.event.key # NoKey
  /\ \A q \in log :
       /\ q.event.type = "NODE_CREATED"
       /\ q.event.ns = r.event.ns /\ q.event.key = r.event.key
       => r.id <= q.id

KeysInOrder == \A r \in log : FirstClaim(r) => db.nodes[r.event.id] # NoRow

\* Two rows hold the same in all that one log determines, in whatever order it
\* is applied: columns that all events give one value, and ends of edges that
\* no merge may have moved.  The valid_from of an edge is NOW() where its event
\* has none.
SameNode(n, old, new) ==
  /\ old.ns = new.ns /\ old.key = new.key /\ old.retracted = new.retracted
  /\ \A f \in NodeFields :
       (\E v \in Values : \A r \in log, w \in Values :
          WritesNode(r.event, n, old, f, w) => w = v)
       => old.attrs[f] = new.attrs[f]

SameEdge(e, old, new) ==
  /\ old.ns = new.ns /\ old.retracted = new.retracted
  /\ \A r \in log : r.event.type = "EDGE_ADDED" /\ r.event.id = e =>
       /\ old.source = new.source \/ \E q \in log : Merges(q.event, r.event.source)
       /\ old.target = new.target \/ \E q \in log : Merges(q.event, r.event.target)
       /\ old.valid_from = new.valid_from \/ r.event.valid_from = NoTime
  /\ \A f \in EdgeFields :
       (\E v \in Values : \A r \in log, w \in Values :
          WritesEdge(r.event, e, f, w) => w = v)
       => old.attrs[f] = new.attrs[f]

SameVector(m, old, new) ==
  (\E x \in Vectors : \A r \in log :
     r.event.type = "EMBEDDING_STORED" /\ <<r.event.node, r.event.model>> = m
     => r.event.vector = x)
  => old = new

SameGraph(a, b) ==
  /\ \A n \in NodeIds : \/ a.nodes[n] = NoRow /\ b.nodes[n] = NoRow
                        \/ /\ a.nodes[n] # NoRow /\ b.nodes[n] # NoRow
                           /\ SameNode(n, a.nodes[n], b.nodes[n])
  /\ \A e \in EdgeIds : \/ a.edges[e] = NoRow /\ b.edges[e] = NoRow
                        \/ /\ a.edges[e] # NoRow /\ b.edges[e] # NoRow
                           /\ SameEdge(e, a.edges[e], b.edges[e])
  /\ \A m \in NodeIds \X Models :
       \/ a.embeddings[m] = NoRow /\ b.embeddings[m] = NoRow
       \/ /\ a.embeddings[m] # NoRow /\ b.embeddings[m] # NoRow
          /\ SameVector(m, a.embeddings[m], b.embeddings[m])

\* "Event replay reconstructs everything" (docs/decisions.md D23), as far as it
\* goes when calls overlap: a follower that has overtaken nothing and imported
\* all there is has the rows of the source, retracted alike, with the same
\* content wherever the log tells what it is.
ReplicaFollows == imported = log /\ overtaken = {} /\ KeysInOrder => SameGraph(db, replica)

\* Unless an import is cut off or an export overtakes a row, the follower
\* catches up once the source falls quiet: where keys are in order and merges
\* keep nodes that have a row, no replica refuses what the source accepted.
EventsArrive ==
  []( /\ interrupts = 0 /\ overtaken = {} /\ KeysInOrder
      /\ \A r \in log : r.event.type = "NODES_MERGED" => db.nodes[r.event.kept] # NoRow )
  => <>[](imported = log)
=============================================================================
