------------------------------- MODULE Purge -------------------------------
(***************************************************************************)
(* purge_namespace at work beside the writers of an EventStore.            *)
(*                                                                         *)
(* The provider runs five statements, each a transaction of its own: it    *)
(* deletes the session_state rows of the namespace (no concern of this     *)
(* module), its edges, its nodes and its events, and writes the audit row. *)
(* A DELETE over many rows finds the rows committed when it starts and     *)
(* deletes, when it ends, those that are still there; what is committed in *)
(* between stays.  It waits for the transactions that wrote the rows it is *)
(* after, and for those that hold a foreign key on a node it deletes; the  *)
(* deletion of a node cascades to its embeddings and to the edges at it,   *)
(* whatever their namespace.                                               *)
(*                                                                         *)
(* Between two statements anything may happen, the death of the caller     *)
(* included: nothing resumes a purge.                                      *)
(***************************************************************************)
EXTENDS EventStore

CONSTANT MaxPurges  \* bound: purges in one behaviour

ASSUME PurgeAssumption == MaxPurges \in Nat

VARIABLES
  purge,   \* the statement the purge has come to, and the rows it found
  audit,   \* the namespaces in smrti_audit_log
  doomed,  \* history: what the namespace held when its purge was called
  purges   \* the number of purges called so far

purgeVars == <<purge, audit, doomed, purges>>
allVars == <<vars, purgeVars>>

NodesOf(ns) == {n \in NodeIds : db.nodes[n] # NoRow /\ db.nodes[n].ns = ns}
EdgesOf(ns) == {e \in EdgeIds : db.edges[e] # NoRow /\ db.edges[e].ns = ns}
EventsOf(ns) == {r \in log : r.event.ns = ns}

\* The columns at which the edges of a table hang on a set of nodes.
EdgesAt(edges, nodes) ==
  {e \in EdgeIds : /\ edges[e] # NoRow
                   /\ edges[e].source \in nodes \/ edges[e].target \in nodes}

\* found is NoRow until the statement has started.
NoPurge == [statement |-> "none", ns |-> DefaultNamespace, found |-> NoRow]

\* The nodes whose rows or contents an event carries.
NodesNamed(event) ==
  CASE event.type \in {"NODE_CREATED", "NODE_UPDATED", "NODE_RETRACTED"} -> {event.id}
    [] event.type = "NODES_MERGED" -> {event.kept, event.removed}
    [] event.type = "EMBEDDING_STORED" -> {event.node}
    [] OTHER -> {}

\* The rows of a namespace, and the log's rows on its nodes.
HeldBy(ns) ==
  [nodes |-> NodesOf(ns), edges |-> EdgesOf(ns), events |-> EventsOf(ns),
   about |-> {r \in log : NodesNamed(r.event) \cap NodesOf(ns) # {}}]

NothingHeld == [nodes |-> {}, edges |-> {}, events |-> {}, about |-> {}]

PurgeInit == /\ Init
             /\ purge = NoPurge
             /\ audit = << >>
             /\ doomed = NothingHeld
             /\ purges = 0
-----------------------------------------------------------------------------

\* purge_namespace(ns).
PurgeNamespace ==
  /\ purge.statement = "none"
  /\ purges < MaxPurges
  /\ \E ns \in Namespaces :
       /\ purge' = [statement |-> "edges", ns |-> ns, found |-> NoRow]
       /\ doomed' = HeldBy(ns)
  /\ purges' = purges + 1
  /\ UNCHANGED <<vars, audit>>

\* Mutant: the statement lacks its WHERE clause.
FindEverything ==
  /\ purge.statement \in {"edges", "nodes", "events"}
  /\ purge.found = NoRow
  /\ purge' = [purge EXCEPT !.found =
                 CASE purge.statement = "edges" -> UNION {EdgesOf(ns) : ns \in Namespaces}
                   [] purge.statement = "nodes" -> NodesOf(purge.ns)
                   [] purge.statement = "events" -> EventsOf(purge.ns)]
  /\ UNCHANGED <<vars, audit, doomed, purges>>

\* A DELETE starts: it finds the rows that are committed.
Find ==
  /\ purge.statement \in {"edges", "nodes", "events"}
  /\ purge.found = NoRow
  /\ purge' = [purge EXCEPT !.found =
                 CASE purge.statement = "edges" -> EdgesOf(purge.ns)
                   [] purge.statement = "nodes" -> NodesOf(purge.ns)
                   [] purge.statement = "events" -> EventsOf(purge.ns)]
  /\ UNCHANGED <<vars, audit, doomed, purges>>

\* A DELETE ends, and the next statement is due.
Ends(statement, next) ==
  /\ purge.statement = statement
  /\ purge.found # NoRow
  /\ purge' = [purge EXCEPT !.statement = next, !.found = NoRow]
  /\ UNCHANGED <<seq, tx, known, calls, audit, doomed, purges>>

\* No open transaction has written an edge of the set.
EdgesFree(edges) ==
  \A c \in Clients : \A e \in edges : tx[c].delta.edges[e] = NoRow

\* Mutant: FOR UPDATE SKIP LOCKED.
DeleteFreeEdges ==
  /\ Ends("edges", "nodes")
  /\ db' = [db EXCEPT !.edges = [e \in EdgeIds |->
                                   IF e \in purge.found /\ EdgesFree({e})
                                   THEN NoRow ELSE @[e]]]
  /\ UNCHANGED log

DeleteEdges ==
  /\ Ends("edges", "nodes")
  /\ EdgesFree(purge.found)
  /\ db' = [db EXCEPT !.edges = [e \in EdgeIds |->
                                   IF e \in purge.found THEN NoRow ELSE @[e]]]
  /\ UNCHANGED log

\* No open transaction has written a node of the set, or has put at one an
\* edge or an embedding, whose foreign key holds the node.
NodesFree(nodes) ==
  \A c \in Clients :
    /\ \A n \in nodes : tx[c].delta.nodes[n] = NoRow
    /\ EdgesAt(tx[c].delta.edges, nodes) = {}
    /\ \A n \in nodes, m \in Models : tx[c].delta.embeddings[<<n, m>>] = NoRow

\* The nodes go, and by ON DELETE CASCADE all that refers to them.
Without(nodes) ==
  [nodes |-> [n \in NodeIds |-> IF n \in nodes THEN NoRow ELSE db.nodes[n]],
   edges |-> [e \in EdgeIds |-> IF e \in EdgesAt(db.edges, nodes) THEN NoRow
                                                              ELSE db.edges[e]],
   embeddings |-> [m \in NodeIds \X Models |->
                     IF m[1] \in nodes THEN NoRow ELSE db.embeddings[m]]]

\* Mutant: the deletion waits for the writers of its own rows only.
DeleteNodesReferred ==
  /\ Ends("nodes", "events")
  /\ \A c \in Clients : \A n \in purge.found : tx[c].delta.nodes[n] = NoRow
  /\ db' = Without(purge.found)
  /\ UNCHANGED log

DeleteNodes ==
  /\ Ends("nodes", "events")
  /\ NodesFree(purge.found)
  /\ EdgesFree(EdgesAt(db.edges, purge.found))
  /\ db' = Without(purge.found)
  /\ UNCHANGED log

DeleteEvents ==
  /\ Ends("events", "audit")
  /\ log' = log \ purge.found
  /\ UNCHANGED db

Audit ==
  /\ purge.statement = "audit"
  /\ audit' = Append(audit, purge.ns)
  /\ purge' = NoPurge
  /\ UNCHANGED <<vars, doomed, purges>>

\* The caller dies, or a statement ends in an error: its ? returns early.
CutOff ==
  /\ purge.statement # "none"
  /\ purge' = NoPurge
  /\ UNCHANGED <<vars, audit, doomed, purges>>

PurgeNext == \/ Next /\ UNCHANGED purgeVars
             \/ PurgeNamespace \/ Find \/ DeleteEdges \/ DeleteNodes
             \/ DeleteEvents \/ Audit \/ CutOff

PurgeSpec == PurgeInit /\ [][PurgeNext]_allVars
-----------------------------------------------------------------------------
(* Properties.  NothingDangles, of EventStore, holds here too: no node goes *)
(* while a transaction is about to commit an edge or an embedding at it.    *)

\* "Physically delete ALL data for a namespace" (memory.rs): of what the
\* namespace held when the purge was called, no row is left once the purge is
\* in the audit log, whatever writers held or committed meanwhile.
PurgeIsComplete ==
  [][audit' # audit =>
       /\ \A n \in doomed.nodes : db.nodes[n] = NoRow
       /\ \A n \in doomed.nodes, m \in Models : db.embeddings[<<n, m>>] = NoRow
       /\ \A e \in doomed.edges : db.edges[e] = NoRow
       /\ log \cap doomed.events = {}]_allVars

\* Rows go in a purge of their own namespace; the one thing a purge takes from
\* another namespace is an edge at a node that goes in the same step.
OthersKeepTheirRows ==
  [][/\ \A n \in NodeIds : db.nodes[n] # NoRow /\ db'.nodes[n] = NoRow =>
          db.nodes[n].ns = purge.ns
     /\ \A e \in EdgeIds : db.edges[e] # NoRow /\ db'.edges[e] = NoRow =>
          \/ db.edges[e].ns = purge.ns
          \/ \E n \in {db.edges[e].source, db.edges[e].target} :
               db'.nodes[n] = NoRow
     /\ \A r \in log \ log' : r.event.ns = purge.ns]_allVars

\* The same words, of the log: once a purge is in the audit log, no event that
\* was there when it was called and names a node of the namespace is left.
\* Fails: update_node, retract_node and merge_nodes log under the default
\* namespace, whatever namespace the node is in.
PurgeErasesEvents == [][audit' # audit => log \cap doomed.about = {}]_allVars
=============================================================================
