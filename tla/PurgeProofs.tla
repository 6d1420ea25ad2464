----------------------------- MODULE PurgeProofs -----------------------------
(* Theorems about Purge, for every value of the constants: what a purge     *)
(* takes, what it leaves alone, and that nothing dangles while it deletes   *)
(* beside open transactions.                                                *)
EXTENDS Purge, EventStoreProofs

-----------------------------------------------------------------------------
(* The invariant.                                                           *)

\* What a call has returned, and only that, is in the tables.
RowsKnown == /\ \A n \in NodeIds : db.nodes[n] # NoRow => n \in known
             /\ \A e \in EdgeIds : db.edges[e] # NoRow => e \in known

\* Of the store: its types, its references and what is known of its ids.
Store == /\ TypeOK /\ Exclusion /\ NothingDangles
         /\ IdentityInv /\ GrowInv /\ IdInv /\ Apart /\ RowsKnown

Deletions == {"edges", "nodes", "events"}

\* What is doomed has returned to some caller, so no call makes it again, and
\* its events are no open transaction's.
DoomedIsOld ==
  /\ doomed.nodes \subseteq NodeIds \cap known
  /\ doomed.edges \subseteq EdgeIds \cap known
  /\ \A r \in doomed.events : r.id \in Nat /\ r.id <= seq
  /\ \A c \in Clients : tx[c].rows \cap doomed.events = {}

\* While a purge runs, what is doomed is gone or still of its namespace.
DoomedNodes == \A n \in doomed.nodes : db.nodes[n] = NoRow \/ db.nodes[n].ns = purge.ns
DoomedEdges == \A e \in doomed.edges : db.edges[e] = NoRow \/ db.edges[e].ns = purge.ns
DoomedEvents == \A r \in doomed.events : r.event.ns = purge.ns

\* What a DELETE has found is of its namespace and still there, and it has
\* found what is doomed and not gone.
FoundEdges ==
  /\ \A e \in purge.found :
       e \in EdgeIds /\ db.edges[e] # NoRow /\ db.edges[e].ns = purge.ns
  /\ \A e \in doomed.edges : db.edges[e] = NoRow \/ e \in purge.found
FoundNodes ==
  /\ \A n \in purge.found :
       n \in NodeIds /\ db.nodes[n] # NoRow /\ db.nodes[n].ns = purge.ns
  /\ \A n \in doomed.nodes : db.nodes[n] = NoRow \/ n \in purge.found
FoundEvents ==
  /\ \A r \in purge.found : r.event.ns = purge.ns
  /\ log \cap doomed.events \subseteq purge.found

EdgesGone == \A e \in doomed.edges : db.edges[e] = NoRow
NodesGone == \A n \in doomed.nodes : db.nodes[n] = NoRow
EventsGone == log \cap doomed.events = {}

Found == purge.found # NoRow =>
  /\ purge.statement = "edges" => FoundEdges
  /\ purge.statement = "nodes" => FoundNodes
  /\ purge.statement = "events" => FoundEvents

\* What each statement leaves behind it.
Gone ==
  /\ purge.statement \in {"nodes", "events", "audit"} => EdgesGone
  /\ purge.statement \in {"events", "audit"} => NodesGone
  /\ purge.statement = "audit" => EventsGone

PurgeForm == purge = [statement |-> purge.statement, ns |-> purge.ns,
                      found |-> purge.found]

PurgeInv ==
  /\ PurgeForm
  /\ purge.statement \in Deletions \cup {"none", "audit"}
  /\ DoomedIsOld
  /\ purge.statement # "none" => DoomedNodes /\ DoomedEdges /\ DoomedEvents
  /\ Found
  /\ Gone

-----------------------------------------------------------------------------
(* A step of a client.                                                      *)

\* The step leaves the rows there are in their namespaces, and the log, and
\* brings back nothing that some call has returned.
KeepsRows ==
  /\ \A n \in NodeIds : db.nodes[n] # NoRow =>
       db'.nodes[n] # NoRow /\ db'.nodes[n].ns = db.nodes[n].ns
  /\ \A e \in EdgeIds : db.edges[e] # NoRow =>
       db'.edges[e] # NoRow /\ db'.edges[e].ns = db.edges[e].ns
  /\ \A n \in NodeIds : db.nodes[n] = NoRow /\ db'.nodes[n] # NoRow =>
       n \notin known /\ n \in known'
  /\ \A e \in EdgeIds : db.edges[e] = NoRow /\ db'.edges[e] # NoRow =>
       e \notin known /\ e \in known'

\* What the step adds to the log was some transaction's, and what it adds to a
\* transaction has an id of its own.
AddsRows ==
  /\ log \subseteq log' /\ known \subseteq known' /\ seq' \in {seq, seq + 1}
  /\ \A r \in log' : r \in log \/ \E c \in Clients : r \in tx[c].rows
  /\ \A c \in Clients : \A r \in tx'[c].rows : r \in tx[c].rows \/ r.id = seq + 1

LEMMA SameRows == ASSUME db' = db PROVE KeepsRows
  BY DEF KeepsRows

LEMMA CommitKeepsRows ==
  ASSUME Store, NEW c \in Clients, Commit(c)
  PROVE  KeepsRows
<1>1. Grows(db, db', tx[c].drawn)
  BY DEF Commit, Store, GrowInv
<1>2. known' = known \cup tx[c].drawn
  BY DEF Commit
<1>3. tx[c].drawn \cap known = {}
  BY DEF Store, IdentityInv, Identified
<1> QED
  BY <1>1, <1>2, <1>3 DEF Grows, KeepsRows

LEMMA ClientRows ==
  ASSUME Store, [Next]_vars
  PROVE  KeepsRows /\ AddsRows
<1> USE DEF Store
<1>0. seq \in Nat
  BY DEF TypeOK
<1>1. CASE UNCHANGED vars
  BY <1>0, <1>1, SameRows DEF vars, AddsRows
<1>2. ASSUME NEW c \in Clients, Gathers(c) \/ Clears(c)
      PROVE  KeepsRows /\ AddsRows
  BY <1>0, <1>2, SameRows DEF Gathers, Clears, AddsRows
<1>3. ASSUME NEW c \in Clients, InsertEvent(c)
      PROVE  KeepsRows /\ AddsRows
  <2> DEFINE row == [id |-> seq + 1, event |-> tx[c].batch[tx[c].pos + 1]]
  <2>1. /\ UNCHANGED <<log, db, known>> /\ tx'[c].rows = tx[c].rows \cup {row}
        /\ \A d \in Clients \ {c} : tx'[d] = tx[d]
    BY <1>3, InsertData
  <2>2. seq' = seq + 1 /\ row.id = seq + 1
    BY <1>3 DEF InsertEvent
  <2> HIDE DEF row
  <2> QED
    BY <1>0, <2>1, <2>2, SameRows DEF AddsRows
<1>4. ASSUME NEW c \in Clients, Scan(c)
      PROVE  KeepsRows /\ AddsRows
  <2>1. /\ UNCHANGED <<seq, log, db, known>>
        /\ \A d \in Clients : tx'[d].rows = tx[d].rows
    BY <1>4, ScanData DEF Scan
  <2> QED
    BY <1>0, <2>1, SameRows DEF AddsRows
<1>5. ASSUME NEW c \in Clients, Execute(c)
      PROVE  KeepsRows /\ AddsRows
  <2>1. /\ UNCHANGED <<seq, log, db, known>>
        /\ \A d \in Clients : tx'[d].rows = tx[d].rows
    BY <1>5, ExecuteTodo DEF Execute
  <2> QED
    BY <1>0, <2>1, SameRows DEF AddsRows
<1>6. ASSUME NEW c \in Clients, Commit(c)
      PROVE  KeepsRows /\ AddsRows
  <2>1. /\ log' = log \cup tx[c].rows /\ known' = known \cup tx[c].drawn /\ seq' = seq
        /\ tx'[c] = Idle /\ \A d \in Clients \ {c} : tx'[d] = tx[d]
    BY <1>6 DEF Commit, TypeOK
  <2>2. tx'[c].rows = {}
    BY <2>1 DEF Idle
  <2> QED
    BY <1>0, <1>6, <2>1, <2>2, CommitKeepsRows DEF AddsRows
<1> QED
  BY <1>1, <1>2, <1>3, <1>4, <1>5, <1>6, Steps

LEMMA StoreStep == Store /\ [Next]_vars => Store'
<1> SUFFICES ASSUME Store, [Next]_vars PROVE Store'
  OBVIOUS
<1>1. TypeOK' /\ Exclusion' /\ NothingDangles'
  BY TypeStep, ExclusionStep, DanglesStep DEF Store
<1>2. IdentityInv' /\ GrowInv'
  BY IdentityStep, GrowStep DEF Store
<1>3. IdInv' /\ Apart'
  BY IdStep, ApartStep DEF Store
<1>4. RowsKnown'
  BY ClientRows DEF Store, RowsKnown, KeepsRows, AddsRows
<1> QED
  BY <1>1, <1>2, <1>3, <1>4 DEF Store

LEMMA StoreInit == Init => Store
<1> SUFFICES ASSUME Init PROVE Store
  OBVIOUS
<1>1. /\ db = EmptyDb /\ log = {} /\ known = {}
      /\ \A c \in Clients : /\ tx[c].delta = EmptyDb /\ tx[c].todo = << >>
                            /\ tx[c].batch = << >> /\ tx[c].rows = {}
                            /\ tx[c].drawn = {}
  BY DEF Init, Idle
<1>2. \A c \in Clients : View(c) = EmptyDb
  BY <1>1, EmptyDelta, EmptyDbType DEF View
<1>3. IdentityInv
  BY <1>1, NoItems DEF IdentityInv, Identified
<1>4. GrowInv
  BY <1>1, <1>2, GrowsNot DEF GrowInv
<1>5. IdInv /\ Apart
  BY <1>1 DEF IdInv, LogIdsUnique, AllRows, Apart
<1>6. NothingDangles /\ RowsKnown
  BY <1>1, <1>2, EmptyTables DEF NothingDangles, Anchored, RowsKnown
<1> QED
  BY <1>3, <1>4, <1>5, <1>6, TypeInit, ExclusionInit DEF Store

-----------------------------------------------------------------------------
(* A DELETE.                                                                *)

\* The step takes rows that no transaction has written, and with a node all
\* that refers to it, also from what a transaction is building.
Drops ==
  /\ UNCHANGED <<seq, tx, known, calls>>
  /\ log' \subseteq log /\ db' \in Db
  /\ \A n \in NodeIds : \/ db'.nodes[n] = db.nodes[n]
                        \/ /\ db'.nodes[n] = NoRow
                           /\ \A c \in Clients : tx[c].delta.nodes[n] = NoRow
  /\ \A e \in EdgeIds : \/ db'.edges[e] = db.edges[e]
                        \/ /\ db'.edges[e] = NoRow
                           /\ \A c \in Clients : tx[c].delta.edges[e] = NoRow
  /\ \A m \in NodeIds \X Models :
       \/ db'.embeddings[m] = db.embeddings[m]
       \/ /\ db'.embeddings[m] = NoRow
          /\ \A c \in Clients : tx[c].delta.embeddings[m] = NoRow
  /\ Anchored(db')
  /\ \A c \in Clients : Anchored(View(c)')

LEMMA DroppedGrows ==
  ASSUME TypeOK, Drops, NEW c \in Clients, Grows(db, View(c), tx[c].drawn)
  PROVE  Grows(db', View(c)', tx[c].drawn)
<1> DEFINE delta == tx[c].delta
           old == View(c)
           new == View(c)'
<1>1. TypeOK' /\ tx' = tx
  BY DEF Drops, TypeOK
<1>2. /\ \A n \in NodeIds : old.nodes[n] =
           IF delta.nodes[n] = NoRow THEN db.nodes[n] ELSE delta.nodes[n]
      /\ \A e \in EdgeIds : old.edges[e] =
           IF delta.edges[e] = NoRow THEN db.edges[e] ELSE delta.edges[e]
      /\ \A m \in NodeIds \X Models : old.embeddings[m] =
           IF delta.embeddings[m] = NoRow THEN db.embeddings[m] ELSE delta.embeddings[m]
  BY ViewRows
<1>3. /\ \A n \in NodeIds : new.nodes[n] =
           IF delta.nodes[n] = NoRow THEN db'.nodes[n] ELSE delta.nodes[n]
      /\ \A e \in EdgeIds : new.edges[e] =
           IF delta.edges[e] = NoRow THEN db'.edges[e] ELSE delta.edges[e]
      /\ \A m \in NodeIds \X Models : new.embeddings[m] =
           IF delta.embeddings[m] = NoRow THEN db'.embeddings[m] ELSE delta.embeddings[m]
  <2>1. /\ DOMAIN db'.nodes = NodeIds /\ DOMAIN db'.edges = EdgeIds
        /\ DOMAIN db'.embeddings = NodeIds \X Models
    BY DEF Drops, Db
  <2> QED
    BY <1>1, <2>1 DEF View, OverlayDb, Overlay
<1> HIDE DEF old, new, delta
<1>4. Grows(db, old, tx[c].drawn)
  BY DEF old
<1>5. /\ \A n \in NodeIds : \/ db'.nodes[n] = db.nodes[n]
                            \/ db'.nodes[n] = NoRow /\ delta.nodes[n] = NoRow
      /\ \A e \in EdgeIds : \/ db'.edges[e] = db.edges[e]
                            \/ db'.edges[e] = NoRow /\ delta.edges[e] = NoRow
      /\ \A m \in NodeIds \X Models :
           \/ db'.embeddings[m] = db.embeddings[m]
           \/ db'.embeddings[m] = NoRow /\ delta.embeddings[m] = NoRow
  BY DEF Drops, delta
<1>6. \A n \in NodeIds : db'.nodes[n] # NoRow =>
        /\ new.nodes[n] # NoRow
        /\ new.nodes[n].ns = db'.nodes[n].ns /\ new.nodes[n].key = db'.nodes[n].key
        /\ db'.nodes[n].retracted => new.nodes[n].retracted
  BY <1>2, <1>3, <1>4, <1>5 DEF Grows
<1>7. \A e \in EdgeIds : db'.edges[e] # NoRow =>
        /\ new.edges[e] # NoRow /\ new.edges[e].ns = db'.edges[e].ns
        /\ db'.edges[e].retracted => new.edges[e].retracted
  BY <1>2, <1>3, <1>4, <1>5 DEF Grows
<1>8. \A m \in NodeIds \X Models : db'.embeddings[m] # NoRow => new.embeddings[m] # NoRow
  BY <1>3
<1>9. /\ \A n \in NodeIds :
           db'.nodes[n] = NoRow /\ new.nodes[n] # NoRow => n \in tx[c].drawn
      /\ \A e \in EdgeIds :
           db'.edges[e] = NoRow /\ new.edges[e] # NoRow => e \in tx[c].drawn
  BY <1>2, <1>3, <1>4, <1>5 DEF Grows
<1> QED
  BY <1>6, <1>7, <1>8, <1>9 DEF Grows, new

LEMMA StoreDrops == Store /\ Drops => Store'
<1> SUFFICES ASSUME Store, Drops PROVE Store'
  OBVIOUS
<1> USE DEF Store
<1>1. TypeOK' /\ Exclusion' /\ NothingDangles'
  BY DEF Drops, TypeOK, Exclusion, NothingDangles
<1>2. GrowInv'
  BY DroppedGrows DEF GrowInv, Drops
<1>3. IdentityInv'
  <2>1. tx' = tx /\ known' = known /\ log' \subseteq log
    BY DEF Drops
  <2> QED
    BY <2>1 DEF IdentityInv, Identified
<1>4. IdInv' /\ Apart'
  <2>1. tx' = tx /\ seq' = seq /\ log' \subseteq log
    BY DEF Drops
  <2> QED
    BY <2>1 DEF IdInv, LogIdsUnique, AllRows, Apart
<1>5. RowsKnown'
  BY DEF Drops, RowsKnown
<1> QED
  BY <1>1, <1>2, <1>3, <1>4, <1>5

LEMMA DeleteEdgesDrops ==
  ASSUME Store, DeleteEdges
  PROVE  Drops /\ UNCHANGED <<log, db.nodes, db.embeddings>>
<1> DEFINE edges == [e \in EdgeIds |-> IF e \in purge.found THEN NoRow ELSE db.edges[e]]
<1>1. /\ db \in Db /\ tx \in [Clients -> Tx]
      /\ UNCHANGED <<seq, tx, known, calls, log>>
      /\ db' = [db EXCEPT !.edges = edges]
      /\ \A c \in Clients : \A e \in purge.found : tx[c].delta.edges[e] = NoRow
  BY DEF DeleteEdges, Ends, EdgesFree, Store, TypeOK
<1>2. edges \in [EdgeIds -> EdgeRow \cup {NoRow}]
  BY <1>1 DEF Db
<1>3. \A e \in EdgeIds : edges[e] = IF e \in purge.found THEN NoRow ELSE db.edges[e]
  OBVIOUS
<1> HIDE DEF edges
<1>4. /\ db' \in Db /\ db'.edges = edges
      /\ db'.nodes = db.nodes /\ db'.embeddings = db.embeddings
  BY <1>1, <1>2 DEF Db
<1>5. Anchored(db')
  BY <1>3, <1>4 DEF Store, NothingDangles, Anchored
<1>6. ASSUME NEW c \in Clients PROVE Anchored(View(c)')
  <2>1. TypeOK'
    BY <1>1, <1>4 DEF Store, TypeOK
  <2>2. Anchored(View(c)) /\ TypeOK
    BY DEF Store, NothingDangles
  <2>3. /\ \A n \in NodeIds : View(c)'.nodes[n] = View(c).nodes[n]
        /\ \A m \in NodeIds \X Models : View(c)'.embeddings[m] = View(c).embeddings[m]
    BY <1>1, <1>4 DEF View, OverlayDb, Overlay
  <2>4. \A e \in EdgeIds : View(c)'.edges[e] \in {View(c).edges[e], NoRow}
    <3>1. \A e \in EdgeIds : View(c).edges[e] =
            IF tx[c].delta.edges[e] = NoRow THEN db.edges[e] ELSE tx[c].delta.edges[e]
      BY <2>2, ViewRows
    <3>2. \A e \in EdgeIds : View(c)'.edges[e] =
            IF tx[c].delta.edges[e] = NoRow THEN edges[e] ELSE tx[c].delta.edges[e]
      <4>1. DOMAIN edges = EdgeIds
        BY <1>2
      <4> QED
        BY <1>1, <1>4, <4>1 DEF View, OverlayDb, Overlay
    <3> QED
      BY <1>3, <3>1, <3>2
  <2>5. \A e \in EdgeIds : View(c).edges[e] # NoRow =>
          View(c).edges[e].source \in NodeIds /\ View(c).edges[e].target \in NodeIds
    <3>1. View(c) \in Db
      BY <2>2, ViewType
    <3> QED
      BY <3>1 DEF Db, EdgeRow
  <2> QED
    BY <2>2, <2>3, <2>4, <2>5 DEF Anchored
<1> QED
  BY <1>1, <1>3, <1>4, <1>5, <1>6 DEF Drops

LEMMA WithoutType ==
  ASSUME TypeOK, NEW nodes
  PROVE  Without(nodes) \in Db
<1>1. db \in Db
  BY DEF TypeOK
<1> QED
  BY <1>1 DEF Without, Db

\* What is left of references when nodes go with all that refers to them.
LEMMA WithoutAnchored ==
  ASSUME NEW d, NEW gone,
         Anchored(d), NEW left,
         \A n \in NodeIds \ gone : left.nodes[n] = d.nodes[n],
         \A e \in EdgeIds : left.edges[e] # NoRow =>
           /\ left.edges[e] = d.edges[e]
           /\ d.edges[e].source \in NodeIds \ gone /\ d.edges[e].target \in NodeIds \ gone,
         \A m \in NodeIds \X Models : left.embeddings[m] # NoRow =>
           left.embeddings[m] = d.embeddings[m] /\ m[1] \in NodeIds \ gone
  PROVE  Anchored(left)
  BY DEF Anchored

LEMMA DeleteNodesDrops ==
  ASSUME Store, DeleteNodes
  PROVE  /\ Drops /\ UNCHANGED log
         /\ \A n \in NodeIds : db'.nodes[n] = IF n \in purge.found THEN NoRow ELSE db.nodes[n]
         /\ \A e \in EdgeIds : db'.edges[e] =
              IF e \in EdgesAt(db.edges, purge.found) THEN NoRow ELSE db.edges[e]
<1> DEFINE gone == purge.found
           cut == EdgesAt(db.edges, gone)
<1>1. /\ db \in Db /\ tx \in [Clients -> Tx] /\ TypeOK
      /\ UNCHANGED <<seq, tx, known, calls, log>>
      /\ db' = Without(gone) /\ db' \in Db
  BY WithoutType DEF DeleteNodes, Ends, Store, TypeOK
<1>2. ASSUME NEW c \in Clients
      PROVE  /\ \A n \in gone : tx[c].delta.nodes[n] = NoRow
             /\ \A e \in cut : tx[c].delta.edges[e] = NoRow
             /\ \A n \in gone, m \in Models : tx[c].delta.embeddings[<<n, m>>] = NoRow
             /\ \A e \in EdgeIds : tx[c].delta.edges[e] # NoRow =>
                  /\ tx[c].delta.edges[e].source \notin gone
                  /\ tx[c].delta.edges[e].target \notin gone
  BY DEF DeleteNodes, NodesFree, EdgesFree, EdgesAt
<1>3. /\ \A n \in NodeIds : db'.nodes[n] = IF n \in gone THEN NoRow ELSE db.nodes[n]
      /\ \A e \in EdgeIds : db'.edges[e] = IF e \in cut THEN NoRow ELSE db.edges[e]
      /\ \A m \in NodeIds \X Models :
           db'.embeddings[m] = IF m[1] \in gone THEN NoRow ELSE db.embeddings[m]
  BY <1>1 DEF Without
<1>4. \A e \in EdgeIds : db.edges[e] # NoRow /\ e \notin cut =>
        db.edges[e].source \notin gone /\ db.edges[e].target \notin gone
  BY DEF EdgesAt
<1>5. \A e \in EdgeIds : db.edges[e] # NoRow =>
        db.edges[e].source \in NodeIds /\ db.edges[e].target \in NodeIds
  BY <1>1 DEF Db, EdgeRow
<1> HIDE DEF gone, cut
<1>6. Anchored(db')
  <2>1. Anchored(db)
    BY DEF Store, NothingDangles
  <2>2. \A n \in NodeIds \ gone : db'.nodes[n] = db.nodes[n]
    BY <1>3
  <2>3. \A e \in EdgeIds : db'.edges[e] # NoRow =>
          /\ db'.edges[e] = db.edges[e]
          /\ db.edges[e].source \in NodeIds \ gone /\ db.edges[e].target \in NodeIds \ gone
    BY <1>3, <1>4, <1>5
  <2>4. \A m \in NodeIds \X Models : db'.embeddings[m] # NoRow =>
          db'.embeddings[m] = db.embeddings[m] /\ m[1] \in NodeIds \ gone
    BY <1>3
  <2> QED
    BY <2>1, <2>2, <2>3, <2>4, WithoutAnchored
<1>7. ASSUME NEW c \in Clients PROVE Anchored(View(c)')
  <2> DEFINE delta == tx[c].delta
             old == View(c)
             new == View(c)'
  <2>1. Anchored(old) /\ old \in Db
    BY <1>1, ViewType DEF Store, NothingDangles
  <2>2. /\ \A n \in NodeIds : old.nodes[n] =
             IF delta.nodes[n] = NoRow THEN db.nodes[n] ELSE delta.nodes[n]
        /\ \A e \in EdgeIds : old.edges[e] =
             IF delta.edges[e] = NoRow THEN db.edges[e] ELSE delta.edges[e]
        /\ \A m \in NodeIds \X Models : old.embeddings[m] =
             IF delta.embeddings[m] = NoRow THEN db.embeddings[m] ELSE delta.embeddings[m]
    BY <1>1, ViewRows
  <2>3. /\ \A n \in NodeIds : new.nodes[n] =
             IF delta.nodes[n] = NoRow THEN db'.nodes[n] ELSE delta.nodes[n]
        /\ \A e \in EdgeIds : new.edges[e] =
             IF delta.edges[e] = NoRow THEN db'.edges[e] ELSE delta.edges[e]
        /\ \A m \in NodeIds \X Models : new.embeddings[m] =
             IF delta.embeddings[m] = NoRow THEN db'.embeddings[m] ELSE delta.embeddings[m]
    <3>1. /\ DOMAIN db'.nodes = NodeIds /\ DOMAIN db'.edges = EdgeIds
          /\ DOMAIN db'.embeddings = NodeIds \X Models
      BY <1>1 DEF Db
    <3> QED
      BY <1>1, <3>1 DEF View, OverlayDb, Overlay
  <2>4. \A e \in EdgeIds : old.edges[e] # NoRow =>
          old.edges[e].source \in NodeIds /\ old.edges[e].target \in NodeIds
    BY <2>1 DEF Db, EdgeRow
  <2> HIDE DEF old, new, delta
  <2>5. \A n \in NodeIds \ gone : new.nodes[n] = old.nodes[n]
    BY <1>3, <2>2, <2>3
  <2>6. \A e \in EdgeIds : new.edges[e] # NoRow =>
          /\ new.edges[e] = old.edges[e]
          /\ old.edges[e].source \in NodeIds \ gone /\ old.edges[e].target \in NodeIds \ gone
    BY <1>2, <1>3, <1>4, <2>2, <2>3, <2>4 DEF delta
  <2>7. \A m \in NodeIds \X Models : new.embeddings[m] # NoRow =>
          new.embeddings[m] = old.embeddings[m] /\ m[1] \in NodeIds \ gone
    BY <1>2, <1>3, <2>2, <2>3 DEF delta
  <2>8. Anchored(new)
    BY <2>1, <2>5, <2>6, <2>7, WithoutAnchored
  <2> QED
    BY <2>8 DEF new
<1>8. /\ \A m \in NodeIds \X Models : m[1] \in gone =>
           \A c \in Clients : tx[c].delta.embeddings[m] = NoRow
  BY <1>2
<1> QED
  BY <1>1, <1>2, <1>3, <1>6, <1>7, <1>8 DEF Drops, gone, cut

LEMMA DeleteEventsDrops ==
  ASSUME Store, DeleteEvents
  PROVE  Drops /\ db' = db /\ log' = log \ purge.found
<1>1. /\ UNCHANGED <<seq, tx, known, calls, db>> /\ log' = log \ purge.found
  BY DEF DeleteEvents, Ends
<1>2. \A c \in Clients : View(c)' = View(c)
  BY <1>1 DEF View
<1> QED
  BY <1>1, <1>2 DEF Drops, Store, TypeOK, NothingDangles

-----------------------------------------------------------------------------
(* The invariant is inductive.                                              *)

\* A doomed row that is gone stays gone while clients write, and one that is
\* there stays in its namespace.
LEMMA DoomedBesideClients ==
  ASSUME Store, DoomedIsOld, KeepsRows, AddsRows, doomed' = doomed
  PROVE  /\ DoomedIsOld'
         /\ \A n \in doomed.nodes :
              /\ db.nodes[n] = NoRow => db'.nodes[n] = NoRow
              /\ db.nodes[n] # NoRow => db'.nodes[n] # NoRow /\ db'.nodes[n].ns = db.nodes[n].ns
         /\ \A e \in doomed.edges :
              /\ db.edges[e] = NoRow => db'.edges[e] = NoRow
              /\ db.edges[e] # NoRow => db'.edges[e] # NoRow /\ db'.edges[e].ns = db.edges[e].ns
         /\ log' \cap doomed.events \subseteq log
<1>1. DoomedIsOld'
  <2>1. seq \in Nat /\ seq' \in Nat /\ seq <= seq' /\ known \subseteq known'
    BY DEF Store, TypeOK, AddsRows
  <2>3. \A r \in doomed.events : r.id \in Nat /\ r.id <= seq
    BY DEF DoomedIsOld
  <2>4. \A c \in Clients : tx'[c].rows \cap doomed.events = {}
    <3>1. ASSUME NEW c \in Clients, NEW r \in tx'[c].rows, r \in doomed.events
          PROVE  FALSE
      <4>1. r \notin tx[c].rows
        BY <3>1 DEF DoomedIsOld
      <4>2. r.id = seq + 1
        BY <3>1, <4>1 DEF AddsRows
      <4> QED
        BY <2>1, <2>3, <3>1, <4>2
    <3> QED
      BY <3>1
  <2>5. \A r \in doomed.events : r.id \in Nat /\ r.id <= seq'
    BY <2>1, <2>3 DEF AddsRows
  <2> QED
    BY <2>1, <2>4, <2>5 DEF DoomedIsOld
<1>2. log' \cap doomed.events \subseteq log
  BY DEF DoomedIsOld, AddsRows
<1>3. doomed.nodes \subseteq NodeIds \cap known /\ doomed.edges \subseteq EdgeIds \cap known
  BY DEF DoomedIsOld
<1> QED
  BY <1>1, <1>2, <1>3 DEF KeepsRows

LEMMA PurgeBesideClients ==
  ASSUME Store, PurgeInv, [Next]_vars, UNCHANGED purgeVars
  PROVE  PurgeInv'
<1>1. KeepsRows /\ AddsRows /\ DoomedIsOld
  BY ClientRows DEF PurgeInv
<1>2. purge' = purge /\ doomed' = doomed
  BY DEF purgeVars
<1>3. /\ DoomedIsOld'
      /\ \A n \in doomed.nodes :
           /\ db.nodes[n] = NoRow => db'.nodes[n] = NoRow
           /\ db.nodes[n] # NoRow => db'.nodes[n] # NoRow /\ db'.nodes[n].ns = db.nodes[n].ns
      /\ \A e \in doomed.edges :
           /\ db.edges[e] = NoRow => db'.edges[e] = NoRow
           /\ db.edges[e] # NoRow => db'.edges[e] # NoRow /\ db'.edges[e].ns = db.edges[e].ns
      /\ log' \cap doomed.events \subseteq log
  BY <1>1, <1>2, DoomedBesideClients
<1>4. PurgeForm' /\ purge'.statement \in Deletions \cup {"none", "audit"}
  BY <1>2 DEF PurgeInv, PurgeForm
<1>5. ASSUME purge'.statement # "none" PROVE DoomedNodes' /\ DoomedEdges' /\ DoomedEvents'
  BY <1>2, <1>3, <1>5 DEF PurgeInv, DoomedNodes, DoomedEdges, DoomedEvents
<1>6. Found'
  <2>1. FoundEdges => FoundEdges'
    BY <1>1, <1>2, <1>3 DEF FoundEdges, KeepsRows
  <2>2. FoundNodes => FoundNodes'
    BY <1>1, <1>2, <1>3 DEF FoundNodes, KeepsRows
  <2>3. FoundEvents => FoundEvents'
    BY <1>2, <1>3 DEF FoundEvents
  <2> QED
    BY <1>2, <2>1, <2>2, <2>3 DEF PurgeInv, Found
<1>7. Gone'
  <2>1. /\ EdgesGone => EdgesGone'
        /\ NodesGone => NodesGone'
        /\ EventsGone => EventsGone'
    BY <1>2, <1>3 DEF EdgesGone, NodesGone, EventsGone
  <2> QED
    BY <1>2, <2>1 DEF PurgeInv, Gone
<1> QED
  BY <1>3, <1>4, <1>5, <1>6, <1>7 DEF PurgeInv

LEMMA PurgeStarts ==
  ASSUME Store, PurgeInv, PurgeNamespace
  PROVE  PurgeInv'
<1>1. PICK ns \in Namespaces :
        /\ purge' = [statement |-> "edges", ns |-> ns, found |-> NoRow]
        /\ doomed' = HeldBy(ns) /\ UNCHANGED vars
  BY DEF PurgeNamespace
<1>2. /\ purge'.statement = "edges" /\ purge'.ns = ns /\ purge'.found = NoRow
      /\ doomed'.nodes = NodesOf(ns) /\ doomed'.edges = EdgesOf(ns)
      /\ doomed'.events = EventsOf(ns)
      /\ db' = db /\ log' = log /\ seq' = seq /\ known' = known /\ tx' = tx
  BY <1>1 DEF HeldBy, vars
<1>3. PurgeForm'
  BY <1>1 DEF PurgeForm
<1>4. DoomedIsOld'
  <2>1. NodesOf(ns) \subseteq NodeIds \cap known /\ EdgesOf(ns) \subseteq EdgeIds \cap known
    BY DEF Store, RowsKnown, NodesOf, EdgesOf
  <2>2. \A r \in EventsOf(ns) : r \in log /\ r.id \in Nat /\ r.id <= seq
    BY DEF Store, TypeOK, LogRow, IdInv, AllRows, EventsOf
  <2>3. \A c \in Clients : tx[c].rows \cap EventsOf(ns) = {}
    BY <2>2 DEF Store, Apart
  <2> QED
    BY <1>2, <2>1, <2>2, <2>3 DEF DoomedIsOld
<1>5. DoomedNodes' /\ DoomedEdges' /\ DoomedEvents'
  BY <1>2 DEF DoomedNodes, DoomedEdges, DoomedEvents, NodesOf, EdgesOf, EventsOf
<1>6. Found' /\ Gone'
  BY <1>2 DEF Found, Gone
<1> QED
  BY <1>2, <1>3, <1>4, <1>5, <1>6 DEF PurgeInv, Deletions

\* The parts that are not about what is found move with purge.ns and the rows.
LEMMA PurgeMoves ==
  ASSUME PurgeInv, doomed' = doomed, UNCHANGED <<seq, tx, known>>,
         purge.statement # "none", purge'.ns = purge.ns,
         \A n \in NodeIds : db'.nodes[n] \in {db.nodes[n], NoRow},
         \A e \in EdgeIds : db'.edges[e] \in {db.edges[e], NoRow},
         log' \subseteq log
  PROVE  /\ DoomedIsOld' /\ DoomedNodes' /\ DoomedEdges' /\ DoomedEvents'
         /\ EdgesGone => EdgesGone'
         /\ NodesGone => NodesGone'
         /\ EventsGone => EventsGone'
<1>1. DoomedIsOld /\ DoomedNodes /\ DoomedEdges /\ DoomedEvents
  BY DEF PurgeInv
<1>2. doomed.nodes \subseteq NodeIds /\ doomed.edges \subseteq EdgeIds
  BY <1>1 DEF DoomedIsOld
<1>3. DoomedIsOld'
  BY <1>1 DEF DoomedIsOld
<1>4. DoomedNodes' /\ DoomedEdges' /\ DoomedEvents'
  BY <1>1, <1>2 DEF DoomedNodes, DoomedEdges, DoomedEvents
<1> QED
  BY <1>2, <1>3, <1>4 DEF EdgesGone, NodesGone, EventsGone

LEMMA FindFinds ==
  ASSUME Store, PurgeInv, Find
  PROVE  PurgeInv'
<1> DEFINE rows == CASE purge.statement = "edges" -> EdgesOf(purge.ns)
                     [] purge.statement = "nodes" -> NodesOf(purge.ns)
                     [] purge.statement = "events" -> EventsOf(purge.ns)
<1>1. /\ purge.statement \in Deletions /\ purge' = [purge EXCEPT !.found = rows]
      /\ UNCHANGED <<seq, log, db, tx, known>> /\ doomed' = doomed
  BY DEF Find, Deletions, vars
<1>2. /\ purge.statement = "edges" => rows = EdgesOf(purge.ns)
      /\ purge.statement = "nodes" => rows = NodesOf(purge.ns)
      /\ purge.statement = "events" => rows = EventsOf(purge.ns)
  OBVIOUS
<1> HIDE DEF rows
<1>3. purge' = [statement |-> purge.statement, ns |-> purge.ns, found |-> rows]
  BY <1>1 DEF PurgeInv, PurgeForm
<1>4. /\ PurgeForm' /\ purge'.statement = purge.statement
      /\ purge'.ns = purge.ns /\ purge'.found = rows
  BY <1>3 DEF PurgeForm
<1>5. /\ DoomedIsOld' /\ DoomedNodes' /\ DoomedEdges' /\ DoomedEvents'
      /\ EdgesGone => EdgesGone'
      /\ NodesGone => NodesGone'
      /\ EventsGone => EventsGone'
  BY <1>1, <1>4, PurgeMoves DEF Deletions
<1>6. DoomedIsOld /\ DoomedNodes /\ DoomedEdges /\ DoomedEvents
  BY <1>1 DEF PurgeInv, Deletions
<1>7. purge.statement = "edges" => FoundEdges'
  BY <1>1, <1>2, <1>4, <1>6 DEF FoundEdges, EdgesOf, DoomedEdges, DoomedIsOld
<1>8. purge.statement = "nodes" => FoundNodes'
  BY <1>1, <1>2, <1>4, <1>6 DEF FoundNodes, NodesOf, DoomedNodes, DoomedIsOld
<1>9. purge.statement = "events" => FoundEvents'
  BY <1>1, <1>2, <1>4, <1>6 DEF FoundEvents, EventsOf, DoomedEvents
<1>10. Gone'
  BY <1>4, <1>5 DEF PurgeInv, Gone
<1> QED
  BY <1>1, <1>4, <1>5, <1>7, <1>8, <1>9, <1>10 DEF PurgeInv, Found

LEMMA NextStatement ==
  ASSUME PurgeInv, NEW statement, NEW next, Ends(statement, next)
  PROVE  /\ PurgeForm' /\ purge.statement = statement /\ purge'.statement = next
         /\ purge'.ns = purge.ns /\ purge'.found = NoRow /\ purge.found # NoRow
         /\ doomed' = doomed /\ UNCHANGED <<seq, tx, known>>
<1>1. purge' = [statement |-> next, ns |-> purge.ns, found |-> NoRow]
  BY DEF Ends, PurgeInv, PurgeForm
<1> QED
  BY <1>1 DEF Ends, PurgeForm

LEMMA EdgesDeleted ==
  ASSUME Store, PurgeInv, DeleteEdges
  PROVE  PurgeInv'
<1>1. /\ PurgeForm' /\ purge.statement = "edges" /\ purge'.statement = "nodes"
      /\ purge'.ns = purge.ns /\ purge'.found = NoRow /\ purge.found # NoRow
      /\ doomed' = doomed /\ UNCHANGED <<seq, tx, known>>
  BY NextStatement DEF DeleteEdges
<1>2. /\ \A e \in EdgeIds : db'.edges[e] =
           IF e \in purge.found THEN NoRow ELSE db.edges[e]
      /\ db'.nodes = db.nodes /\ log' = log
  BY DeleteEdgesDrops DEF DeleteEdges, Store, TypeOK, Db
<1>3. DoomedIsOld' /\ DoomedNodes' /\ DoomedEdges' /\ DoomedEvents'
  BY <1>1, <1>2, PurgeMoves
<1>4. EdgesGone'
  <2>1. FoundEdges /\ doomed.edges \subseteq EdgeIds
    BY <1>1 DEF PurgeInv, Found, DoomedIsOld
  <2> QED
    BY <1>1, <1>2, <2>1 DEF FoundEdges, EdgesGone
<1> QED
  BY <1>1, <1>3, <1>4 DEF PurgeInv, Found, Gone, Deletions

LEMMA NodesDeleted ==
  ASSUME Store, PurgeInv, DeleteNodes
  PROVE  PurgeInv'
<1>1. /\ PurgeForm' /\ purge.statement = "nodes" /\ purge'.statement = "events"
      /\ purge'.ns = purge.ns /\ purge'.found = NoRow /\ purge.found # NoRow
      /\ doomed' = doomed /\ UNCHANGED <<seq, tx, known>>
  BY NextStatement DEF DeleteNodes
<1>2. /\ \A n \in NodeIds : db'.nodes[n] =
           IF n \in purge.found THEN NoRow ELSE db.nodes[n]
      /\ \A e \in EdgeIds : db'.edges[e] \in {db.edges[e], NoRow}
      /\ log' = log
  BY DeleteNodesDrops
<1>3. /\ DoomedIsOld' /\ DoomedNodes' /\ DoomedEdges' /\ DoomedEvents'
      /\ EdgesGone => EdgesGone'
  BY <1>1, <1>2, PurgeMoves
<1>4. EdgesGone'
  BY <1>1, <1>3 DEF PurgeInv, Gone
<1>5. NodesGone'
  <2>1. FoundNodes /\ doomed.nodes \subseteq NodeIds
    BY <1>1 DEF PurgeInv, Found, DoomedIsOld
  <2> QED
    BY <1>1, <1>2, <2>1 DEF FoundNodes, NodesGone
<1> QED
  BY <1>1, <1>3, <1>4, <1>5 DEF PurgeInv, Found, Gone, Deletions

LEMMA EventsDeleted ==
  ASSUME Store, PurgeInv, DeleteEvents
  PROVE  PurgeInv'
<1>1. /\ PurgeForm' /\ purge.statement = "events" /\ purge'.statement = "audit"
      /\ purge'.ns = purge.ns /\ purge'.found = NoRow /\ purge.found # NoRow
      /\ doomed' = doomed /\ UNCHANGED <<seq, tx, known>>
  BY NextStatement DEF DeleteEvents
<1>2. db' = db /\ log' = log \ purge.found
  BY DeleteEventsDrops
<1>3. /\ DoomedIsOld' /\ DoomedNodes' /\ DoomedEdges' /\ DoomedEvents'
      /\ EdgesGone => EdgesGone'
      /\ NodesGone => NodesGone'
  BY <1>1, <1>2, PurgeMoves
<1>4. EdgesGone' /\ NodesGone'
  BY <1>1, <1>3 DEF PurgeInv, Gone
<1>5. EventsGone'
  <2>1. FoundEvents
    BY <1>1 DEF PurgeInv, Found
  <2> QED
    BY <1>1, <1>2, <2>1 DEF FoundEvents, EventsGone
<1> QED
  BY <1>1, <1>3, <1>4, <1>5 DEF PurgeInv, Found, Gone, Deletions

LEMMA PurgeOver ==
  ASSUME PurgeInv, purge' = NoPurge, doomed' = doomed, UNCHANGED vars
  PROVE  PurgeInv'
<1>1. PurgeForm' /\ purge'.statement = "none" /\ purge'.found = NoRow
  BY DEF NoPurge, PurgeForm
<1>2. DoomedIsOld'
  BY DEF PurgeInv, DoomedIsOld, vars
<1> QED
  BY <1>1, <1>2 DEF PurgeInv, Found, Gone

LEMMA PurgeStep == Store /\ PurgeInv /\ [PurgeNext]_allVars => Store' /\ PurgeInv'
<1> SUFFICES ASSUME Store, PurgeInv, [PurgeNext]_allVars PROVE Store' /\ PurgeInv'
  OBVIOUS
<1>1. CASE [Next]_vars /\ UNCHANGED purgeVars
  BY <1>1, StoreStep, PurgeBesideClients
<1>2. CASE PurgeNamespace
  <2>1. UNCHANGED vars
    BY <1>2 DEF PurgeNamespace
  <2> QED
    BY <1>2, <2>1, StoreStep, PurgeStarts
<1>3. CASE Find
  <2>1. UNCHANGED vars
    BY <1>3 DEF Find
  <2> QED
    BY <1>3, <2>1, StoreStep, FindFinds
<1>4. CASE DeleteEdges
  BY <1>4, DeleteEdgesDrops, StoreDrops, EdgesDeleted
<1>5. CASE DeleteNodes
  BY <1>5, DeleteNodesDrops, StoreDrops, NodesDeleted
<1>6. CASE DeleteEvents
  BY <1>6, DeleteEventsDrops, StoreDrops, EventsDeleted
<1>7. CASE Audit \/ CutOff
  <2>1. UNCHANGED vars /\ purge' = NoPurge /\ doomed' = doomed
    BY <1>7 DEF Audit, CutOff
  <2> QED
    BY <2>1, StoreStep, PurgeOver
<1> QED
  BY <1>1, <1>2, <1>3, <1>4, <1>5, <1>6, <1>7 DEF PurgeNext, allVars

LEMMA PurgeBegins == PurgeInit => Store /\ PurgeInv
<1> SUFFICES ASSUME PurgeInit PROVE Store /\ PurgeInv
  OBVIOUS
<1>1. /\ purge.statement = "none" /\ purge.found = NoRow /\ PurgeForm
      /\ doomed.nodes = {} /\ doomed.edges = {} /\ doomed.events = {}
  BY DEF PurgeInit, NoPurge, NothingHeld, PurgeForm
<1> QED
  BY <1>1, StoreInit DEF PurgeInit, PurgeInv, DoomedIsOld, Found, Gone

-----------------------------------------------------------------------------
(* The theorems.                                                            *)

\* The tables, the log and the transactions keep their types while a purge
\* deletes rows under them.
THEOREM PurgedStoreTypes == PurgeSpec => []TypeOK
<1>1. Store => TypeOK
  BY DEF Store
<1> QED
  BY <1>1, PurgeBegins, PurgeStep, PTL DEF PurgeSpec

\* However the statements of a purge interleave with transactions that write
\* edges and embeddings, no committed reference and none that a transaction is
\* about to commit ever loses its node.
THEOREM PurgeLeavesNothingDangling == PurgeSpec => []NothingDangles
<1>1. Store => NothingDangles
  BY DEF Store
<1> QED
  BY <1>1, PurgeBegins, PurgeStep, PTL DEF PurgeSpec

\* PurgeIsComplete, of one step.
CompleteStep ==
  audit' # audit =>
    /\ \A n \in doomed.nodes : db.nodes[n] = NoRow
    /\ \A n \in doomed.nodes, m \in Models : db.embeddings[<<n, m>>] = NoRow
    /\ \A e \in doomed.edges : db.edges[e] = NoRow
    /\ log \cap doomed.events = {}

LEMMA AuditIsLast ==
  ASSUME Store, PurgeInv, [PurgeNext]_allVars
  PROVE  CompleteStep
<1> SUFFICES ASSUME audit' # audit
             PROVE  /\ \A n \in doomed.nodes : db.nodes[n] = NoRow
                    /\ \A n \in doomed.nodes, m \in Models : db.embeddings[<<n, m>>] = NoRow
                    /\ \A e \in doomed.edges : db.edges[e] = NoRow
                    /\ log \cap doomed.events = {}
  BY DEF CompleteStep
<1>1. Audit
  BY DEF PurgeNext, allVars, purgeVars, PurgeNamespace, Find, DeleteEdges, DeleteNodes,
         DeleteEvents, Ends, CutOff
<1>2. EdgesGone /\ NodesGone /\ EventsGone
  BY <1>1 DEF Audit, PurgeInv, Gone
<1>3. \A n \in doomed.nodes, m \in Models : db.embeddings[<<n, m>>] = NoRow
  <2>1. doomed.nodes \subseteq NodeIds
    BY DEF PurgeInv, DoomedIsOld
  <2> QED
    BY <1>2, <2>1 DEF NodesGone, Store, NothingDangles, Anchored
<1> QED
  BY <1>2, <1>3 DEF EdgesGone, NodesGone, EventsGone

\* Of the nodes, embeddings, edges and events a namespace held when its purge
\* was called, none is left when the purge gets into the audit log, whatever
\* transactions held or committed rows of it between the statements.
THEOREM PurgeCompletes == PurgeSpec => PurgeIsComplete
<1>1. Store /\ PurgeInv /\ [PurgeNext]_allVars => [CompleteStep]_allVars
  BY AuditIsLast
<1>2. PurgeIsComplete <=> [][CompleteStep]_allVars
  BY DEF PurgeIsComplete, CompleteStep
<1> QED
  BY <1>1, <1>2, PurgeBegins, PurgeStep, PTL DEF PurgeSpec

\* OthersKeepTheirRows, of one step.
OwnRowsStep ==
  /\ \A n \in NodeIds : db.nodes[n] # NoRow /\ db'.nodes[n] = NoRow =>
       db.nodes[n].ns = purge.ns
  /\ \A e \in EdgeIds : db.edges[e] # NoRow /\ db'.edges[e] = NoRow =>
       \/ db.edges[e].ns = purge.ns
       \/ \E n \in {db.edges[e].source, db.edges[e].target} : db'.nodes[n] = NoRow
  /\ \A r \in log \ log' : r.event.ns = purge.ns

LEMMA OwnRowsOnly ==
  ASSUME Store, PurgeInv, [PurgeNext]_allVars
  PROVE  OwnRowsStep
<1>1. CASE [Next]_vars
  BY <1>1, ClientRows DEF OwnRowsStep, KeepsRows, AddsRows
<1>2. CASE DeleteEdges
  <2>1. /\ \A e \in EdgeIds : db'.edges[e] =
             IF e \in purge.found THEN NoRow ELSE db.edges[e]
        /\ db'.nodes = db.nodes /\ log' = log
    BY <1>2, DeleteEdgesDrops DEF DeleteEdges, Store, TypeOK, Db
  <2>2. FoundEdges
    BY <1>2 DEF DeleteEdges, Ends, PurgeInv, Found
  <2> QED
    BY <2>1, <2>2 DEF FoundEdges, OwnRowsStep
<1>3. CASE DeleteNodes
  <2>1. /\ log' = log
        /\ \A n \in NodeIds : db'.nodes[n] =
             IF n \in purge.found THEN NoRow ELSE db.nodes[n]
        /\ \A e \in EdgeIds : db'.edges[e] =
             IF e \in EdgesAt(db.edges, purge.found) THEN NoRow ELSE db.edges[e]
    BY <1>3, DeleteNodesDrops
  <2>2. FoundNodes
    BY <1>3 DEF DeleteNodes, Ends, PurgeInv, Found
  <2>3. ASSUME NEW e \in EdgesAt(db.edges, purge.found)
        PROVE  \E n \in {db.edges[e].source, db.edges[e].target} : db'.nodes[n] = NoRow
    BY <2>1, <2>2 DEF EdgesAt, FoundNodes
  <2> QED
    BY <2>1, <2>2, <2>3 DEF FoundNodes, OwnRowsStep
<1>4. CASE DeleteEvents
  <2>1. FoundEvents
    BY <1>4 DEF DeleteEvents, Ends, PurgeInv, Found
  <2> QED
    BY <1>4, <2>1, DeleteEventsDrops DEF FoundEvents, OwnRowsStep
<1> QED
  BY <1>1, <1>2, <1>3, <1>4
     DEF PurgeNext, allVars, PurgeNamespace, Find, Audit, CutOff

\* A purge takes rows of its namespace and, of others, only edges at a node it
\* takes; and no client's call takes a row at all.
THEOREM PurgeKeepsToItsNamespace == PurgeSpec => OthersKeepTheirRows
<1>1. Store /\ PurgeInv /\ [PurgeNext]_allVars => [OwnRowsStep]_allVars
  BY OwnRowsOnly
<1>2. OthersKeepTheirRows <=> [][OwnRowsStep]_allVars
  BY DEF OthersKeepTheirRows, OwnRowsStep
<1> QED
  BY <1>1, <1>2, PurgeBegins, PurgeStep, PTL DEF PurgeSpec
=============================================================================
