------------------------ MODULE EmbeddingIndexProofs ------------------------
(* Theorems about EmbeddingIndex: with the locks on the table and the DDL of *)
(* its transactions the store is still an EventStore, so that all theorems  *)
(* about one hold of it; and what the indexes promise, for every value of   *)
(* the constants.                                                           *)
EXTENDS EmbeddingIndex, EventStoreProofs

-----------------------------------------------------------------------------
(* The invariant.                                                           *)

Named(set, pair) == \E i \in set : i.name = IndexName[pair]

\* What holds of the rows of a view and of the indexes a statement meets in it:
\* every row has an index but perhaps the one whose pair is due, and every
\* recorded pair has one.
Kept(embeddings, set, pairs, due) ==
  /\ \A i, j \in set : i.name = j.name => i = j
  /\ \A i \in set, n \in NodeIds :
       embeddings[<<n, i.model>>] # NoRow => Dim[embeddings[<<n, i.model>>]] = i.dim
  /\ \A m \in NodeIds \X Models : embeddings[m] # NoRow =>
       \/ Named(set, <<m[2], Dim[embeddings[m]]>>)
       \/ due = <<m[2], Dim[embeddings[m]]>>
  /\ \A pair \in pairs : Named(set, pair)

ClientKept(c) == Kept(View(c).embeddings, Seen(c), meta \cup ddl[c].meta, ddl[c].due)

\* Who has made an index or recorded one has the table alone, and who has
\* written a row has it at least with the other writers.
Locked(c) ==
  /\ ddl[c].indexes # {} \/ ddl[c].meta # {} => ddl[c].lock = "share"
  /\ ddl[c].lock = "share" => \A d \in Clients \ {c} : ddl[d].lock = "none"
  /\ \A m \in NodeIds \X Models :
       tx[c].delta.embeddings[m] # NoRow => ddl[c].lock # "none"

\* There is DDL in open transactions only, and an index made only when due.
InTransaction(c) ==
  /\ tx[c].phase # "open" => ddl[c] = NoDdl
  /\ ddl[c].create => ddl[c].due # NoRow

DdlType == /\ meta \subseteq Pairs
           /\ indexes \subseteq Indexes
           /\ ddl \in [Clients -> Ddl]

IndexInv ==
  /\ DdlType
  /\ \A c \in Clients : Locked(c)
  /\ \A c \in Clients : InTransaction(c)
  /\ Kept(db.embeddings, indexes, meta, NoRow)
  /\ \A c \in Clients : ClientKept(c)

-----------------------------------------------------------------------------
(* An EventStore.                                                           *)

LEMMA PairFacts ==
  /\ NoRow \notin Pairs
  /\ Pairs \subseteq Models \X Nat
  /\ DOMAIN IndexName = Pairs
  /\ \A m \in Models, v \in Vectors : <<m, Dim[v]>> \in Pairs
  BY IndexAssumption DEF Pairs

LEMMA IndexFacts ==
  ASSUME NEW i \in Indexes
  PROVE  i.model \in Models
<1>1. PICK p \in Pairs : i = Index(p[1], p[2])
  BY DEF Indexes
<1>2. p[1] \in Models
  BY DEF Pairs
<1> QED
  BY <1>1, <1>2 DEF Index

LEMMA NoDdlType == NoDdl \in Ddl
  BY DEF NoDdl, Ddl

\* Who waits, or is due to make an index, is in a transaction.
LEMMA AwaitsInTransaction ==
  ASSUME NEW c \in Clients, InTransaction(c), NEW d \in Clients, Awaits(c, d)
  PROVE  tx[c].phase = "open"
  BY DEF Awaits, TableWaitsFor, Embeds, NextStatement, Running, WaitsFor,
         InTransaction, NoDdl

LEMMA StoreStep == TypeOK /\ IndexInv /\ [IndexNext]_allVars => [Next]_vars
<1> SUFFICES ASSUME TypeOK, IndexInv, IndexNext PROVE [Next]_vars
  BY DEF allVars, vars
<1>1. PICK c \in Clients : \/ Calls(c) \/ Crash(c) \/ IndexStep(c)
  BY DEF IndexNext
<1>2. CASE Calls(c) \/ Crash(c)
  BY <1>2 DEF Calls, Next
<1>3. CASE Proceed(c) \/ StoreEmbedding(c)
  BY <1>3 DEF Proceed, StoreEmbedding, Next, Step
<1>4. CASE LockTable(c) \/ CheckIndex(c) \/ CreateIndex(c)
  BY <1>4 DEF LockTable, CheckIndex, CreateIndex
<1>5. CASE Misfit(c) \/ Unsafe(c) \/ CreateFails(c) \/ Victim(c)
  <2>1. InTransaction(c)
    BY DEF IndexInv
  <2>2. Rollback(c) /\ tx[c].phase = "open"
    <3>1. CASE Misfit(c)
      BY <3>1 DEF Misfit, Embeds, NextStatement, Running
    <3>2. CASE Unsafe(c)
      BY <3>2, <2>1 DEF Unsafe, InTransaction, NoDdl
    <3>3. CASE CreateFails(c)
      BY <3>3, <2>1 DEF CreateFails, InTransaction, NoDdl
    <3>4. CASE Victim(c)
      <4>1. PICK d \in Clients : Awaits(c, d)
        BY <3>4 DEF Victim
      <4> QED
        BY <3>4, <4>1, <2>1, AwaitsInTransaction DEF Victim
    <3> QED
      BY <1>5, <3>1, <3>2, <3>3, <3>4
  <2>3. Crash(c)
    BY <2>2 DEF Crash
  <2> QED
    BY <2>3 DEF Next
<1> QED
  BY <1>1, <1>2, <1>3, <1>4, <1>5 DEF IndexStep

-----------------------------------------------------------------------------
(* What a step does to tables, deltas and DDL.                              *)

Others(c) == \A d \in Clients \ {c} : tx'[d] = tx[d]

\* Nothing.
Idles(c) == /\ Still /\ Others(c) /\ UNCHANGED indexVars
            /\ tx'[c].phase = "open" \/ ddl[c] = NoDdl

\* The transaction of c is gone, or has yet to begin.
Drops(c) == Reset(c) /\ Others(c) /\ Releases(c)

\* A statement that is not about an embedding.
Runs(c) == Execute(c) /\ ~Embeds(c) /\ ddl[c].due = NoRow /\ UNCHANGED indexVars

Publishes(c) == /\ Commit(c) /\ ddl[c].due = NoRow
                /\ meta' = meta \cup ddl[c].meta
                /\ indexes' = indexes \cup ddl[c].indexes
                /\ ddl' = [ddl EXCEPT ![c] = NoDdl]

Prepares(c) == LockTable(c) \/ CheckIndex(c) \/ CreateIndex(c)

LEMMA CallDrops ==
  ASSUME TypeOK, IndexInv, NEW c \in Clients, NEW op, NEW event,
         Call(c, op, <<event>>), UNCHANGED indexVars
  PROVE  Drops(c)
<1>1. ddl[c] = NoDdl /\ ddl \in [Clients -> Ddl]
  BY DEF IndexInv, InTransaction, DdlType, Call
<1>2. Releases(c)
  BY <1>1 DEF Releases, indexVars
<1>3. Others(c)
  BY DEF Call, TypeOK, Others
<1> QED
  BY <1>2, <1>3, CallData DEF Drops

LEMMA CollectIdles ==
  ASSUME TypeOK, IndexInv, NEW c \in Clients, NEW op, NEW phase \in {"nodes", "edges"},
         NEW ns, NEW id, NEW events, Collect(c, op, phase, ns, id, events),
         UNCHANGED indexVars
  PROVE  Idles(c)
<1>1. ddl[c] = NoDdl
  BY DEF IndexInv, InTransaction, Collect
<1>2. Others(c)
  BY DEF Collect, TypeOK, Others
<1> QED
  BY <1>1, <1>2, CollectData DEF Idles

LEMMA RollbackDrops ==
  ASSUME TypeOK, NEW c \in Clients, Rollback(c), Releases(c)
  PROVE  Drops(c)
<1>1. tx'[c] = Idle /\ Others(c)
  BY DEF Rollback, TypeOK, Others
<1> QED
  BY <1>1 DEF Rollback, Reset, Idle, Drops, Others

LEMMA IndexSteps ==
  ASSUME TypeOK, IndexInv, IndexNext
  PROVE  \E c \in Clients : \/ Idles(c) \/ Drops(c) \/ Runs(c) \/ Publishes(c)
                            \/ Prepares(c) \/ StoreEmbedding(c)
<1>1. PICK c \in Clients : \/ Calls(c) /\ UNCHANGED indexVars
                           \/ Crash(c) /\ Releases(c)
                           \/ IndexStep(c)
  BY DEF IndexNext
<1>2. CASE Calls(c) /\ UNCHANGED indexVars
  BY <1>2, StepKinds, CallDrops, CollectIdles DEF Calls
<1>3. CASE Crash(c) /\ Releases(c)
  BY <1>3, RollbackDrops DEF Crash
<1>4. CASE Misfit(c) \/ Unsafe(c) \/ CreateFails(c) \/ Victim(c)
  BY <1>4, RollbackDrops DEF Misfit, Unsafe, CreateFails, Victim
<1>5. CASE Proceed(c)
  <2>1. ASSUME InsertEvent(c), UNCHANGED indexVars PROVE Idles(c)
    <3>1. Still /\ Others(c) /\ tx'[c].phase = "open"
      BY <2>1 DEF InsertEvent, TypeOK, Tx, Still, Others
    <3> QED
      BY <2>1, <3>1 DEF Idles
  <2>2. ASSUME Scan(c), UNCHANGED indexVars PROVE Idles(c)
    <3>1. PICK todo : tx' = [tx EXCEPT ![c].todo = todo]
      BY <2>2, ScanChanges
    <3>2. tx[c].phase = "open"
      BY <2>2 DEF Scan, Running
    <3>3. Others(c) /\ tx'[c].phase = "open"
      BY <3>1, <3>2 DEF TypeOK, Tx, Others
    <3>4. Still
      BY <2>2, ScanChanges, ScanKeeps DEF Still
    <3> QED
      BY <2>2, <3>3, <3>4 DEF Idles
  <2>3. ASSUME Fail(c), Releases(c) PROVE Drops(c)
    BY <2>3, RollbackDrops DEF Fail
  <2> QED
    BY <1>5, <2>1, <2>2, <2>3 DEF Proceed, Runs, Publishes
<1> QED
  BY <1>1, <1>2, <1>3, <1>4, <1>5 DEF IndexStep, Prepares

-----------------------------------------------------------------------------
(* The steps keep the invariant.                                            *)

\* A client whose rows, indexes and DDL are as before keeps what holds of them.
LEMMA ClientKeptStays ==
  ASSUME NEW d \in Clients, ClientKept(d), View(d)' = View(d), ddl'[d] = ddl[d],
         UNCHANGED <<meta, indexes>>
  PROVE  ClientKept(d)'
  BY DEF ClientKept, Seen

LEMMA IdlesKeeps ==
  ASSUME IndexInv, NEW c \in Clients, Idles(c)
  PROVE  IndexInv'
<1>1. /\ db' = db /\ meta' = meta /\ indexes' = indexes /\ ddl' = ddl
      /\ \A d \in Clients : tx'[d].delta = tx[d].delta
      /\ \A d \in Clients \ {c} : tx'[d] = tx[d]
      /\ tx'[c].phase = "open" \/ ddl[c] = NoDdl
  BY DEF Idles, Still, Others, indexVars
<1>2. DdlType' /\ Kept(db.embeddings, indexes, meta, NoRow)'
  BY <1>1 DEF IndexInv, DdlType, Kept
<1>3. ASSUME NEW d \in Clients PROVE Locked(d)'
  BY <1>1, <1>3 DEF IndexInv, Locked
<1>4. ASSUME NEW d \in Clients PROVE InTransaction(d)'
  BY <1>1, <1>4 DEF IndexInv, InTransaction
<1>5. ASSUME NEW d \in Clients PROVE ClientKept(d)'
  <2>1. View(d)' = View(d)
    BY <1>1, <1>5 DEF View
  <2> QED
    BY <1>1, <1>5, <2>1, ClientKeptStays DEF IndexInv
<1> QED
  BY <1>2, <1>3, <1>4, <1>5 DEF IndexInv

LEMMA DropsKeeps ==
  ASSUME TypeOK, IndexInv, NEW c \in Clients, Drops(c)
  PROVE  IndexInv'
<1>1. /\ db' = db /\ meta' = meta /\ indexes' = indexes
      /\ tx'[c].delta = EmptyDb
      /\ \A d \in Clients \ {c} : tx'[d] = tx[d]
  BY DEF Drops, Reset, Others, Releases
<1>2. /\ ddl' \in [Clients -> Ddl] /\ ddl'[c] = NoDdl
      /\ \A d \in Clients \ {c} : ddl'[d] = ddl[d]
  BY NoDdlType DEF Drops, Releases, IndexInv, DdlType
<1>3. DdlType' /\ Kept(db.embeddings, indexes, meta, NoRow)'
  BY <1>1, <1>2 DEF IndexInv, DdlType, Kept
<1>4. ASSUME NEW d \in Clients PROVE Locked(d)'
  <2>1. CASE d = c
    BY <1>1, <1>2, <2>1, EmptyTables DEF Locked, NoDdl
  <2>2. CASE d # c
    <3>1. Locked(d)
      BY DEF IndexInv
    <3> QED
      BY <1>1, <1>2, <2>2, <3>1 DEF Locked, NoDdl
  <2> QED
    BY <2>1, <2>2
<1>5. ASSUME NEW d \in Clients PROVE InTransaction(d)'
  BY <1>1, <1>2, <1>5 DEF IndexInv, InTransaction, NoDdl
<1>6. ASSUME NEW d \in Clients PROVE ClientKept(d)'
  <2>1. CASE d = c
    <3>1. View(c)' = db
      BY <1>1, EmptyDelta DEF View, TypeOK
    <3>2. Seen(c)' = indexes /\ meta' \cup ddl'[c].meta = meta /\ ddl'[c].due = NoRow
      BY <1>1, <1>2 DEF Seen, NoDdl
    <3> QED
      BY <2>1, <3>1, <3>2 DEF ClientKept, IndexInv
  <2>2. CASE d # c
    <3>1. View(d)' = View(d)
      BY <1>1, <2>2 DEF View
    <3> QED
      BY <1>1, <1>2, <2>2, <3>1, ClientKeptStays DEF IndexInv
  <2> QED
    BY <2>1, <2>2
<1> QED
  BY <1>3, <1>4, <1>5, <1>6 DEF IndexInv

LEMMA KeptSame ==
  ASSUME NEW a, NEW b, NEW set \in SUBSET Indexes, NEW pairs, NEW due,
         \A m \in NodeIds \X Models : a[m] = b[m], Kept(a, set, pairs, due)
  PROVE  Kept(b, set, pairs, due)
<1>1. \A i \in set, n \in NodeIds : <<n, i.model>> \in NodeIds \X Models
  BY IndexFacts
<1> QED
  BY <1>1 DEF Kept

LEMMA SeenType ==
  ASSUME DdlType, NEW c \in Clients
  PROVE  Seen(c) \in SUBSET Indexes
  BY DEF Seen, DdlType, Ddl

\* The part of Execute that is about phases and other clients.
LEMMA ExecuteStays ==
  ASSUME TypeOK, NEW c \in Clients, Execute(c)
  PROVE  Others(c) /\ tx'[c].phase = "open" /\ tx[c].phase = "open"
<1>1. tx[c].phase = "open"
  BY DEF Execute, Running
<1> QED
  BY <1>1 DEF Execute, TypeOK, Tx, Others

LEMMA RunsKeeps ==
  ASSUME TypeOK, IndexInv, NEW c \in Clients, Runs(c)
  PROVE  IndexInv'
<1> DEFINE s == Head(tx[c].todo)
<1>1. /\ UNCHANGED <<meta, indexes, ddl>> /\ Execute(c) /\ db' = db
      /\ Others(c) /\ tx'[c].phase = "open"
  BY ExecuteStays, ExecuteData DEF Runs, indexVars
<1>2. s.type # "EMBEDDING_STORED"
  BY DEF Runs, Embeds, NextStatement, Running, Execute
<1>3. /\ \A m \in NodeIds \X Models : tx'[c].delta.embeddings[m] = tx[c].delta.embeddings[m]
      /\ \A m \in NodeIds \X Models : View(c)'.embeddings[m] = View(c).embeddings[m]
      /\ \A d \in Clients \ {c} : View(d)' = View(d)
  BY <1>1, <1>2, ExecuteData, ExecuteView DEF EmbeddingsWritten
<1>4. DdlType' /\ Kept(db.embeddings, indexes, meta, NoRow)'
  BY <1>1 DEF IndexInv, DdlType, Kept
<1>5. ASSUME NEW d \in Clients PROVE Locked(d)'
  <2>1. \A m \in NodeIds \X Models : tx'[d].delta.embeddings[m] = tx[d].delta.embeddings[m]
    BY <1>1, <1>3 DEF Others
  <2> QED
    BY <1>1, <2>1 DEF IndexInv, Locked
<1>6. ASSUME NEW d \in Clients PROVE InTransaction(d)'
  BY <1>1, <1>6 DEF IndexInv, InTransaction, Others
<1>7. ASSUME NEW d \in Clients PROVE ClientKept(d)'
  <2>1. CASE d = c
    <3>1. ClientKept(c) /\ Seen(c) \in SUBSET Indexes /\ Seen(c)' = Seen(c)
      BY <1>1, SeenType DEF IndexInv, Seen
    <3>2. Kept(View(c)'.embeddings, Seen(c), meta \cup ddl[c].meta, ddl[c].due)
      BY <1>3, <3>1, KeptSame DEF ClientKept
    <3> QED
      BY <1>1, <2>1, <3>1, <3>2 DEF ClientKept
  <2>2. CASE d # c
    BY <1>1, <1>3, <2>2, ClientKeptStays DEF IndexInv
  <2> QED
    BY <2>1, <2>2
<1> QED
  BY <1>4, <1>5, <1>6, <1>7 DEF IndexInv

\* The INSERT of an embedding: its row fits the indexes, and its pair is due.
LEMMA StoreEmbeddingKeeps ==
  ASSUME TypeOK, IndexInv, NEW c \in Clients, StoreEmbedding(c)
  PROVE  IndexInv'
<1> DEFINE s == Head(tx[c].todo)
           pair == <<s.model, Dim[s.vector]>>
<1>1. /\ UNCHANGED <<meta, indexes>> /\ Execute(c) /\ db' = db
      /\ Others(c) /\ tx'[c].phase = "open" /\ ddl[c].due = NoRow
      /\ ddl[c].lock # "none" /\ Fits(s.model, s.vector, Seen(c))
      /\ ddl' = [ddl EXCEPT ![c].due = pair]
      /\ s.type = "EMBEDDING_STORED"
  BY ExecuteStays, ExecuteData DEF StoreEmbedding, Embeds, NextStatement
<1>2. s.node \in NodeIds /\ s.model \in Models /\ s.vector \in Vectors
  <2>1. s \in Statement /\ ~Rejected(View(c), s)
    BY <1>1, ExecuteData
  <2>2. s \in EmbeddingStored /\ s.vector # EmptyVector
    BY <1>1, <2>1, StatementTags DEF Rejected
  <2> QED
    BY <2>2 DEF EmbeddingStored
<1>3. pair \in Pairs /\ pair # NoRow
  BY <1>2, PairFacts
<1>4. /\ \A m \in NodeIds \X Models : View(c)'.embeddings[m] =
           IF m = <<s.node, s.model>> THEN s.vector ELSE View(c).embeddings[m]
      /\ \A d \in Clients \ {c} : View(d)' = View(d)
  <2>1. /\ \A m \in NodeIds \X Models : View(c)'.embeddings[m] =
             IF m \in EmbeddingsWritten(s) THEN s.vector ELSE View(c).embeddings[m]
        /\ \A d \in Clients \ {c} : View(d)' = View(d)
    BY <1>1, ExecuteView
  <2>2. \A m \in NodeIds \X Models : m \in EmbeddingsWritten(s) <=> m = <<s.node, s.model>>
    BY <1>1 DEF EmbeddingsWritten
  <2> HIDE DEF s
  <2> QED
    BY <2>1, <2>2
<1> HIDE DEF s, pair
<1>5. /\ ddl' \in [Clients -> Ddl]
      /\ \A d \in Clients \ {c} : ddl'[d] = ddl[d]
      /\ ddl'[c].lock = ddl[c].lock /\ ddl'[c].meta = ddl[c].meta
      /\ ddl'[c].indexes = ddl[c].indexes /\ ddl'[c].due = pair
  <2>1. ddl \in [Clients -> Ddl] /\ ddl[c] \in Ddl
    BY DEF IndexInv, DdlType
  <2>2. [ddl[c] EXCEPT !.due = pair] \in Ddl
    BY <1>3, <2>1 DEF Ddl
  <2>3. ddl'[c] = [ddl[c] EXCEPT !.due = pair] /\ \A d \in Clients \ {c} : ddl'[d] = ddl[d]
    BY <1>1, <2>1
  <2> QED
    BY <1>1, <2>1, <2>2, <2>3 DEF Ddl
<1>6. DdlType' /\ Kept(db.embeddings, indexes, meta, NoRow)'
  BY <1>1, <1>5 DEF IndexInv, DdlType, Kept
<1>7. ASSUME NEW d \in Clients PROVE Locked(d)'
  <2>1. Locked(d)
    BY DEF IndexInv
  <2>2. CASE d = c
    BY <1>1, <1>5, <2>1, <2>2 DEF Locked
  <2>3. CASE d # c
    <3>1. tx'[d] = tx[d] /\ ddl'[d] = ddl[d] /\ \A b \in Clients : ddl'[b].lock = ddl[b].lock
      BY <1>1, <1>5, <2>3 DEF Others
    <3> QED
      BY <2>1, <3>1 DEF Locked
  <2> QED
    BY <2>2, <2>3
<1>8. ASSUME NEW d \in Clients PROVE InTransaction(d)'
  <2>1. CASE d = c
    BY <1>1, <1>3, <1>5, <2>1 DEF InTransaction
  <2>2. CASE d # c
    BY <1>1, <1>5, <2>2 DEF IndexInv, InTransaction, Others
  <2> QED
    BY <2>1, <2>2
<1>9. ASSUME NEW d \in Clients PROVE ClientKept(d)'
  <2>1. CASE d = c
    <3> DEFINE rows == View(c).embeddings
               new == View(c)'.embeddings
               set == Seen(c)
    <3>1. /\ set \in SUBSET Indexes /\ Seen(c)' = set
          /\ Kept(rows, set, meta \cup ddl[c].meta, NoRow)
      BY <1>1, <1>5, SeenType DEF IndexInv, Seen, ClientKept
    <3>2. \A m \in NodeIds \X Models :
            new[m] = IF m = <<s.node, s.model>> THEN s.vector ELSE rows[m]
      BY <1>4
    <3>3. \A i \in set : i.model \in Models /\ (i.model = s.model => i.dim = Dim[s.vector])
      BY <1>1, <3>1, IndexFacts DEF Fits
    <3> HIDE DEF rows, new, set
    <3>4. \A i \in set, n \in NodeIds :
            new[<<n, i.model>>] # NoRow => Dim[new[<<n, i.model>>]] = i.dim
      <4> SUFFICES ASSUME NEW i \in set, NEW n \in NodeIds, new[<<n, i.model>>] # NoRow
                   PROVE  Dim[new[<<n, i.model>>]] = i.dim
        OBVIOUS
      <4>1. <<n, i.model>> \in NodeIds \X Models
        BY <3>3
      <4>2. CASE <<n, i.model>> = <<s.node, s.model>>
        BY <3>2, <3>3, <4>1, <4>2
      <4>3. CASE <<n, i.model>> # <<s.node, s.model>>
        BY <3>1, <3>2, <4>1, <4>3 DEF Kept
      <4> QED
        BY <4>2, <4>3
    <3>5. \A m \in NodeIds \X Models : new[m] # NoRow =>
            Named(set, <<m[2], Dim[new[m]]>>) \/ pair = <<m[2], Dim[new[m]]>>
      <4> SUFFICES ASSUME NEW m \in NodeIds \X Models, new[m] # NoRow
                   PROVE  Named(set, <<m[2], Dim[new[m]]>>) \/ pair = <<m[2], Dim[new[m]]>>
        OBVIOUS
      <4>1. CASE m = <<s.node, s.model>>
        BY <3>2, <4>1 DEF pair
      <4>2. CASE m # <<s.node, s.model>>
        <5>1. new[m] = rows[m] /\ NoRow # <<m[2], Dim[rows[m]]>>
          <6>1. new[m] = rows[m]
            BY <3>2, <4>2
          <6>2. rows[m] \in Vectors
            <7>1. View(c) \in Db
              BY ViewType
            <7> QED
              BY <6>1, <7>1 DEF rows, Db
          <6> QED
            BY <6>1, <6>2, PairFacts
        <5> QED
          BY <3>1, <5>1 DEF Kept
      <4> QED
        BY <4>1, <4>2
    <3>6. Kept(new, set, meta \cup ddl[c].meta, pair)
      BY <3>1, <3>4, <3>5 DEF Kept
    <3> QED
      BY <1>1, <1>5, <2>1, <3>1, <3>6 DEF ClientKept, new
  <2>2. CASE d # c
    BY <1>1, <1>4, <1>5, <2>2, ClientKeptStays DEF IndexInv
  <2> QED
    BY <2>1, <2>2
<1> QED
  BY <1>6, <1>7, <1>8, <1>9 DEF IndexInv

LEMMA LockTableKeeps ==
  ASSUME TypeOK, IndexInv, NEW c \in Clients, LockTable(c)
  PROVE  IndexInv'
<1>1. /\ UNCHANGED <<seq, log, db, tx, known, calls, meta, indexes>>
      /\ ddl[c].lock = "none" /\ ddl' = [ddl EXCEPT ![c].lock = "row"]
      /\ tx[c].phase = "open"
      /\ \A d \in Clients \ {c} : ddl[d].lock # "share"
  BY DEF LockTable, vars, Embeds, NextStatement, Running, TableWaitsFor
<1>2. /\ ddl' \in [Clients -> Ddl]
      /\ \A d \in Clients \ {c} : ddl'[d] = ddl[d]
      /\ ddl'[c].lock = "row" /\ ddl'[c].meta = ddl[c].meta
      /\ ddl'[c].indexes = ddl[c].indexes /\ ddl'[c].due = ddl[c].due
      /\ ddl'[c].create = ddl[c].create
  <2>1. ddl \in [Clients -> Ddl] /\ ddl[c] \in Ddl
    BY DEF IndexInv, DdlType
  <2>2. [ddl[c] EXCEPT !.lock = "row"] \in Ddl
    BY <2>1 DEF Ddl
  <2> QED
    BY <1>1, <2>1, <2>2 DEF Ddl
<1>3. DdlType' /\ Kept(db.embeddings, indexes, meta, NoRow)'
  BY <1>1, <1>2 DEF IndexInv, DdlType, Kept
<1>4. ASSUME NEW d \in Clients PROVE Locked(d)'
  <2>1. Locked(d)
    BY DEF IndexInv
  <2>2. CASE d = c
    BY <1>1, <1>2, <2>1, <2>2 DEF Locked
  <2>3. CASE d # c
    BY <1>1, <1>2, <2>1, <2>3 DEF Locked
  <2> QED
    BY <2>2, <2>3
<1>5. ASSUME NEW d \in Clients PROVE InTransaction(d)'
  BY <1>1, <1>2, <1>5 DEF IndexInv, InTransaction
<1>6. ASSUME NEW d \in Clients PROVE ClientKept(d)'
  <2>1. View(d)' = View(d) /\ Seen(d)' = Seen(d)
    BY <1>1, <1>2 DEF View, Seen
  <2> QED
    BY <1>1, <1>2, <2>1 DEF IndexInv, ClientKept
<1> QED
  BY <1>3, <1>4, <1>5, <1>6 DEF IndexInv

LEMMA CheckIndexKeeps ==
  ASSUME TypeOK, IndexInv, NEW c \in Clients, CheckIndex(c)
  PROVE  IndexInv'
<1> DEFINE recorded == ddl[c].due \in meta \cup ddl[c].meta
<1>1. /\ UNCHANGED <<seq, log, db, tx, known, calls, meta, indexes>>
      /\ ddl[c].due # NoRow
      /\ ddl \in [Clients -> Ddl] /\ ddl[c] \in Ddl
      /\ ddl' = [ddl EXCEPT ![c] = IF recorded THEN [ddl[c] EXCEPT !.due = NoRow]
                                               ELSE [ddl[c] EXCEPT !.create = TRUE]]
  BY DEF CheckIndex, vars, IndexInv, DdlType
<1>2. tx[c].phase = "open"
  BY <1>1 DEF IndexInv, InTransaction, NoDdl
<1>3. /\ ddl' \in [Clients -> Ddl]
      /\ \A d \in Clients \ {c} : ddl'[d] = ddl[d]
      /\ ddl'[c].lock = ddl[c].lock /\ ddl'[c].meta = ddl[c].meta
      /\ ddl'[c].indexes = ddl[c].indexes
      /\ ddl'[c].due = IF recorded THEN NoRow ELSE ddl[c].due
      /\ ~ddl[c].create
  <2>1. ~ddl[c].create
    BY DEF CheckIndex
  <2>2. /\ [ddl[c] EXCEPT !.due = NoRow] \in Ddl
        /\ [ddl[c] EXCEPT !.create = TRUE] \in Ddl
    BY <1>1 DEF Ddl
  <2>3. ddl'[c] = IF recorded THEN [ddl[c] EXCEPT !.due = NoRow]
                              ELSE [ddl[c] EXCEPT !.create = TRUE]
    BY <1>1
  <2> HIDE DEF recorded
  <2> QED
    BY <1>1, <2>1, <2>2, <2>3 DEF Ddl
<1>4. DdlType' /\ Kept(db.embeddings, indexes, meta, NoRow)'
  BY <1>1, <1>3 DEF IndexInv, DdlType, Kept
<1>5. ASSUME NEW d \in Clients PROVE Locked(d)'
  <2>1. Locked(d)
    BY DEF IndexInv
  <2>2. \A b \in Clients : /\ ddl'[b].lock = ddl[b].lock /\ ddl'[b].meta = ddl[b].meta
                          /\ ddl'[b].indexes = ddl[b].indexes
    BY <1>3
  <2> QED
    BY <1>1, <2>1, <2>2 DEF Locked
<1>6. ASSUME NEW d \in Clients PROVE InTransaction(d)'
  <2>1. CASE d = c
    <3>1. ddl'[c].create => ddl'[c].due # NoRow
      <4>1. CASE recorded
        <5>1. ddl'[c] = [ddl[c] EXCEPT !.due = NoRow] /\ ~ddl[c].create
          BY <1>1, <1>3, <4>1
        <5> QED
          BY <1>1, <5>1 DEF Ddl
      <4>2. CASE ~recorded
        BY <1>1, <1>3, <4>2
      <4> QED
        BY <4>1, <4>2
    <3> QED
      BY <1>1, <1>2, <2>1, <3>1 DEF InTransaction
  <2>2. CASE d # c
    BY <1>1, <1>3, <2>2 DEF IndexInv, InTransaction
  <2> QED
    BY <2>1, <2>2
<1>7. ASSUME NEW d \in Clients PROVE ClientKept(d)'
  <2>1. View(d)' = View(d) /\ Seen(d)' = Seen(d) /\ ddl'[d].meta = ddl[d].meta
    BY <1>1, <1>3 DEF View, Seen
  <2>2. ClientKept(d)
    BY DEF IndexInv
  <2>3. CASE d = c /\ recorded
    <3>1. Named(Seen(c), ddl[c].due)
      BY <2>2, <2>3 DEF ClientKept, Kept
    <3>2. Kept(View(c).embeddings, Seen(c), meta \cup ddl[c].meta, NoRow)
      BY <2>2, <2>3, <3>1 DEF ClientKept, Kept
    <3> QED
      BY <1>1, <1>3, <2>1, <2>3, <3>2 DEF ClientKept
  <2>4. CASE d # c \/ ~recorded
    <3>1. ddl'[d].due = ddl[d].due
      BY <1>3, <2>4
    <3> QED
      BY <1>1, <2>1, <2>2, <3>1 DEF ClientKept
  <2> QED
    BY <2>3, <2>4
<1> QED
  BY <1>4, <1>5, <1>6, <1>7 DEF IndexInv

\* CREATE INDEX: nobody else has written the table, so the rows c sees are all.
LEMMA CreateIndexKeeps ==
  ASSUME TypeOK, IndexInv, NEW c \in Clients, CreateIndex(c)
  PROVE  IndexInv'
<1> DEFINE pair == ddl[c].due
           new == Index(pair[1], pair[2])
           made == IF NameTaken(c) THEN {} ELSE {new}
           set == Seen(c) \cup made
<1>1. /\ UNCHANGED <<seq, log, db, tx, known, calls, meta, indexes>>
      /\ \A d \in Clients \ {c} : ddl[d].lock = "none"
      /\ ddl[c].create /\ (NameTaken(c) \/ Buildable(c))
      /\ ddl \in [Clients -> Ddl] /\ ddl[c] \in Ddl
  BY DEF CreateIndex, TableWaitsFor, vars, IndexInv, DdlType
<1>2. pair \in Pairs /\ pair # NoRow /\ tx[c].phase = "open"
  BY <1>1 DEF IndexInv, InTransaction, NoDdl, Ddl
<1>3. /\ ddl' \in [Clients -> Ddl]
      /\ \A d \in Clients \ {c} : ddl'[d] = ddl[d]
      /\ ddl'[c].lock = "share" /\ ddl'[c].due = NoRow /\ ~ddl'[c].create
      /\ ddl'[c].meta = ddl[c].meta \cup {pair}
      /\ ddl'[c].indexes = ddl[c].indexes \cup made
  <2> DEFINE pairs == ddl[c].meta \cup {pair}
             all == ddl[c].indexes \cup made
             after == [ddl[c] EXCEPT !.lock = "share", !.due = NoRow, !.create = FALSE,
                                     !.meta = pairs, !.indexes = all]
  <2>1. ddl' = [ddl EXCEPT ![c] = after]
    <3>1. ddl' = [ddl EXCEPT ![c].lock = "share",
                             ![c].due = NoRow,
                             ![c].create = FALSE,
                             ![c].meta = @ \cup {pair},
                             ![c].indexes = IF NameTaken(c) THEN @
                                            ELSE @ \cup {Index(pair[1], pair[2])}]
      BY DEF CreateIndex
    <3>2. all = IF NameTaken(c) THEN ddl[c].indexes ELSE ddl[c].indexes \cup {new}
      OBVIOUS
    <3>3. ddl' = [ddl EXCEPT ![c].lock = "share", ![c].due = NoRow, ![c].create = FALSE,
                             ![c].meta = pairs, ![c].indexes = all]
      BY <1>1, <3>1, <3>2 DEF Ddl
    <3> HIDE DEF pairs, all
    <3> QED
      BY <1>1, <3>3
  <2>2. pairs \in SUBSET Pairs /\ all \in SUBSET Indexes
    BY <1>1, <1>2 DEF Ddl, Indexes
  <2> HIDE DEF pairs, all
  <2>3. after \in Ddl
    BY <1>1, <2>2 DEF Ddl
  <2>4. ddl'[c] = after /\ \A d \in Clients \ {c} : ddl'[d] = ddl[d]
    BY <1>1, <2>1
  <2>5. /\ after.lock = "share" /\ after.due = NoRow /\ ~after.create
        /\ after.meta = pairs /\ after.indexes = all
    BY <1>1 DEF Ddl
  <2> QED
    BY <1>1, <2>1, <2>3, <2>4, <2>5 DEF pairs, all
<1>4. /\ Seen(c) \in SUBSET Indexes /\ Seen(c)' = set
      /\ new.model = pair[1] /\ new.dim = pair[2] /\ new.name = IndexName[pair]
      /\ NameTaken(c) <=> Named(Seen(c), pair)
  <2>1. pair = <<pair[1], pair[2]>>
    BY <1>2 DEF Pairs
  <2>2. Seen(c)' = set
    BY <1>1, <1>3 DEF Seen
  <2>3. Seen(c) \in SUBSET Indexes
    BY SeenType DEF IndexInv
  <2> QED
    BY <2>1, <2>2, <2>3 DEF Index, NameTaken, Named
<1>5. ClientKept(c)
  BY DEF IndexInv
<1> HIDE DEF pair, new
<1>6. Kept(View(c).embeddings, set, (meta \cup ddl[c].meta) \cup {pair}, NoRow)
  <2> DEFINE rows == View(c).embeddings
             pairs == meta \cup ddl[c].meta
  <2>1. Kept(rows, Seen(c), pairs, pair)
    BY <1>5 DEF ClientKept, pair
  <2>2. Named(set, pair)
    BY <1>4 DEF Named
  <2>3. CASE NameTaken(c)
    <3>1. set = Seen(c)
      BY <2>3
    <3> QED
      BY <2>1, <2>2, <3>1 DEF Kept
  <2>4. CASE ~NameTaken(c)
    <3>1. set = Seen(c) \cup {new} /\ Buildable(c)
      BY <1>1, <2>4
    <3>2. \A n \in NodeIds : rows[<<n, new.model>>] # NoRow =>
                               Dim[rows[<<n, new.model>>]] = new.dim
      BY <1>4, <3>1 DEF Buildable, pair
    <3>3. \A i \in Seen(c) : i.name # new.name
      BY <1>4, <2>4 DEF Named
    <3> HIDE DEF rows, pairs, set, made
    <3>4. \A i, j \in set : i.name = j.name => i = j
      BY <2>1, <3>1, <3>3 DEF Kept
    <3>5. \A i \in set, n \in NodeIds :
            rows[<<n, i.model>>] # NoRow => Dim[rows[<<n, i.model>>]] = i.dim
      BY <2>1, <3>1, <3>2 DEF Kept
    <3>6. \A p : Named(Seen(c), p) => Named(set, p)
      BY <3>1 DEF Named
    <3>7. /\ \A m \in NodeIds \X Models : rows[m] # NoRow => Named(set, <<m[2], Dim[rows[m]]>>)
          /\ \A p \in pairs \cup {pair} : Named(set, p)
      BY <2>1, <2>2, <3>6 DEF Kept
    <3> QED
      BY <3>4, <3>5, <3>7 DEF Kept, rows, pairs
  <2> QED
    BY <2>3, <2>4
<1>7. DdlType' /\ Kept(db.embeddings, indexes, meta, NoRow)'
  BY <1>1, <1>3 DEF IndexInv, DdlType, Kept
<1>8. ASSUME NEW d \in Clients PROVE Locked(d)'
  <2>1. Locked(d)
    BY DEF IndexInv
  <2>2. CASE d = c
    BY <1>1, <1>3, <2>2 DEF Locked
  <2>3. CASE d # c
    <3>1. ddl'[d] = ddl[d] /\ ddl[d].lock = "none"
      BY <1>1, <1>3, <2>3
    <3> QED
      BY <1>1, <2>1, <3>1 DEF Locked
  <2> QED
    BY <2>2, <2>3
<1>9. ASSUME NEW d \in Clients PROVE InTransaction(d)'
  BY <1>1, <1>2, <1>3, <1>9 DEF IndexInv, InTransaction
<1>10. ASSUME NEW d \in Clients PROVE ClientKept(d)'
  <2>1. View(d)' = View(d)
    BY <1>1 DEF View
  <2>2. CASE d = c
    <3>1. meta' \cup ddl'[c].meta = (meta \cup ddl[c].meta) \cup {pair}
      BY <1>1, <1>3
    <3> QED
      BY <1>3, <1>4, <1>6, <2>1, <2>2, <3>1 DEF ClientKept
  <2>3. CASE d # c
    BY <1>1, <1>3, <2>1, <2>3, ClientKeptStays DEF IndexInv
  <2> QED
    BY <2>2, <2>3
<1> QED
  BY <1>7, <1>8, <1>9, <1>10 DEF IndexInv

\* The commit: what c has made and recorded, and its rows, are there for all.
LEMMA PublishesKeeps ==
  ASSUME TypeOK, IndexInv, NEW c \in Clients, Publishes(c)
  PROVE  IndexInv'
<1>1. /\ db' = View(c) /\ tx'[c].delta = EmptyDb
      /\ \A d \in Clients \ {c} : tx'[d] = tx[d]
      /\ tx'[c].phase = "idle" /\ ddl[c].due = NoRow
      /\ meta' = meta \cup ddl[c].meta /\ indexes' = Seen(c)
      /\ ddl' = [ddl EXCEPT ![c] = NoDdl]
  <2>1. tx'[c] = Idle /\ \A d \in Clients \ {c} : tx'[d] = tx[d]
    BY DEF Publishes, Commit, TypeOK
  <2>2. Idle.phase = "idle"
    BY DEF Idle
  <2> QED
    BY <2>1, <2>2, CommitData DEF Publishes, Seen
<1>2. /\ ddl' \in [Clients -> Ddl] /\ ddl'[c] = NoDdl
      /\ \A d \in Clients \ {c} : ddl'[d] = ddl[d]
      /\ ddl[c] \in Ddl
  BY <1>1, NoDdlType DEF IndexInv, DdlType
<1>3. DdlType'
  BY <1>1, <1>2, SeenType DEF IndexInv, DdlType, Ddl
<1>4. Kept(View(c).embeddings, Seen(c), meta', NoRow)
  BY <1>1 DEF IndexInv, ClientKept
<1>5. ASSUME NEW d \in Clients PROVE Locked(d)'
  <2>1. CASE d = c
    BY <1>1, <1>2, <2>1, EmptyTables DEF Locked, NoDdl
  <2>2. CASE d # c
    <3>1. Locked(d)
      BY DEF IndexInv
    <3> QED
      BY <1>1, <1>2, <2>2, <3>1 DEF Locked, NoDdl
  <2> QED
    BY <2>1, <2>2
<1>6. ASSUME NEW d \in Clients PROVE InTransaction(d)'
  BY <1>1, <1>2, <1>6 DEF IndexInv, InTransaction, NoDdl
<1>7. ASSUME NEW d \in Clients PROVE ClientKept(d)'
  <2>1. CASE d = c
    <3>1. View(c)' = View(c)
      BY <1>1, EmptyDelta, ViewType DEF View
    <3>2. Seen(c)' = Seen(c) /\ meta' \cup ddl'[c].meta = meta' /\ ddl'[c].due = NoRow
      BY <1>1, <1>2 DEF Seen, NoDdl
    <3> QED
      BY <1>4, <2>1, <3>1, <3>2 DEF ClientKept
  <2>2. CASE d # c
    <3> DEFINE mine == View(c).embeddings
               theirs == View(d).embeddings
               after == View(d)'.embeddings
               set == Seen(c) \cup ddl[d].indexes
    <3>1. /\ Seen(d)' = set /\ Seen(d) \subseteq set /\ Seen(c) \subseteq set
          /\ ddl'[d] = ddl[d] /\ Seen(c) = indexes \cup ddl[c].indexes
          /\ Seen(d) = indexes \cup ddl[d].indexes /\ set \in SUBSET Indexes
      BY <1>1, <1>2, <2>2, SeenType DEF Seen, IndexInv
    \* Only one of the two has made an index, and then the other wrote no row.
    <3>2. \/ /\ ddl[c].indexes = {}
             /\ ddl[d].indexes # {} =>
                  \A m \in NodeIds \X Models : tx[c].delta.embeddings[m] = NoRow
          \/ /\ ddl[d].indexes = {}
             /\ \A m \in NodeIds \X Models : tx[d].delta.embeddings[m] = NoRow
      <4>1. Locked(c) /\ Locked(d)
        BY DEF IndexInv
      <4> QED
        BY <2>2, <4>1 DEF Locked
    <3>3. \A m \in NodeIds \X Models :
            /\ mine[m] = IF tx[c].delta.embeddings[m] = NoRow THEN db.embeddings[m]
                                                             ELSE tx[c].delta.embeddings[m]
            /\ theirs[m] = IF tx[d].delta.embeddings[m] = NoRow THEN db.embeddings[m]
                                                               ELSE tx[d].delta.embeddings[m]
            /\ after[m] = IF tx[d].delta.embeddings[m] = NoRow THEN mine[m]
                                                              ELSE tx[d].delta.embeddings[m]
      <4>1. DOMAIN mine = NodeIds \X Models
        BY ViewType DEF Db
      <4>2. after = Overlay(mine, tx[d].delta.embeddings)
        BY <1>1, <2>2 DEF View, OverlayDb
      <4> HIDE DEF after
      <4>3. \A m \in NodeIds \X Models : after[m] =
              IF tx[d].delta.embeddings[m] = NoRow THEN mine[m] ELSE tx[d].delta.embeddings[m]
        BY <4>1, <4>2 DEF Overlay
      <4> QED
        BY <4>3, ViewRows
    \* So a row of the new view is a row of a view that has all the indexes,
    \* those of the other apart that no row of that view is in.
    <3>4. \A m \in NodeIds \X Models : after[m] = mine[m] \/ after[m] = theirs[m]
      BY <3>3
    <3>5. /\ Kept(mine, Seen(c), meta', NoRow)
          /\ Kept(theirs, Seen(d), meta \cup ddl[d].meta, ddl[d].due)
      BY <1>4 DEF IndexInv, ClientKept
    <3>6. \/ set = Seen(d) /\ ddl[d].indexes # {} /\ \A m \in NodeIds \X Models : after[m] = theirs[m]
          \/ set = Seen(c)
      BY <3>1, <3>2, <3>3
    <3>7. \A i \in set : i.model \in Models
      BY <3>1, IndexFacts
    <3> HIDE DEF mine, theirs, after, set
    <3>8. \A i, j \in set : i.name = j.name => i = j
      BY <3>5, <3>6 DEF Kept
    <3>9. \A i \in set, n \in NodeIds :
            after[<<n, i.model>>] # NoRow => Dim[after[<<n, i.model>>]] = i.dim
      <4> SUFFICES ASSUME NEW i \in set, NEW n \in NodeIds, after[<<n, i.model>>] # NoRow
                   PROVE  Dim[after[<<n, i.model>>]] = i.dim
        OBVIOUS
      <4>1. <<n, i.model>> \in NodeIds \X Models
        BY <3>7
      <4>2. CASE i \in Seen(d) /\ after[<<n, i.model>>] = theirs[<<n, i.model>>]
        BY <3>5, <4>2 DEF Kept
      <4>3. CASE i \in Seen(c) /\ after[<<n, i.model>>] = mine[<<n, i.model>>]
        BY <3>5, <4>3 DEF Kept
      <4>4. \/ i \in Seen(d) /\ after[<<n, i.model>>] = theirs[<<n, i.model>>]
            \/ i \in Seen(c) /\ after[<<n, i.model>>] = mine[<<n, i.model>>]
        BY <3>1, <3>2, <3>3, <3>6, <4>1
      <4> QED
        BY <4>2, <4>3, <4>4
    <3>10. \A p : Named(Seen(c), p) \/ Named(Seen(d), p) => Named(set, p)
      BY <3>1 DEF Named
    <3>11. \A m \in NodeIds \X Models : after[m] # NoRow =>
             \/ Named(set, <<m[2], Dim[after[m]]>>)
             \/ ddl[d].due = <<m[2], Dim[after[m]]>>
      <4> SUFFICES ASSUME NEW m \in NodeIds \X Models, after[m] # NoRow
                   PROVE  \/ Named(set, <<m[2], Dim[after[m]]>>)
                          \/ ddl[d].due = <<m[2], Dim[after[m]]>>
        OBVIOUS
      <4>1. CASE after[m] = theirs[m]
        BY <3>5, <3>10, <4>1 DEF Kept
      <4>2. CASE after[m] = mine[m]
        <5>1. mine[m] \in Vectors
          <6>1. View(c) \in Db
            BY ViewType
          <6> QED
            BY <4>2, <6>1 DEF mine, Db
        <5>2. NoRow # <<m[2], Dim[mine[m]]>>
          BY <5>1, PairFacts
        <5>3. Named(Seen(c), <<m[2], Dim[mine[m]]>>)
          BY <3>5, <4>2, <5>2 DEF Kept
        <5> QED
          BY <3>10, <4>2, <5>3
      <4> QED
        BY <3>4, <4>1, <4>2
    <3>12. \A p \in meta' \cup ddl[d].meta : Named(set, p)
      BY <3>5, <3>10 DEF Kept
    <3>13. Kept(after, set, meta' \cup ddl[d].meta, ddl[d].due)
      BY <3>8, <3>9, <3>11, <3>12 DEF Kept
    <3> QED
      BY <3>1, <3>13 DEF ClientKept, after
  <2> QED
    BY <2>1, <2>2
<1> QED
  BY <1>1, <1>3, <1>4, <1>5, <1>6, <1>7 DEF IndexInv

LEMMA IndexInvStep == TypeOK /\ IndexInv /\ [IndexNext]_allVars => IndexInv'
<1> SUFFICES ASSUME TypeOK, IndexInv, [IndexNext]_allVars PROVE IndexInv'
  OBVIOUS
<1>1. CASE UNCHANGED allVars
  <2>1. /\ UNCHANGED <<seq, log, db, tx, known, calls, meta, indexes, ddl>>
        /\ \A c \in Clients : View(c)' = View(c)
    BY <1>1 DEF allVars, vars, indexVars, View
  <2>2. ASSUME NEW c \in Clients PROVE ClientKept(c)'
    BY <2>1, ClientKeptStays DEF IndexInv
  <2> QED
    BY <2>1, <2>2 DEF IndexInv, DdlType, Locked, InTransaction, Kept
<1>2. CASE IndexNext
  BY <1>2, IndexSteps, IdlesKeeps, DropsKeeps, RunsKeeps, PublishesKeeps,
     LockTableKeeps, CheckIndexKeeps, CreateIndexKeeps, StoreEmbeddingKeeps DEF Prepares
<1> QED
  BY <1>1, <1>2

LEMMA IndexInvInit == IndexInit => TypeOK /\ IndexInv
<1> SUFFICES ASSUME IndexInit PROVE TypeOK /\ IndexInv
  OBVIOUS
<1>1. /\ TypeOK /\ db = EmptyDb /\ meta = {} /\ indexes = {}
      /\ \A c \in Clients : ddl[c] = NoDdl /\ tx[c].delta = EmptyDb
      /\ DdlType
  BY TypeInit, NoDdlType DEF IndexInit, Init, Idle, DdlType
<1>2. \A c \in Clients : View(c) = EmptyDb /\ Seen(c) = {} /\ ddl[c].meta = {}
  BY <1>1, EmptyDelta, EmptyDbType DEF View, Seen, NoDdl
<1>3. ASSUME NEW due PROVE Kept(EmptyDb.embeddings, {}, {}, due)
  BY EmptyTables DEF Kept
<1>4. ASSUME NEW c \in Clients
      PROVE  Locked(c) /\ InTransaction(c) /\ ClientKept(c)
  <2>1. ClientKept(c)
    BY <1>1, <1>2, <1>3 DEF ClientKept
  <2>2. /\ ddl[c].lock = "none" /\ ~ddl[c].create
        /\ ddl[c].meta = {} /\ ddl[c].indexes = {}
    BY <1>1 DEF NoDdl
  <2>3. Locked(c)
    BY <1>1, <2>2, EmptyTables DEF Locked
  <2>4. InTransaction(c)
    BY <1>1, <2>2 DEF InTransaction
  <2> QED
    BY <2>1, <2>3, <2>4
<1> QED
  BY <1>1, <1>3, <1>4 DEF IndexInv

-----------------------------------------------------------------------------
(* The theorems.                                                            *)

LEMMA IndexInvariant == IndexSpec => [](TypeOK /\ IndexInv)
<1>1. (TypeOK /\ IndexInv) /\ [IndexNext]_allVars => (TypeOK /\ IndexInv)'
  BY StoreStep, TypeStep, IndexInvStep
<1> QED
  BY <1>1, IndexInvInit, PTL DEF IndexSpec

\* The index takes part in the transactions of an EventStore and changes no
\* step of it: whatever is proved of EventStore holds with the DDL in its
\* transactions and the locks on the table beside those on rows.
THEOREM IndexedStoreIsEventStore == IndexSpec => Spec
<1>1. IndexInit => Init
  BY DEF IndexInit
<1>2. TypeOK /\ IndexInv /\ [IndexNext]_allVars => [Next]_vars
  BY StoreStep
<1> QED
  BY <1>1, <1>2, IndexInvariant, PTL DEF IndexSpec, Spec

\* Every variable of the index module holds what it can, and no two indexes
\* have one name, however many clients find it free at once.
THEOREM IndexTypes == IndexSpec => []IndexTypeOK
<1>1. IndexInv => IndexTypeOK
  BY DEF IndexInv, DdlType, Kept, IndexTypeOK
<1> QED
  BY <1>1, IndexInvariant, PTL

\* Every stored embedding has an index under the name of its model and
\* dimension, whichever transaction made it.
THEOREM AllIndexed == IndexSpec => []EmbeddingsAreIndexed
<1>1. TypeOK /\ IndexInv => EmbeddingsAreIndexed
  <2> SUFFICES ASSUME TypeOK, IndexInv, NEW n \in NodeIds, NEW m \in Models,
                      db.embeddings[<<n, m>>] # NoRow
               PROVE  \E i \in indexes : i.name = Index(m, Dim[db.embeddings[<<n, m>>]]).name
    BY DEF EmbeddingsAreIndexed
  <2> DEFINE vector == db.embeddings[<<n, m>>]
  <2>1. vector \in Vectors /\ <<n, m>> \in NodeIds \X Models
    BY DEF TypeOK, Db
  <2>2. NoRow # <<m, Dim[vector]>>
    BY <2>1, PairFacts
  <2>3. Named(indexes, <<m, Dim[vector]>>)
    BY <2>1, <2>2 DEF IndexInv, Kept
  <2> QED
    BY <2>3 DEF Named, Index
<1> QED
  BY <1>1, IndexInvariant, PTL
=============================================================================
