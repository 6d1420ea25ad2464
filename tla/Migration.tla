----------------------------- MODULE Migration -----------------------------
(***************************************************************************)
(* connect: processes that share a database open it, each with the search  *)
(* language of its own configuration, and run migrate().                   *)
(*                                                                         *)
(* migrate() is one program of statements, each a transaction of its own,  *)
(* with no lock around them: it makes the tables and the trigger that fills*)
(* nodes.search_vector when v001 is not recorded, the table of v002 when   *)
(* that is not recorded, and replaces the function of the trigger when the *)
(* language on record is not the one configured.  A statement that fails   *)
(* ends the start with an error; the process may die at any point; nothing *)
(* undoes what was done.  Processes that are connected write nodes, in     *)
(* transactions of several rows, and the UPDATE that fills search_vector   *)
(* again meets their locks row by row.                                     *)
(***************************************************************************)
EXTENDS Integers, Sequences, FiniteSets

CONSTANTS
  Processes,
  Languages,  \* names that search_language may be set to
  Known,      \* those the server has a text search configuration for
  Safe,       \* those is_safe_identifier accepts
  English,    \* the language written in v001
  NodeIds,
  None,       \* nothing: no row, no function, no search vector
  MaxStarts   \* bound: starts in one behaviour

ASSUME MigrationAssumption ==
  /\ English \in Known /\ Known \subseteq Safe /\ Safe \subseteq Languages
  /\ None \notin Languages \cup {"empty"} /\ \A rows \in SUBSET NodeIds : None # rows
  /\ MaxStarts \in Nat

VARIABLES
  at,         \* per process: where in the program it is
  lang,       \* per process: its config.search_language
  schema,     \* the tables and views that exist
  trigger,    \* whether trg_nodes_search_vector exists
  function,   \* the language in smrti_nodes_search_vector_update()
  recorded,   \* the migrations in smrti_meta
  stored,     \* the search_language in smrti_meta
  nodes,      \* the rows of nodes: the language of their search_vector
  writing,    \* per process: the rows its open transaction has written
  filling,    \* per process: the rows its open UPDATE has yet to reach
  starts,     \* the number of starts so far
  beside,     \* history: the starts that had another one beside them
  unsettled,  \* history: a language set in the function and not recorded since
  torn        \* history: a start fell into one of the gaps named at Start

db == <<schema, trigger, function, recorded, stored, nodes>>
history == <<starts, beside, unsettled, torn>>
open == <<writing, filling>>
vars == <<at, lang, db, open, history>>

(***************************************************************************)
(* The program.  A step stands for the statements on one object: a table   *)
(* with its indexes, the extensions with the first table.  The check_ steps*)
(* read smrti_meta and may jump.                                           *)
(***************************************************************************)

\* Mutant: v001 is recorded before its statements run.
ProgramRecordFirst == <<
  "smrti_meta", "check_v001",
    "record_v001", "events", "nodes", "english_function", "drop_trigger",
    "create_trigger", "node_embeddings", "edges", "active_edges",
    "smrti_audit_log",
  "check_v002", "session_state", "record_v002",
  "check_language", "set_function", "backfill", "record_language" >>

\* Mutant: v001 does not drop the trigger before it creates it.
ProgramNoDrop == <<
  "smrti_meta", "check_v001",
    "events", "nodes", "english_function", "smrti_meta", "create_trigger",
    "node_embeddings", "edges", "active_edges", "smrti_audit_log",
    "record_v001",
  "check_v002", "session_state", "record_v002",
  "check_language", "set_function", "backfill", "record_language" >>

\* Mutant: the language is recorded before the rows are filled again.
ProgramLateBackfill == <<
  "smrti_meta", "check_v001",
    "events", "nodes", "english_function", "drop_trigger", "create_trigger",
    "node_embeddings", "edges", "active_edges", "smrti_audit_log",
    "record_v001",
  "check_v002", "session_state", "record_v002",
  "check_language", "set_function", "record_language", "backfill" >>

Program == <<
  "smrti_meta", "check_v001",
    "events", "nodes", "english_function", "drop_trigger", "create_trigger",
    "node_embeddings", "edges", "active_edges", "smrti_audit_log",
    "record_v001",
  "check_v002", "session_state", "record_v002",
  "check_language", "set_function", "backfill", "record_language" >>

Down == 0
CheckV002 == 13
CheckLanguage == 16
Connected == 20

Schema == {"smrti_meta", "events", "nodes", "node_embeddings", "edges",
           "active_edges", "smrti_audit_log", "session_state"}

NoRows == [n \in NodeIds |-> None]

Migrating(p) == at[p] \in 1 .. Connected - 1
Runs(p, s) == Migrating(p) /\ Program[at[p]] = s

Init == /\ at = [p \in Processes |-> Down]
        /\ lang = [p \in Processes |-> English]
        /\ schema = {}
        /\ trigger = FALSE
        /\ function = None
        /\ recorded = {}
        /\ stored = None
        /\ nodes = [n \in NodeIds |-> None]
        /\ writing = [p \in Processes |-> NoRows]
        /\ filling = [p \in Processes |-> None]
        /\ starts = 0
        /\ beside = {}
        /\ unsettled = None
        /\ torn = FALSE
-----------------------------------------------------------------------------
(* Starting and stopping.                                                   *)

\* connect(): the pool is open and migrate() begins.  The history notes a
\* start that another start, or a running process of another language, may
\* get in the way of, and one that changes the language again after a change
\* that was cut off.
Start(p, l) ==
  /\ at[p] = Down
  /\ starts < MaxStarts
  /\ starts' = starts + 1
  /\ at' = [at EXCEPT ![p] = 1]
  /\ lang' = [lang EXCEPT ![p] = l]
  /\ LET others == {q \in Processes \ {p} : Migrating(q)} IN
       /\ beside' = IF others = {} THEN beside \ {p} ELSE beside \cup others \cup {p}
       /\ torn' = (\/ torn
                   \/ others # {}
                   \/ \E q \in Processes \ {p} : at[q] = Connected /\ lang[q] # l
                   \/ unsettled \notin {None, l})
  /\ UNCHANGED <<db, open, unsettled>>

\* Process p is down: it died, it closed its pool, or connect() returned an
\* error.  Its open transaction is rolled back.
Leaves(p) == /\ at' = [at EXCEPT ![p] = Down]
             /\ writing' = [writing EXCEPT ![p] = NoRows]
             /\ filling' = [filling EXCEPT ![p] = None]

Stop(p) == /\ at[p] # Down
           /\ Leaves(p)
           /\ UNCHANGED <<lang, db, history>>

\* The step after the one process p is at; the last one ends connect().
Arrives(p, i) == at' = [at EXCEPT ![p] = i]

-----------------------------------------------------------------------------
(* The statements.                                                          *)

\* CREATE TABLE, INDEX and VIEW, with IF NOT EXISTS or OR REPLACE; CREATE OR
\* REPLACE FUNCTION, in v001 and for another language.
Creates(p) ==
  /\ \/ /\ \E s \in Schema : Runs(p, s) /\ schema' = schema \cup {s}
        /\ UNCHANGED <<function, unsettled>>
     \/ /\ Runs(p, "english_function")
        /\ function' = English
        /\ UNCHANGED <<schema, unsettled>>
     \/ /\ Runs(p, "set_function")
        /\ function' = lang[p]
        /\ unsettled' = lang[p]
        /\ UNCHANGED schema
  /\ UNCHANGED <<lang, trigger, recorded, stored, nodes, starts, beside, torn>>

Create(p) == Creates(p) /\ Arrives(p, at[p] + 1) /\ UNCHANGED open

\* Two processes run one CREATE at once.  Neither sees the other's object,
\* for which IF NOT EXISTS does not wait, and the catalog takes one of them:
\* the other statement fails.  OR REPLACE of a function fails in the same way.
Collide(p, q) ==
  /\ p # q
  /\ at[p] = at[q]
  /\ \A s \in Schema : Runs(p, s) => s \notin schema
  /\ Creates(q)
  /\ at' = [at EXCEPT ![p] = Down, ![q] = @ + 1]
  /\ UNCHANGED open

\* Process p has a transaction open that writes nodes.
Writes(p) == filling[p] # None \/ writing[p] # NoRows

\* DROP TRIGGER IF EXISTS and CREATE TRIGGER lock nodes against writers.
SetTrigger(p) ==
  /\ \A q \in Processes : ~Writes(q)
  /\ \/ Runs(p, "drop_trigger") /\ trigger' = FALSE
     \/ Runs(p, "create_trigger") /\ ~trigger /\ trigger' = TRUE
  /\ Arrives(p, at[p] + 1)
  /\ UNCHANGED <<lang, schema, function, recorded, stored, nodes, open,
                 starts, beside, unsettled, torn>>

\* INSERT INTO smrti_meta, without ON CONFLICT.
Record(p) ==
  /\ \E version \in {"v001", "v002"} :
       /\ Runs(p, IF version = "v001" THEN "record_v001" ELSE "record_v002")
       /\ version \notin recorded
       /\ recorded' = recorded \cup {version}
  /\ Arrives(p, at[p] + 1)
  /\ UNCHANGED <<lang, schema, trigger, function, stored, nodes, open,
                 starts, beside, unsettled, torn>>

\* The configured language is not the one the trigger is said to speak.
NeedsUpdate(l) == IF stored = None THEN l # English ELSE stored # l

\* The three reads of smrti_meta, and what is skipped after each.
Check(p) ==
  /\ \/ /\ Runs(p, "check_v001")
        /\ Arrives(p, IF "v001" \in recorded THEN CheckV002 ELSE at[p] + 1)
     \/ /\ Runs(p, "check_v002")
        /\ Arrives(p, IF "v002" \in recorded THEN CheckLanguage ELSE at[p] + 1)
     \/ /\ Runs(p, "check_language")
        /\ NeedsUpdate(lang[p]) => lang[p] \in Safe
        /\ Arrives(p, IF NeedsUpdate(lang[p]) THEN at[p] + 1 ELSE Connected)
  /\ UNCHANGED <<lang, db, open, starts, beside, unsettled, torn>>

\* UPDATE nodes SET search_vector, which does not fire the trigger.  It changes
\* the rows that are committed when it begins, one by one, waiting for a row
\* that an open transaction has written, and commits when it has all of them.
Free(p, n) == \A q \in Processes \ {p} : writing[q][n] = None

Committed(p) == [n \in NodeIds |-> IF writing[p][n] = None THEN nodes[n] ELSE writing[p][n]]

Backfill(p) ==
  /\ Runs(p, "backfill")
  /\ lang[p] \in Known
  /\ filling[p] = None
  /\ filling' = [filling EXCEPT ![p] = {n \in NodeIds : nodes[n] # None}]
  /\ UNCHANGED <<at, lang, db, writing, history>>

Fill(p, n) ==
  /\ filling[p] # None
  /\ n \in filling[p]
  /\ Free(p, n)
  /\ filling' = [filling EXCEPT ![p] = @ \ {n}]
  /\ writing' = [writing EXCEPT ![p][n] = lang[p]]
  /\ UNCHANGED <<at, lang, db, history>>

Filled(p) ==
  /\ filling[p] = {}
  /\ nodes' = Committed(p)
  /\ writing' = [writing EXCEPT ![p] = NoRows]
  /\ filling' = [filling EXCEPT ![p] = None]
  /\ Arrives(p, at[p] + 1)
  /\ UNCHANGED <<lang, schema, trigger, function, recorded, stored, history>>

RecordLanguage(p) ==
  /\ Runs(p, "record_language")
  /\ stored' = lang[p]
  /\ unsettled' = None
  /\ Arrives(p, at[p] + 1)
  /\ UNCHANGED <<lang, schema, trigger, function, recorded, nodes, open,
                 starts, beside, torn>>

\* The UPDATE of p waits for a row, and a transaction may wait for a row that
\* the UPDATE has changed: that of a writer, or another UPDATE.
Deadlocked(p) ==
  /\ filling[p] # None
  /\ \E n \in filling[p] : ~Free(p, n)
  /\ \E n \in NodeIds, q \in Processes \ {p} :
       /\ writing[p][n] # None
       /\ at[q] = Connected \/ (filling[q] # None /\ n \in filling[q])

\* A statement raises an error and connect() returns it: the trigger or the
\* row is there, the language is refused or is not one the server has, or the
\* statement is the one that the server ends in a deadlock.
Refused(p) ==
  \/ Runs(p, "create_trigger") /\ trigger
  \/ Runs(p, "record_v001") /\ "v001" \in recorded
  \/ Runs(p, "record_v002") /\ "v002" \in recorded
  \/ Runs(p, "check_language") /\ NeedsUpdate(lang[p]) /\ lang[p] \notin Safe
  \/ Runs(p, "backfill") /\ lang[p] \notin Known
  \/ Deadlocked(p)

Fail(p) == Refused(p) /\ Leaves(p) /\ UNCHANGED <<lang, db, history>>

-----------------------------------------------------------------------------
(* The writers: processes that are connected.                               *)

\* INSERT INTO nodes, or UPDATE of content: the trigger fills search_vector, or
\* fails when it has a language the server does not know; without a trigger the
\* new row has none and the old one keeps its own.
Write(p, n) ==
  /\ at[p] = Connected
  /\ Free(p, n)
  /\ trigger => function \in Known
  /\ writing' = [writing EXCEPT ![p][n] =
                   CASE trigger -> function
                     [] ~trigger /\ Committed(p)[n] = None -> "empty"
                     [] OTHER -> Committed(p)[n]]
  /\ UNCHANGED <<at, lang, db, filling, history>>

CommitWrites(p) ==
  /\ at[p] = Connected
  /\ Writes(p)
  /\ nodes' = Committed(p)
  /\ writing' = [writing EXCEPT ![p] = NoRows]
  /\ UNCHANGED <<at, lang, schema, trigger, function, recorded, stored, filling, history>>

\* The transaction fails, as the one the server ends in a deadlock does.
RollBack(p) ==
  /\ at[p] = Connected
  /\ Writes(p)
  /\ writing' = [writing EXCEPT ![p] = NoRows]
  /\ UNCHANGED <<at, lang, db, filling, history>>

Next ==
  \E p \in Processes :
    \/ \E l \in Languages : Start(p, l)
    \/ Stop(p)
    \/ Create(p) \/ SetTrigger(p) \/ Record(p) \/ Check(p)
    \/ Backfill(p) \/ Filled(p) \/ RecordLanguage(p)
    \/ Fail(p)
    \/ \E q \in Processes : Collide(p, q)
    \/ \E n \in NodeIds : Fill(p, n) \/ Write(p, n)
    \/ CommitWrites(p) \/ RollBack(p)

Spec == Init /\ [][Next]_vars
-----------------------------------------------------------------------------
(* Properties.                                                              *)

\* What the variables hold.  No language that the server does not know gets
\* on record or into a row.
TypeOK ==
  /\ at \in [Processes -> Down .. Connected]
  /\ lang \in [Processes -> Languages]
  /\ schema \subseteq Schema
  /\ trigger \in BOOLEAN
  /\ function \in Languages \cup {None}
  /\ recorded \subseteq {"v001", "v002"}
  /\ stored \in Known \cup {None}
  /\ nodes \in [NodeIds -> Known \cup {None, "empty"}]
  /\ writing \in [Processes -> [NodeIds -> Known \cup {None, "empty"}]]
  /\ filling \in [Processes -> {None} \cup SUBSET NodeIds]
  /\ starts \in Nat
  /\ beside \subseteq Processes
  /\ unsettled \in Languages \cup {None}
  /\ torn \in BOOLEAN

\* Whoever is connected finds every table, however starts raced, failed and
\* died before ("First connection auto-creates tables", docs/decisions.md D14).
ConnectedFindsSchema ==
  \A p \in Processes : at[p] = Connected => schema = Schema

\* A start that no other start runs beside does not fail, whatever the starts
\* before it have left behind, if the server knows its language, unless it
\* changes the language while a process that is connected writes.
LoneStartSucceeds ==
  \A p \in Processes : Refused(p) =>
    \/ p \in beside
    \/ lang[p] \notin Known
    \/ Runs(p, "backfill") /\ \E q \in Processes : at[q] = Connected /\ Writes(q)

\* Outside the gaps that torn tells of, whoever is connected searches rows
\* whose search_vector is in its own language, and so will be the rows written
\* from then on.
SearchSpeaksOneLanguage ==
  \A p \in Processes : ~torn /\ at[p] = Connected =>
    /\ trigger
    /\ function = lang[p]
    /\ \A n \in NodeIds : nodes[n] \in {None, lang[p]}
    /\ \A q \in Processes, n \in NodeIds : writing[q][n] \in {None, lang[p]}
=============================================================================
