-------------------------- MODULE MigrationProofs --------------------------
(***************************************************************************)
(* What connect() promises, for any number of processes, languages, starts *)
(* and nodes.                                                              *)
(***************************************************************************)
EXTENDS Migration, TLAPS

-----------------------------------------------------------------------------
(* The program by the numbers of its steps.                                 *)

LEMMA ProgramSteps ==
  \A i \in 1 .. 19 :
    /\ Program[i] \in Schema <=> i \in {1, 3, 4, 8, 9, 10, 11, 14}
    /\ Program[i] = "check_v001" <=> i = 2
    /\ Program[i] = "english_function" <=> i = 5
    /\ Program[i] = "drop_trigger" <=> i = 6
    /\ Program[i] = "create_trigger" <=> i = 7
    /\ Program[i] = "record_v001" <=> i = 12
    /\ Program[i] = "check_v002" <=> i = 13
    /\ Program[i] = "record_v002" <=> i = 15
    /\ Program[i] = "check_language" <=> i = 16
    /\ Program[i] = "set_function" <=> i = 17
    /\ Program[i] = "backfill" <=> i = 18
    /\ Program[i] = "record_language" <=> i = 19
BY DEF Program, Schema

LEMMA Positions ==
  /\ Down = 0 /\ CheckV002 = 13 /\ CheckLanguage = 16 /\ Connected = 20
  /\ \A p : \A s : Runs(p, s) <=> at[p] \in 1 .. 19 /\ Program[at[p]] = s
BY DEF Down, CheckV002, CheckLanguage, Connected, Runs, Migrating

-----------------------------------------------------------------------------
(* Types.  A process that is past the backfill has a known language, and    *)
(* those with an open transaction are at the backfill or connected.         *)

BackfillKnows == \A p \in Processes : at[p] = 19 => lang[p] \in Known

OpenWhere ==
  \A p \in Processes :
    /\ filling[p] # None => at[p] = 18 /\ lang[p] \in Known
    /\ (\E n \in NodeIds : writing[p][n] # None) => at[p] = 20 \/ filling[p] # None

TypeInv == TypeOK /\ BackfillKnows /\ OpenWhere

\* The languages named in the code are languages.
LEMMA KnownLanguages ==
  /\ Known \subseteq Languages /\ Safe \subseteq Languages
  /\ English \in Known /\ English \in Languages /\ None \notin Languages /\ None \notin Known
  /\ None # "empty" /\ \A rows \in SUBSET NodeIds : None # rows
BY MigrationAssumption

\* What a transaction has open, in terms of its rows.
LEMMA OpenTypes ==
  ASSUME TypeOK
  PROVE  /\ NoRows \in [NodeIds -> Known \cup {None, "empty"}]
         /\ \A n \in NodeIds : NoRows[n] = None
         /\ \A p \in Processes : writing[p] # NoRows => \E n \in NodeIds : writing[p][n] # None
         /\ \A p \in Processes : Committed(p) \in [NodeIds -> Known \cup {None, "empty"}]
         /\ \A p \in Processes, n \in NodeIds :
              Committed(p)[n] = IF writing[p][n] = None THEN nodes[n] ELSE writing[p][n]
<1>1. ASSUME NEW p \in Processes, writing[p] # NoRows
      PROVE  \E n \in NodeIds : writing[p][n] # None
  BY <1>1 DEF TypeOK, NoRows
<1> QED
  BY <1>1 DEF TypeOK, NoRows, Committed

LEMMA TypeInit == Init => TypeInv
<1> SUFFICES ASSUME Init PROVE TypeInv
  OBVIOUS
<1>1. \A p \in Processes : /\ at[p] = 0 /\ lang[p] = English /\ filling[p] = None
                           /\ \A n \in NodeIds : writing[p][n] = None
  BY Positions DEF Init, NoRows
<1>2. at \in [Processes -> 0 .. 20] /\ lang \in [Processes -> Languages]
  BY Positions, KnownLanguages DEF Init
<1>3. torn \in BOOLEAN /\ trigger \in BOOLEAN
  BY DEF Init
<1> QED
  BY <1>1, <1>2, <1>3, Positions DEF Init, NoRows, TypeInv, TypeOK, BackfillKnows, OpenWhere

LEMMA TypeStep == TypeInv /\ [Next]_vars => TypeInv'
<1> SUFFICES ASSUME TypeInv, [Next]_vars PROVE TypeInv'
  OBVIOUS
<1> USE Positions, KnownLanguages
<1>a. /\ NoRows \in [NodeIds -> Known \cup {None, "empty"}]
      /\ \A n \in NodeIds : NoRows[n] = None
  BY OpenTypes DEF TypeInv
<1>1. ASSUME NEW p \in Processes, NEW l \in Languages, Start(p, l) PROVE TypeInv'
  BY <1>1 DEF TypeInv, TypeOK, BackfillKnows, OpenWhere, Start, db, open
<1>2. ASSUME NEW p \in Processes, Stop(p) \/ Fail(p) PROVE TypeInv'
  <2>1. Leaves(p) /\ UNCHANGED <<lang, db, history>>
    BY <1>2 DEF Stop, Fail
  <2> QED
    BY <1>a, <2>1 DEF TypeInv, TypeOK, BackfillKnows, OpenWhere, Leaves, db, history
<1>3. ASSUME NEW p \in Processes, Creates(p), open' = open, filling[p] = None, at[p] \in 1 .. 19,
             at' \in [Processes -> 0 .. 20], at'[p] = at[p] + 1,
             \A q \in Processes \ {p} : \/ at'[q] = at[q]
                                        \/ /\ at'[q] = 0 /\ filling[q] = None
                                           /\ \A n \in NodeIds : writing[q][n] = None
      PROVE  TypeInv'
  <2>1. at[p] # 18
    BY <1>3, ProgramSteps DEF Creates
  <2>2. schema' \subseteq Schema /\ function' \in Languages \cup {None}
        /\ unsettled' \in Languages \cup {None}
    BY <1>3 DEF Creates, TypeInv, TypeOK
  <2> QED
    BY <1>3, <2>1, <2>2 DEF Creates, TypeInv, TypeOK, BackfillKnows, OpenWhere, open
<1>b. ASSUME NEW p \in Processes, at[p] \in (1 .. 19) \ {18}
      PROVE  filling[p] = None /\ \A n \in NodeIds : writing[p][n] = None
  BY <1>b DEF TypeInv, OpenWhere
<1>4. ASSUME NEW p \in Processes, Create(p) PROVE TypeInv'
  <2>1. at[p] \in (1 .. 19) \ {18}
    BY <1>4, ProgramSteps DEF Create, Creates
  <2>2. filling[p] = None
    BY <1>b, <2>1
  <2> QED
    BY <1>3, <1>4, <2>1, <2>2 DEF Create, Arrives, TypeInv, TypeOK
<1>5. ASSUME NEW p \in Processes, NEW q \in Processes, Collide(p, q) PROVE TypeInv'
  <2>1. at[q] \in (1 .. 19) \ {18} /\ at[p] = at[q]
    BY <1>5, ProgramSteps DEF Collide, Creates
  <2>2. filling[q] = None /\ filling[p] = None /\ \A n \in NodeIds : writing[p][n] = None
    BY <1>b, <2>1
  <2>3. /\ at' \in [Processes -> 0 .. 20] /\ at'[q] = at[q] + 1 /\ at'[p] = 0
        /\ \A r \in Processes \ {p, q} : at'[r] = at[r]
    BY <1>5, <2>1 DEF Collide, TypeInv, TypeOK
  <2>4. Creates(q) /\ open' = open
    BY <1>5 DEF Collide
  <2> QED
    BY <1>3, <2>1, <2>2, <2>3, <2>4
<1>6. ASSUME NEW p \in Processes, SetTrigger(p) PROVE TypeInv'
  <2>1. at[p] \in {6, 7} /\ at' = [at EXCEPT ![p] = at[p] + 1]
    BY <1>6, ProgramSteps DEF SetTrigger, Arrives
  <2>2. trigger' \in BOOLEAN
    BY <1>6 DEF SetTrigger
  <2> QED
    BY <1>b, <1>6, <2>1, <2>2 DEF SetTrigger, TypeInv, TypeOK, BackfillKnows, OpenWhere, open
<1>7. ASSUME NEW p \in Processes, Record(p) PROVE TypeInv'
  BY <1>b, <1>7, ProgramSteps
     DEF Record, Arrives, TypeInv, TypeOK, BackfillKnows, OpenWhere, open
<1>8. ASSUME NEW p \in Processes, Check(p) PROVE TypeInv'
  <2>1. PICK i \in (1 .. 20) \ {19} : at' = [at EXCEPT ![p] = i]
    BY <1>8, ProgramSteps DEF Check, Arrives
  <2>2. at[p] \in {2, 13, 16} /\ UNCHANGED <<lang, db, open, starts, beside, unsettled, torn>>
    BY <1>8, ProgramSteps DEF Check
  <2>3. filling[p] = None /\ \A n \in NodeIds : writing[p][n] = None
    BY <1>b, <2>2
  <2>4. TypeOK'
    BY <2>1, <2>2 DEF TypeInv, TypeOK, db, open
  <2>5. BackfillKnows' /\ OpenWhere'
    BY <2>1, <2>2, <2>3 DEF TypeInv, TypeOK, BackfillKnows, OpenWhere, db, open
  <2> QED
    BY <2>4, <2>5 DEF TypeInv
<1>9. ASSUME NEW p \in Processes, Backfill(p) PROVE TypeInv'
  BY <1>9, ProgramSteps
     DEF Backfill, TypeInv, TypeOK, BackfillKnows, OpenWhere, db, history
<1>10. ASSUME NEW p \in Processes, RecordLanguage(p) PROVE TypeInv'
  BY <1>b, <1>10, ProgramSteps
     DEF RecordLanguage, Arrives, TypeInv, TypeOK, BackfillKnows, OpenWhere, open
<1>11. ASSUME NEW p \in Processes, Filled(p) PROVE TypeInv'
  <2>1. filling[p] # None
    BY <1>11 DEF Filled
  <2>2. at[p] = 18 /\ lang[p] \in Known
    BY <2>1 DEF TypeInv, OpenWhere
  <2>3. nodes' \in [NodeIds -> Known \cup {None, "empty"}]
    BY <1>11, OpenTypes DEF Filled, TypeInv
  <2> QED
    BY <1>a, <1>11, <2>2, <2>3
       DEF Filled, Arrives, TypeInv, TypeOK, BackfillKnows, OpenWhere, history
<1>12. ASSUME NEW p \in Processes, NEW n \in NodeIds, Fill(p, n) PROVE TypeInv'
  <2>1. lang[p] \in Known /\ at[p] = 18
    BY <1>12 DEF Fill, TypeInv, OpenWhere
  <2>2. writing' \in [Processes -> [NodeIds -> Known \cup {None, "empty"}]]
    BY <1>12, <2>1 DEF Fill, TypeInv, TypeOK
  <2>3. filling[p] \in SUBSET NodeIds /\ filling' = [filling EXCEPT ![p] = filling[p] \ {n}]
    BY <1>12 DEF Fill, TypeInv, TypeOK
  <2>4. filling' \in [Processes -> {None} \cup SUBSET NodeIds] /\ filling'[p] # None
    BY <2>3 DEF TypeInv, TypeOK
  <2>5. \A q \in Processes \ {p} : writing'[q] = writing[q] /\ filling'[q] = filling[q]
    BY <1>12 DEF Fill, TypeInv, TypeOK
  <2> QED
    BY <1>12, <2>1, <2>2, <2>4, <2>5
       DEF Fill, TypeInv, TypeOK, BackfillKnows, OpenWhere, db, history
<1>13. ASSUME NEW p \in Processes, NEW n \in NodeIds, Write(p, n) PROVE TypeInv'
  <2>1. PICK v \in Known \cup {None, "empty"} : writing' = [writing EXCEPT ![p][n] = v]
    <3>1. Committed(p)[n] \in Known \cup {None, "empty"}
      BY OpenTypes DEF TypeInv
    <3> QED
      BY <1>13, <3>1 DEF Write
  <2>2. writing' \in [Processes -> [NodeIds -> Known \cup {None, "empty"}]]
    BY <2>1 DEF TypeInv, TypeOK
  <2>3. \A q \in Processes \ {p} : writing'[q] = writing[q]
    BY <2>1 DEF TypeInv, TypeOK
  <2> QED
    BY <1>13, <2>2, <2>3
       DEF Write, TypeInv, TypeOK, BackfillKnows, OpenWhere, db, history
<1>14. ASSUME NEW p \in Processes, CommitWrites(p) \/ RollBack(p) PROVE TypeInv'
  <2>1. nodes' \in [NodeIds -> Known \cup {None, "empty"}]
    BY <1>14, OpenTypes DEF CommitWrites, RollBack, TypeInv, TypeOK, db
  <2>2. /\ writing' = [writing EXCEPT ![p] = NoRows]
        /\ UNCHANGED <<at, lang, schema, trigger, function, recorded, stored, filling, history>>
    BY <1>14 DEF CommitWrites, RollBack, db
  <2>3. TypeOK'
    BY <1>a, <2>1, <2>2 DEF TypeInv, TypeOK, history
  <2>4. BackfillKnows' /\ OpenWhere'
    BY <1>a, <2>2 DEF TypeInv, TypeOK, BackfillKnows, OpenWhere
  <2> QED
    BY <2>3, <2>4 DEF TypeInv
<1>15. CASE UNCHANGED vars
  BY <1>15 DEF TypeInv, TypeOK, BackfillKnows, OpenWhere, vars, db, open, history
<1> QED
  BY <1>1, <1>2, <1>4, <1>5, <1>6, <1>7, <1>8, <1>9, <1>10, <1>11, <1>12, <1>13, <1>14, <1>15
     DEF Next

\* What the variables of Migration hold, whatever starts, fails and dies.
THEOREM TypeCorrect == Spec => []TypeOK
<1>1. TypeInv => TypeOK
  BY DEF TypeInv
<1> QED
  BY TypeInit, TypeStep, <1>1, PTL DEF Spec

-----------------------------------------------------------------------------
(* The schema.  Whoever has come to a step has the objects of the steps     *)
(* before it, whether it made them or a record told it that they are there. *)

Laid(i) == {s \in Schema : \E j \in 1 .. (i - 1) : Program[j] = s}

SchemaInv ==
  /\ \A p \in Processes : at[p] # 0 => Laid(at[p]) \subseteq schema
  /\ "v001" \in recorded => Laid(13) \subseteq schema
  /\ "v002" \in recorded => Laid(16) \subseteq schema

\* A process whose start nobody is beside works alone, and finds what its
\* checks have seen.
HasChecked(p) == /\ at[p] = 7 => ~trigger
                 /\ at[p] \in 3 .. 12 => "v001" \notin recorded
                 /\ at[p] \in 14 .. 15 => "v002" \notin recorded

LoneInv ==
  /\ \A p, q \in Processes : p # q /\ Migrating(p) /\ Migrating(q) => p \in beside
  /\ \A p \in Processes : p \notin beside => HasChecked(p)

\* The language on record, and what is true of it outside the gaps: starts do
\* not overlap, all processes that are up have one language, a change of the
\* language is under way only while nobody is connected, and the function and
\* the rows are in the language on record or in that of such a change.
OnRecord == IF stored = None THEN English ELSE stored

Alone ==
  /\ \A p, q \in Processes : p # q => ~(Migrating(p) /\ Migrating(q))
  /\ \A p, q \in Processes : at[p] # 0 /\ at[q] # 0 => lang[p] = lang[q]
  /\ \A p \in Processes : at[p] # 0 => unsettled \in {None, lang[p]}

Changing ==
  /\ unsettled # None => unsettled # OnRecord
  /\ \A p \in Processes : /\ at[p] \in 17 .. 19 => lang[p] # OnRecord
                          /\ at[p] \in 18 .. 19 => unsettled = lang[p]
                          /\ at[p] = 20 => lang[p] = OnRecord /\ unsettled = None

Founded ==
  /\ \A p \in Processes : /\ at[p] \in 3 .. 12 => "v001" \notin recorded
                          /\ at[p] >= 13 => "v001" \in recorded
                          /\ at[p] \in 6 .. 12 => function = English
                          /\ at[p] \in 8 .. 12 => trigger
  /\ "v001" \notin recorded =>
       stored = None /\ unsettled = None /\ \A n \in NodeIds : nodes[n] = None
  /\ "v001" \in recorded =>
       trigger /\ function = IF unsettled = None THEN OnRecord ELSE unsettled

InLanguage ==
  /\ \A q \in Processes, n \in NodeIds : writing[q][n] \in {None, lang[q]}
  /\ \A p \in Processes, n \in NodeIds :
       filling[p] # None /\ nodes[n] # None => n \in filling[p] \/ writing[p][n] = lang[p]
  /\ \A n \in NodeIds : nodes[n] \in {None, OnRecord, unsettled}
  /\ \A p \in Processes : at[p] = 19 => \A n \in NodeIds : nodes[n] \in {None, lang[p]}

SpeaksInv == ~torn => Alone /\ Changing /\ Founded /\ InLanguage

-----------------------------------------------------------------------------
(* The actions by the numbers of the steps they take.                       *)

LEMMA CreateAt ==
  ASSUME TypeInv, NEW p \in Processes, Creates(p)
  PROVE  /\ at[p] \in 1 .. 19
         /\ \/ /\ at[p] \in {1, 3, 4, 8, 9, 10, 11, 14}
               /\ schema' = schema \cup {Program[at[p]]}
               /\ function' = function /\ unsettled' = unsettled
            \/ /\ at[p] = 5 /\ function' = English
               /\ schema' = schema /\ unsettled' = unsettled
            \/ /\ at[p] = 17 /\ function' = lang[p] /\ unsettled' = lang[p]
               /\ schema' = schema
         /\ lang' = lang /\ trigger' = trigger /\ recorded' = recorded /\ stored' = stored
         /\ nodes' = nodes /\ beside' = beside /\ torn' = torn
BY ProgramSteps, Positions DEF Creates

LEMMA CheckAt ==
  ASSUME TypeInv, NEW p \in Processes, Check(p)
  PROVE  /\ \E i \in 1 .. 20 :
              /\ at' = [at EXCEPT ![p] = i]
              /\ \/ at[p] = 2 /\ "v001" \in recorded /\ i = 13
                 \/ at[p] = 2 /\ "v001" \notin recorded /\ i = 3
                 \/ at[p] = 13 /\ "v002" \in recorded /\ i = 16
                 \/ at[p] = 13 /\ "v002" \notin recorded /\ i = 14
                 \/ at[p] = 16 /\ NeedsUpdate(lang[p]) /\ i = 17
                 \/ at[p] = 16 /\ ~NeedsUpdate(lang[p]) /\ i = 20
         /\ UNCHANGED <<lang, db, open, starts, beside, unsettled, torn>>
BY ProgramSteps, Positions DEF Check, Arrives

LEMMA RecordAt ==
  ASSUME TypeInv, NEW p \in Processes, Record(p)
  PROVE  /\ at[p] \in {12, 15} /\ at' = [at EXCEPT ![p] = at[p] + 1]
         /\ recorded' = recorded \cup {IF at[p] = 12 THEN "v001" ELSE "v002"}
         /\ UNCHANGED <<lang, schema, trigger, function, stored, nodes, open,
                        starts, beside, unsettled, torn>>
BY ProgramSteps, Positions DEF Record, Arrives

LEMMA SetTriggerAt ==
  ASSUME TypeInv, NEW p \in Processes, SetTrigger(p)
  PROVE  /\ (at[p] = 6 /\ ~trigger') \/ (at[p] = 7 /\ trigger')
         /\ at' = [at EXCEPT ![p] = at[p] + 1]
         /\ UNCHANGED <<lang, schema, function, recorded, stored, nodes, open,
                        starts, beside, unsettled, torn>>
<1>1. (at[p] = 6 /\ trigger' = FALSE) \/ (at[p] = 7 /\ trigger' = TRUE)
  BY ProgramSteps, Positions DEF SetTrigger
<1> QED
  BY <1>1 DEF SetTrigger, Arrives

LEMMA LanguageAt ==
  ASSUME TypeInv, NEW p \in Processes, Filled(p) \/ RecordLanguage(p)
  PROVE  /\ Filled(p) => at[p] = 18 /\ filling[p] # None /\ lang[p] \in Known
         /\ RecordLanguage(p) => at[p] = 19
         /\ at' = [at EXCEPT ![p] = at[p] + 1]
         /\ UNCHANGED <<lang, schema, trigger, function, recorded,
                        starts, beside, torn>>
<1>1. ASSUME Filled(p) PROVE at[p] = 18 /\ filling[p] # None /\ lang[p] \in Known
  BY <1>1, KnownLanguages DEF Filled, TypeInv, OpenWhere
<1> QED
  BY <1>1, ProgramSteps, Positions DEF Filled, RecordLanguage, Arrives, history

\* The steps of open transactions that change no table and no position.
OpenStep(p) == \/ Backfill(p) \/ RollBack(p) \/ CommitWrites(p)
               \/ \E n \in NodeIds : Fill(p, n) \/ Write(p, n)

LEMMA OpenAt ==
  ASSUME NEW p \in Processes, OpenStep(p)
  PROVE  UNCHANGED <<at, lang, schema, trigger, function, recorded, stored, history>>
BY DEF OpenStep, Backfill, RollBack, CommitWrites, Fill, Write, db

-----------------------------------------------------------------------------
(* The schema.                                                              *)

LEMMA LaidSteps ==
  /\ \A i \in 1 .. 19 : Laid(i + 1) \subseteq Laid(i) \cup {Program[i]}
  /\ \A i \in 1 .. 19 : Program[i] \notin Schema => Laid(i + 1) \subseteq Laid(i)
  /\ \A i \in 1 .. 20 : i <= 13 => Laid(i) \subseteq Laid(13)
  /\ Laid(1) = {} /\ Laid(20) = Schema /\ Laid(20) = Laid(16)
<1>1. Laid(20) = Schema
  <2>1. \A s \in Schema : \E j \in 1 .. 19 : Program[j] = s
    BY DEF Schema, Program
  <2> QED
    BY <2>1 DEF Laid
<1>2. Laid(20) = Laid(16)
  BY ProgramSteps DEF Laid
<1> QED
  BY <1>1, <1>2 DEF Laid

LEMMA SchemaStart == Init => SchemaInv
BY Positions DEF Init, SchemaInv

\* A step that keeps the schema and the records, and takes its process to the
\* next step, from one that makes no object, or down.
LEMMA SchemaKept ==
  ASSUME TypeInv, SchemaInv, NEW p \in Processes,
         schema' = schema, recorded' = recorded, at' \in [Processes -> 0 .. 20],
         \A q \in Processes : \/ at'[q] \in {0, at[q]}
                             \/ /\ at[q] \in 1 .. 19 /\ at'[q] = at[q] + 1
                                /\ Program[at[q]] \notin Schema
  PROVE  SchemaInv'
<1>1. \A i : Laid(i)' = Laid(i)
  BY DEF Laid
<1>2. ASSUME NEW q \in Processes, at'[q] # 0 PROVE Laid(at'[q]) \subseteq schema
  BY <1>2, LaidSteps DEF SchemaInv
<1> QED
  BY <1>1, <1>2 DEF SchemaInv

LEMMA SchemaMade ==
  ASSUME TypeInv, SchemaInv, NEW p \in Processes, Creates(p),
         at' \in [Processes -> 0 .. 20], at'[p] = at[p] + 1,
         \A q \in Processes \ {p} : at'[q] \in {0, at[q]}
  PROVE  SchemaInv'
<1>1. \A i : Laid(i)' = Laid(i)
  BY DEF Laid
<1>2. schema \subseteq schema' /\ recorded' = recorded /\ at[p] \in 1 .. 19
  BY CreateAt
<1>3. Laid(at[p] + 1) \subseteq schema'
  <2>1. Laid(at[p]) \subseteq schema
    BY <1>2 DEF SchemaInv
  <2>2. CASE Program[at[p]] \in Schema
    BY <1>2, <2>1, <2>2, CreateAt, ProgramSteps, LaidSteps
  <2>3. CASE Program[at[p]] \notin Schema
    BY <1>2, <2>1, <2>3, LaidSteps
  <2> QED
    BY <2>2, <2>3
<1> QED
  BY <1>1, <1>2, <1>3 DEF SchemaInv

LEMMA SchemaStep == TypeInv /\ TypeInv' /\ SchemaInv /\ [Next]_vars => SchemaInv'
<1> SUFFICES ASSUME TypeInv, TypeInv', SchemaInv, [Next]_vars PROVE SchemaInv'
  OBVIOUS
<1> USE Positions
<1>a. at' \in [Processes -> 0 .. 20] /\ \A q \in Processes : at[q] \in 0 .. 20
  BY DEF TypeInv, TypeOK
<1>b. \A i : Laid(i)' = Laid(i)
  BY DEF Laid
<1>1. ASSUME NEW p \in Processes, NEW l \in Languages, Start(p, l) PROVE SchemaInv'
  <2>1. schema' = schema /\ recorded' = recorded /\ at' = [at EXCEPT ![p] = 1]
    BY <1>1 DEF Start, db
  <2> QED
    BY <1>a, <1>b, <2>1, LaidSteps DEF SchemaInv, TypeInv, TypeOK
<1>2. ASSUME NEW p \in Processes, Stop(p) \/ Fail(p) PROVE SchemaInv'
  <2>1. schema' = schema /\ recorded' = recorded /\ \A q \in Processes : at'[q] \in {0, at[q]}
    BY <1>2 DEF Stop, Fail, Leaves, db, TypeInv, TypeOK
  <2> QED
    BY <1>a, <2>1, SchemaKept
<1>4. ASSUME NEW p \in Processes, Create(p) PROVE SchemaInv'
  BY <1>a, <1>4, SchemaMade DEF Create, Arrives, TypeInv, TypeOK
<1>5. ASSUME NEW p \in Processes, NEW q \in Processes, Collide(p, q) PROVE SchemaInv'
  BY <1>a, <1>5, SchemaMade DEF Collide, TypeInv, TypeOK
<1>6. ASSUME NEW p \in Processes, SetTrigger(p) PROVE SchemaInv'
  <2>1. /\ schema' = schema /\ recorded' = recorded
        /\ at[p] \in {6, 7} /\ at' = [at EXCEPT ![p] = at[p] + 1]
    BY <1>6, SetTriggerAt
  <2> QED
    BY <1>a, <2>1, SchemaKept, ProgramSteps DEF TypeInv, TypeOK
<1>7. ASSUME NEW p \in Processes, Record(p) PROVE SchemaInv'
  <2>1. /\ schema' = schema /\ at[p] \in {12, 15} /\ at' = [at EXCEPT ![p] = at[p] + 1]
        /\ recorded' = recorded \cup {IF at[p] = 12 THEN "v001" ELSE "v002"}
    BY <1>7, RecordAt
  <2>2. Laid(at[p] + 1) \subseteq schema
    BY <2>1, ProgramSteps, LaidSteps DEF SchemaInv
  <2>3. /\ "v001" \in recorded' => Laid(13) \subseteq schema
        /\ "v002" \in recorded' => Laid(16) \subseteq schema
    BY <2>1, <2>2 DEF SchemaInv
  <2> QED
    BY <1>a, <1>b, <2>1, <2>2, <2>3 DEF SchemaInv, TypeInv, TypeOK
<1>8. ASSUME NEW p \in Processes, Check(p) PROVE SchemaInv'
  <2>1. schema' = schema /\ recorded' = recorded
    BY <1>8, CheckAt DEF db
  <2>2. PICK i \in 1 .. 20 : /\ at' = [at EXCEPT ![p] = i]
                            /\ \/ at[p] = 2 /\ "v001" \in recorded /\ i = 13
                               \/ at[p] \in {2, 13, 16} /\ i = at[p] + 1
                               \/ at[p] = 13 /\ "v002" \in recorded /\ i = 16
                               \/ at[p] = 16 /\ i = 20
    BY <1>8, CheckAt
  <2>3. Laid(i) \subseteq schema
    BY <2>2, ProgramSteps, LaidSteps DEF SchemaInv
  <2> QED
    BY <1>a, <1>b, <2>1, <2>2, <2>3 DEF SchemaInv, TypeInv, TypeOK
<1>9. ASSUME NEW p \in Processes, Filled(p) \/ RecordLanguage(p) PROVE SchemaInv'
  <2>1. /\ schema' = schema /\ recorded' = recorded
        /\ at[p] \in {18, 19} /\ at' = [at EXCEPT ![p] = at[p] + 1]
    BY <1>9, LanguageAt
  <2> QED
    BY <1>a, <2>1, SchemaKept, ProgramSteps DEF TypeInv, TypeOK
<1>10. ASSUME NEW p \in Processes, OpenStep(p)
       PROVE  SchemaInv'
  <2>1. schema' = schema /\ recorded' = recorded /\ at' = at
    BY <1>10, OpenAt
  <2> QED
    BY <1>b, <2>1 DEF SchemaInv
<1>11. CASE UNCHANGED vars
  BY <1>b, <1>11 DEF SchemaInv, vars, db
<1> QED
  BY <1>1, <1>2, <1>4, <1>5, <1>6, <1>7, <1>8, <1>9, <1>10, <1>11 DEF Next, OpenStep

\* Whoever is connected finds every table, whatever raced, failed and died.
THEOREM SchemaFound == Spec => []ConnectedFindsSchema
<1>1. ASSUME TypeInv, SchemaInv PROVE ConnectedFindsSchema
  <2> SUFFICES ASSUME NEW p \in Processes, at[p] = 20 PROVE schema = Schema
    BY Positions DEF ConnectedFindsSchema
  <2>1. Laid(20) \subseteq schema
    BY <1>1 DEF SchemaInv
  <2> QED
    BY <1>1, <2>1, LaidSteps DEF TypeInv, TypeOK
<1> QED
  BY TypeInit, TypeStep, SchemaStart, SchemaStep, <1>1, PTL DEF Spec

-----------------------------------------------------------------------------
(* Starts that run alone.                                                   *)

LEMMA LoneStart == Init => LoneInv
BY Positions DEF Init, LoneInv, HasChecked, Migrating

\* Nobody starts, and what a process alone has checked stays: the trigger and
\* the records change by steps of the processes in writers only, who migrate.
LEMMA LoneKept ==
  ASSUME TypeInv, TypeInv', LoneInv, NEW p \in Processes, beside' = beside,
         \A q \in Processes : at'[q] # at[q] /\ at'[q] # 0 => at[q] \in 1 .. 19,
         \A q \in Processes \ {p} : at'[q] \in {0, at[q]},
         at[p] \in 1 .. 19 \/ UNCHANGED <<trigger, recorded>>,
         p \notin beside => HasChecked(p)'
  PROVE  LoneInv'
<1> USE Positions
<1>a. \A q \in Processes : at[q] \in 0 .. 20 /\ at'[q] \in 0 .. 20
  BY DEF TypeInv, TypeOK
<1>1. \A q \in Processes : Migrating(q)' => Migrating(q)
  BY <1>a DEF Migrating
<1>2. ASSUME NEW q \in Processes, q \notin beside', q # p PROVE HasChecked(q)'
  <2>1. HasChecked(q)
    BY <1>2 DEF LoneInv
  <2>2. CASE at[p] \in 1 .. 19 /\ at'[q] \in 1 .. 19
    <3>1. Migrating(p) /\ Migrating(q)
      BY <1>2, <2>2 DEF Migrating
    <3> QED
      BY <1>2, <3>1 DEF LoneInv
  <2>3. CASE at[p] \notin 1 .. 19 /\ at'[q] \in 1 .. 19
    <3>1. trigger' = trigger /\ recorded' = recorded /\ at'[q] = at[q]
      BY <1>2, <2>3
    <3> QED
      BY <2>1, <3>1 DEF HasChecked
  <2>4. CASE at'[q] \notin 1 .. 19
    BY <2>4 DEF HasChecked
  <2> QED
    BY <2>2, <2>3, <2>4
<1> QED
  BY <1>1, <1>2 DEF LoneInv

LEMMA LoneStep == TypeInv /\ TypeInv' /\ LoneInv /\ [Next]_vars => LoneInv'
<1> SUFFICES ASSUME TypeInv, TypeInv', LoneInv, [Next]_vars PROVE LoneInv'
  OBVIOUS
<1> USE Positions
<1>a. \A q \in Processes : at[q] \in 0 .. 20 /\ at'[q] \in 0 .. 20
  BY DEF TypeInv, TypeOK
<1>b. /\ at \in [Processes -> 0 .. 20] /\ at' \in [Processes -> 0 .. 20]
      /\ beside \subseteq Processes
  BY DEF TypeInv, TypeOK
<1>1. ASSUME NEW p \in Processes, NEW l \in Languages, Start(p, l) PROVE LoneInv'
  <2>1. /\ at' = [at EXCEPT ![p] = 1] /\ trigger' = trigger /\ recorded' = recorded
        /\ \A q \in Processes \ {p} : Migrating(q) =>
             {p, q} \subseteq beside' /\ beside \subseteq beside'
        /\ (\A q \in Processes \ {p} : ~Migrating(q)) => beside' = beside \ {p}
    BY <1>1 DEF Start, db
  <2>2. \A q \in Processes \ {p} : Migrating(q)' <=> Migrating(q)
    BY <1>b, <2>1 DEF Migrating
  <2>3. \A q \in Processes \ {p} : q \in beside => q \in beside'
    BY <2>1
  <2>4. ASSUME NEW q \in Processes, NEW r \in Processes, q # r,
               Migrating(q)', Migrating(r)'
        PROVE  q \in beside'
    BY <2>1, <2>2, <2>3, <2>4 DEF LoneInv
  <2>5. ASSUME NEW q \in Processes \ {p}, q \notin beside' PROVE q \notin beside
    BY <2>3, <2>5
  <2>6. ASSUME NEW q \in Processes \ {p}, q \notin beside'
        PROVE  HasChecked(q)
    BY <2>5, <2>6 DEF LoneInv
  <2>7. at'[p] = 1 /\ \A q \in Processes \ {p} : at'[q] = at[q]
    BY <1>b, <2>1
  <2>8. \A q \in Processes : q \notin beside' => HasChecked(q)'
    BY <2>1, <2>6, <2>7 DEF HasChecked
  <2> QED
    BY <2>4, <2>8 DEF LoneInv
<1>2. ASSUME NEW p \in Processes, Stop(p) \/ Fail(p) PROVE LoneInv'
  <2>1. /\ at'[p] = 0 /\ \A q \in Processes : at'[q] \in {0, at[q]}
        /\ beside' = beside /\ trigger' = trigger /\ recorded' = recorded
    BY <1>2, <1>b DEF Stop, Fail, Leaves, db, history
  <2>2. HasChecked(p)'
    BY <2>1 DEF HasChecked
  <2> QED
    BY <1>a, <2>1, <2>2, LoneKept
<1>4. ASSUME NEW p \in Processes, Create(p) PROVE LoneInv'
  <2>1. /\ at[p] \in {1, 3, 4, 8, 9, 10, 11, 14, 5, 17}
        /\ trigger' = trigger /\ recorded' = recorded /\ beside' = beside
        /\ at' = [at EXCEPT ![p] = at[p] + 1]
    BY <1>4, CreateAt DEF Create, Arrives
  <2>2. /\ at'[p] = at[p] + 1 /\ \A q \in Processes \ {p} : at'[q] = at[q]
    BY <1>b, <2>1
  <2>3. HasChecked(p) => HasChecked(p)'
    BY <2>1, <2>2 DEF HasChecked
  <2>4. p \notin beside => HasChecked(p)
    BY DEF LoneInv
  <2>5. at[p] \in 1 .. 19
    BY <2>1
  <2> QED
    BY <1>a, <2>1, <2>2, <2>3, <2>4, <2>5, LoneKept
<1>5. ASSUME NEW p \in Processes, NEW q \in Processes, Collide(p, q) PROVE LoneInv'
  <2>1. /\ at[q] \in 1 .. 19 /\ at[p] = at[q] /\ p # q
        /\ trigger' = trigger /\ recorded' = recorded /\ beside' = beside
        /\ at' = [at EXCEPT ![p] = 0, ![q] = at[q] + 1]
    BY <1>5, CreateAt DEF Collide
  <2>2. q \in beside
    BY <2>1 DEF LoneInv, HasChecked, Migrating
  <2>3. /\ at'[q] = at[q] + 1 /\ \A r \in Processes \ {q} : at'[r] \in {0, at[r]}
    BY <1>b, <2>1
  <2>4. \A r \in Processes : at'[r] # at[r] /\ at'[r] # 0 => at[r] \in 1 .. 19
    BY <2>1, <2>3
  <2> QED
    BY <1>a, <2>1, <2>2, <2>3, <2>4, LoneKept
<1>6. ASSUME NEW p \in Processes, SetTrigger(p) PROVE LoneInv'
  <2>1. /\ (at[p] = 6 /\ ~trigger') \/ (at[p] = 7 /\ trigger')
        /\ at' = [at EXCEPT ![p] = at[p] + 1] /\ recorded' = recorded /\ beside' = beside
    BY <1>6, SetTriggerAt
  <2>2. /\ at'[p] = at[p] + 1 /\ \A q \in Processes \ {p} : at'[q] = at[q]
    BY <1>b, <2>1
  <2>3. HasChecked(p) => HasChecked(p)'
    BY <2>1, <2>2 DEF HasChecked
  <2>4. p \notin beside => HasChecked(p)
    BY DEF LoneInv
  <2>5. at[p] \in 1 .. 19
    BY <2>1
  <2> QED
    BY <1>a, <2>1, <2>2, <2>3, <2>4, <2>5, LoneKept
<1>7. ASSUME NEW p \in Processes, Record(p) PROVE LoneInv'
  <2>1. /\ at[p] \in {12, 15} /\ at' = [at EXCEPT ![p] = at[p] + 1]
        /\ trigger' = trigger /\ beside' = beside
    BY <1>7, RecordAt
  <2>2. /\ at'[p] = at[p] + 1 /\ \A q \in Processes \ {p} : at'[q] = at[q]
    BY <1>b, <2>1
  <2>3. HasChecked(p)'
    BY <2>1, <2>2 DEF HasChecked
  <2>4. at[p] \in 1 .. 19
    BY <2>1
  <2> QED
    BY <1>a, <2>1, <2>2, <2>3, <2>4, LoneKept
<1>8. ASSUME NEW p \in Processes, Check(p) PROVE LoneInv'
  <2>1. trigger' = trigger /\ recorded' = recorded /\ beside' = beside
    BY <1>8, CheckAt DEF db
  <2>2. PICK i \in 1 .. 20 : /\ at' = [at EXCEPT ![p] = i]
                            /\ \/ at[p] = 2 /\ i = 13
                               \/ at[p] = 2 /\ "v001" \notin recorded /\ i = 3
                               \/ at[p] = 13 /\ "v002" \notin recorded /\ i = 14
                               \/ at[p] \in {13, 16} /\ i >= 16
    BY <1>8, CheckAt
  <2>3. /\ at'[p] = i /\ \A q \in Processes \ {p} : at'[q] = at[q]
    BY <1>b, <2>2
  <2>4. HasChecked(p)'
    BY <2>1, <2>2, <2>3 DEF HasChecked
  <2>5. at[p] \in 1 .. 19
    BY <2>2
  <2> QED
    BY <1>a, <2>1, <2>3, <2>4, <2>5, LoneKept
<1>9. ASSUME NEW p \in Processes, Filled(p) \/ RecordLanguage(p) PROVE LoneInv'
  <2>1. /\ trigger' = trigger /\ recorded' = recorded /\ beside' = beside
        /\ at[p] \in {18, 19} /\ at' = [at EXCEPT ![p] = at[p] + 1]
    BY <1>9, LanguageAt
  <2>2. /\ at'[p] = at[p] + 1 /\ \A q \in Processes \ {p} : at'[q] = at[q]
    BY <1>b, <2>1
  <2>3. HasChecked(p)'
    BY <2>1, <2>2 DEF HasChecked
  <2>4. at[p] \in 1 .. 19
    BY <2>1
  <2> QED
    BY <1>a, <2>1, <2>2, <2>3, <2>4, LoneKept
<1>10. ASSUME NEW p \in Processes, OpenStep(p)
       PROVE  LoneInv'
  <2>1. trigger' = trigger /\ recorded' = recorded /\ at' = at /\ beside' = beside
    BY <1>10, OpenAt DEF history
  <2> QED
    BY <2>1 DEF LoneInv, HasChecked, Migrating
<1>11. CASE UNCHANGED vars
  BY <1>11 DEF LoneInv, HasChecked, Migrating, vars, db, history
<1> QED
  BY <1>1, <1>2, <1>4, <1>5, <1>6, <1>7, <1>8, <1>9, <1>10, <1>11 DEF Next, OpenStep

\* A start that no other runs beside does not fail, if its language is known
\* and no process that is connected writes while the rows are filled again.
THEOREM LoneStartsSucceed == Spec => []LoneStartSucceeds
<1>1. ASSUME TypeInv, LoneInv PROVE LoneStartSucceeds
  <2> SUFFICES ASSUME NEW p \in Processes, Refused(p), p \notin beside
               PROVE  \/ lang[p] \notin Known
                      \/ /\ Runs(p, "backfill")
                         /\ \E q \in Processes : at[q] = Connected /\ Writes(q)
    BY DEF LoneStartSucceeds
  <2>1. \/ at[p] = 7 /\ trigger
        \/ at[p] = 12 /\ "v001" \in recorded
        \/ at[p] = 15 /\ "v002" \in recorded
        \/ lang[p] \notin Known
        \/ Deadlocked(p)
    BY ProgramSteps, Positions, MigrationAssumption DEF Refused
  <2>2. CASE Deadlocked(p)
    <3>1. filling[p] # None /\ \E n \in NodeIds : ~Free(p, n)
      BY <1>1, <2>2 DEF Deadlocked, TypeInv, TypeOK
    <3>2. PICK n \in NodeIds, q \in Processes \ {p} : writing[q][n] # None
      BY <3>1 DEF Free
    <3>3. at[p] = 18 /\ at[q] \in {18, 20}
      BY <1>1, <3>1, <3>2 DEF TypeInv, OpenWhere
    <3>4. at[q] # 18
      BY <1>1, <3>3, Positions DEF LoneInv, Migrating
    <3>5. Writes(q)
      BY <3>2 DEF Writes, NoRows
    <3> QED
      BY <3>3, <3>4, <3>5, ProgramSteps, Positions
  <2> QED
    BY <1>1, <2>1, <2>2 DEF LoneInv, HasChecked
<1> QED
  BY TypeInit, TypeStep, LoneStart, LoneStep, <1>1, PTL DEF Spec

-----------------------------------------------------------------------------
(* One language.                                                            *)

LEMMA UpdateNeeded == \A l : NeedsUpdate(l) <=> l # OnRecord
BY DEF NeedsUpdate, OnRecord

LEMMA SpeaksStart == Init => SpeaksInv
BY Positions DEF Init, NoRows, SpeaksInv, Alone, Changing, Founded, InLanguage, Migrating

Speaks == Alone /\ Changing /\ Founded /\ InLanguage

\* What Alone says of a process that is at one of its statements.
LEMMA AloneAt ==
  ASSUME TypeInv, Alone, NEW p \in Processes, at[p] \in 1 .. 19
  PROVE  \A q \in Processes \ {p} : at[q] \in {0, 20} /\ (at[q] = 20 => lang[q] = lang[p])
BY Positions DEF TypeInv, TypeOK, Alone, Migrating

\* A process that changes the language has the database for itself.
LEMMA ChangesAlone ==
  ASSUME TypeInv, Speaks, NEW p \in Processes, at[p] \in 17 .. 19
  PROVE  /\ \A q \in Processes \ {p} : at[q] = 0
         /\ "v001" \in recorded /\ lang[p] # OnRecord
<1>1. \A q \in Processes \ {p} : at[q] \in {0, 20} /\ (at[q] = 20 => lang[q] = lang[p])
  BY AloneAt DEF Speaks
<1>2. lang[p] # OnRecord /\ \A q \in Processes : at[q] = 20 => lang[q] = OnRecord
  BY DEF Speaks, Changing
<1>3. \A q \in Processes \ {p} : at[q] = 0
  BY <1>1, <1>2
<1> QED
  BY <1>2, <1>3 DEF Speaks, Founded

LEMMA SpeaksStarting ==
  ASSUME TypeInv, TypeInv', Speaks, NEW p \in Processes, NEW l \in Languages, Start(p, l), ~torn'
  PROVE  Speaks'
<1> USE Positions
<1>1. /\ at[p] = 0 /\ at' = [at EXCEPT ![p] = 1] /\ lang' = [lang EXCEPT ![p] = l]
      /\ UNCHANGED <<schema, trigger, function, recorded, stored, nodes, open, unsettled>>
      /\ \A q \in Processes \ {p} : ~Migrating(q) /\ (at[q] = 20 => lang[q] = l)
      /\ unsettled \in {None, l}
  BY DEF Start, db
<1>2. /\ at'[p] = 1 /\ lang'[p] = l
      /\ \A q \in Processes \ {p} : at'[q] = at[q] /\ at[q] \in {0, 20} /\ lang'[q] = lang[q]
  BY <1>1 DEF TypeInv, TypeOK, Migrating
<1>3. Alone'
  BY <1>1, <1>2 DEF Alone, Migrating, Speaks
<1>4. OnRecord' = OnRecord
  BY <1>1 DEF OnRecord
<1>5. Changing'
  BY <1>1, <1>2, <1>4 DEF Changing, Speaks
<1>6. Founded'
  BY <1>1, <1>2, <1>4 DEF Founded, Speaks
<1>7. InLanguage'
  <2>1. filling[p] = None /\ \A n \in NodeIds : writing[p][n] = None
    BY <1>1 DEF TypeInv, OpenWhere
  <2> QED
    BY <1>1, <1>2, <1>4, <2>1 DEF InLanguage, Speaks, open
<1> QED
  BY <1>3, <1>5, <1>6, <1>7 DEF Speaks

\* A process goes down and leaves its transaction.
LEMMA SpeaksLeaving ==
  ASSUME TypeInv, TypeInv', Speaks, NEW p \in Processes, Leaves(p),
         UNCHANGED <<lang, db, history>>
  PROVE  Speaks'
<1> USE Positions
<1>1. /\ at'[p] = 0 /\ filling'[p] = None /\ \A n \in NodeIds : writing'[p][n] = None
      /\ \A q \in Processes \ {p} : /\ at'[q] = at[q] /\ writing'[q] = writing[q]
                                   /\ filling'[q] = filling[q]
  BY DEF Leaves, NoRows, TypeInv, TypeOK
<1>2. UNCHANGED <<lang, trigger, function, recorded, stored, nodes, unsettled>>
  BY DEF db, history
<1>3. OnRecord' = OnRecord
  BY <1>2 DEF OnRecord
<1>4. Alone'
  BY <1>1, <1>2 DEF Alone, Migrating, Speaks
<1>5. Changing'
  BY <1>1, <1>2, <1>3 DEF Changing, Speaks
<1>6. Founded'
  BY <1>1, <1>2, <1>3 DEF Founded, Speaks
<1>7. InLanguage'
  BY <1>1, <1>2, <1>3 DEF InLanguage, Speaks
<1> QED
  BY <1>4, <1>5, <1>6, <1>7 DEF Speaks

\* Only one process has moved, it migrates or is connected, and all stay in
\* the languages they have.
LEMMA AloneKept ==
  ASSUME TypeInv, TypeInv', Alone, NEW p \in Processes, at[p] \in 1 .. 19, lang' = lang,
         \A q \in Processes \ {p} : at'[q] = at[q], unsettled' \in {None, unsettled, lang[p]}
  PROVE  Alone'
<1> USE Positions
<1>1. \A q \in Processes : at[q] \in 0 .. 20 /\ at'[q] \in 0 .. 20
  BY DEF TypeInv, TypeOK
<1>2. \A q \in Processes \ {p} : ~Migrating(q) /\ ~Migrating(q)'
  BY DEF Alone, Migrating
<1> QED
  BY <1>1, <1>2 DEF Alone

LEMMA SpeaksCreating ==
  ASSUME TypeInv, TypeInv', Speaks, NEW p \in Processes, Create(p)
  PROVE  Speaks'
<1> USE Positions
<1>1. /\ at'[p] = at[p] + 1 /\ \A q \in Processes \ {p} : at'[q] = at[q]
      /\ writing' = writing /\ filling' = filling /\ at[p] \in 1 .. 19
  BY CreateAt DEF Create, Arrives, TypeInv, TypeOK, open
<1>2. UNCHANGED <<lang, trigger, recorded, stored, nodes>>
  BY CreateAt DEF Create
<1>3. OnRecord' = OnRecord
  BY <1>2 DEF OnRecord
<1>4. CASE at[p] \in {1, 3, 4, 8, 9, 10, 11, 14}
  <2>1. function' = function /\ unsettled' = unsettled
    BY <1>4, CreateAt DEF Create
  <2>2. Alone'
    BY <1>1, <1>2, <2>1, AloneKept DEF Speaks
  <2>3. Changing'
    BY <1>1, <1>2, <1>3, <1>4, <2>1 DEF Changing, Speaks
  <2>4. Founded'
    BY <1>1, <1>2, <1>3, <1>4, <2>1 DEF Founded, Speaks
  <2>5. InLanguage'
    BY <1>1, <1>2, <1>3, <1>4, <2>1 DEF InLanguage, Speaks
  <2> QED
    BY <2>2, <2>3, <2>4, <2>5 DEF Speaks
<1>5. CASE at[p] = 5
  <2>1. function' = English /\ unsettled' = unsettled
    BY <1>5, CreateAt DEF Create
  <2>2. Alone'
    BY <1>1, <1>2, <2>1, AloneKept DEF Speaks
  <2>3. Changing'
    BY <1>1, <1>2, <1>3, <1>5, <2>1 DEF Changing, Speaks
  <2>4. "v001" \notin recorded
    BY <1>5 DEF Founded, Speaks
  <2>5. Founded'
    BY <1>1, <1>2, <1>3, <1>5, <2>1, <2>4 DEF Founded, Speaks
  <2>6. InLanguage'
    BY <1>1, <1>2, <1>3, <1>5, <2>1 DEF InLanguage, Speaks
  <2> QED
    BY <2>2, <2>3, <2>5, <2>6 DEF Speaks
<1>6. CASE at[p] = 17
  <2>0. lang[p] # None
    BY KnownLanguages DEF TypeInv, TypeOK
  <2>1. function' = lang[p] /\ unsettled' = lang[p] /\ lang[p] # None
    BY <1>6, <2>0, CreateAt DEF Create
  <2>2. /\ \A q \in Processes \ {p} : at[q] = 0
        /\ "v001" \in recorded /\ lang[p] # OnRecord
    BY <1>6, ChangesAlone
  <2>3. Alone'
    BY <1>1, <1>2, <2>1, AloneKept DEF Speaks
  <2>4. Changing'
    BY <1>1, <1>2, <1>3, <1>6, <2>1, <2>2 DEF Changing
  <2>5. Founded'
    BY <1>1, <1>2, <1>3, <1>6, <2>1, <2>2 DEF Founded, Speaks
  <2>6. unsettled \in {None, lang[p]}
    BY <1>6 DEF Alone, Speaks
  <2>7. InLanguage'
    BY <1>1, <1>2, <1>3, <1>6, <2>1, <2>2, <2>6 DEF InLanguage, Speaks
  <2> QED
    BY <2>3, <2>4, <2>5, <2>7 DEF Speaks
<1> QED
  BY <1>4, <1>5, <1>6, CreateAt DEF Create

LEMMA SpeaksChecking ==
  ASSUME TypeInv, TypeInv', Speaks, NEW p \in Processes, Check(p)
  PROVE  Speaks'
<1> USE Positions
<1>1. PICK i \in 1 .. 20 :
        /\ at' = [at EXCEPT ![p] = i]
        /\ \/ at[p] = 2 /\ "v001" \in recorded /\ i = 13
           \/ at[p] = 2 /\ "v001" \notin recorded /\ i = 3
           \/ at[p] = 13 /\ i \in {14, 16}
           \/ at[p] = 16 /\ lang[p] # OnRecord /\ i = 17
           \/ at[p] = 16 /\ lang[p] = OnRecord /\ i = 20
  BY CheckAt, UpdateNeeded
<1>2. UNCHANGED <<lang, trigger, function, recorded, stored, nodes, writing, filling, unsettled>>
  BY CheckAt DEF db, open
<1>3. OnRecord' = OnRecord
  BY <1>2 DEF OnRecord
<1>4. /\ at'[p] = i /\ at[p] \in {2, 13, 16} /\ \A q \in Processes \ {p} : at'[q] = at[q]
  BY <1>1 DEF TypeInv, TypeOK
<1>5. Alone'
  BY <1>2, <1>4, AloneKept DEF Speaks
<1>6. Changing'
  <2>1. i = 20 => unsettled = None
    BY <1>1, <1>4 DEF Alone, Changing, Speaks
  <2> QED
    BY <1>1, <1>2, <1>3, <1>4, <2>1 DEF Changing, Speaks
<1>7. Founded'
  BY <1>1, <1>2, <1>3, <1>4 DEF Founded, Speaks
<1>8. InLanguage'
  BY <1>1, <1>2, <1>3, <1>4 DEF InLanguage, Speaks
<1> QED
  BY <1>5, <1>6, <1>7, <1>8 DEF Speaks

LEMMA SpeaksTriggering ==
  ASSUME TypeInv, TypeInv', Speaks, NEW p \in Processes, SetTrigger(p)
  PROVE  Speaks'
<1> USE Positions
<1>1. /\ (at[p] = 6 /\ ~trigger') \/ (at[p] = 7 /\ trigger')
      /\ UNCHANGED <<lang, function, recorded, stored, nodes, writing, filling, unsettled>>
  BY SetTriggerAt DEF open
<1>2. /\ at'[p] = at[p] + 1 /\ at[p] \in {6, 7} /\ \A q \in Processes \ {p} : at'[q] = at[q]
  BY SetTriggerAt DEF TypeInv, TypeOK
<1>3. OnRecord' = OnRecord
  BY <1>1 DEF OnRecord
<1>4. Alone'
  BY <1>1, <1>2, AloneKept DEF Speaks
<1>5. Changing'
  BY <1>1, <1>2, <1>3 DEF Changing, Speaks
<1>6. Founded'
  <2>1. \A q \in Processes \ {p} : at'[q] \in {0, 20}
    BY <1>2, AloneAt DEF Speaks
  <2>2. "v001" \notin recorded
    BY <1>2 DEF Founded, Speaks
  <2>3. at'[p] = 8 => trigger'
    BY <1>1, <1>2
  <2> QED
    BY <1>1, <1>2, <2>1, <2>2, <2>3 DEF Founded, Speaks
<1>7. InLanguage'
  BY <1>1, <1>2, <1>3 DEF InLanguage, Speaks
<1> QED
  BY <1>4, <1>5, <1>6, <1>7 DEF Speaks

LEMMA SpeaksRecording ==
  ASSUME TypeInv, TypeInv', Speaks, NEW p \in Processes, Record(p)
  PROVE  Speaks'
<1> USE Positions
<1>1. /\ recorded' = recorded \cup {IF at[p] = 12 THEN "v001" ELSE "v002"}
      /\ UNCHANGED <<lang, trigger, function, stored, nodes, writing, filling, unsettled>>
  BY RecordAt DEF open
<1>2. /\ at'[p] = at[p] + 1 /\ at[p] \in {12, 15} /\ \A q \in Processes \ {p} : at'[q] = at[q]
  BY RecordAt DEF TypeInv, TypeOK
<1>3. OnRecord' = OnRecord
  BY <1>1 DEF OnRecord
<1>4. Alone'
  BY <1>1, <1>2, AloneKept DEF Speaks
<1>5. Changing'
  BY <1>1, <1>2, <1>3 DEF Changing, Speaks
<1>6. \A q \in Processes \ {p} : at[q] \in {0, 20}
  BY <1>2, AloneAt DEF Speaks
<1>7. CASE at[p] = 12
  <2>1. /\ "v001" \notin recorded /\ function = English /\ trigger
        /\ stored = None /\ unsettled = None
    BY <1>7 DEF Founded, Speaks
  <2>2. OnRecord = English
    BY <2>1 DEF OnRecord
  <2> QED
    <3>1. Founded'
      BY <1>1, <1>2, <1>3, <1>6, <1>7, <2>1, <2>2 DEF Founded
    <3>2. InLanguage'
      BY <1>1, <1>2, <1>3, <1>7 DEF InLanguage, Speaks
    <3> QED
      BY <1>4, <1>5, <3>1, <3>2 DEF Speaks
<1>8. CASE at[p] = 15
  <2>1. Founded'
    BY <1>1, <1>2, <1>3, <1>6, <1>8 DEF Founded, Speaks
  <2>2. InLanguage'
    BY <1>1, <1>2, <1>3, <1>8 DEF InLanguage, Speaks
  <2> QED
    BY <1>4, <1>5, <2>1, <2>2 DEF Speaks
<1> QED
  BY <1>2, <1>7, <1>8

LEMMA SpeaksFilling ==
  ASSUME TypeInv, TypeInv', Speaks, NEW p \in Processes, Filled(p)
  PROVE  Speaks'
<1> USE Positions
<1>1. /\ nodes' = Committed(p) /\ filling[p] = {}
      /\ writing' = [writing EXCEPT ![p] = NoRows] /\ filling' = [filling EXCEPT ![p] = None]
      /\ UNCHANGED <<lang, trigger, function, recorded, stored, unsettled>>
  BY LanguageAt DEF Filled, history
<1>2. /\ at'[p] = 19 /\ at[p] = 18 /\ \A q \in Processes \ {p} : at'[q] = at[q]
  BY LanguageAt DEF TypeInv, TypeOK
<1>3. OnRecord' = OnRecord
  BY <1>1 DEF OnRecord
<1>4. /\ \A q \in Processes \ {p} : at[q] = 0
      /\ "v001" \in recorded /\ lang[p] # OnRecord
  BY <1>2, ChangesAlone
<1>5. unsettled = lang[p]
  BY <1>2 DEF Changing, Speaks
<1>6. Alone'
  BY <1>1, <1>2, AloneKept DEF Speaks
<1>7. Changing'
  BY <1>1, <1>2, <1>3, <1>4, <1>5 DEF Changing, Speaks
<1>8. Founded'
  BY <1>1, <1>2, <1>3, <1>4 DEF Founded, Speaks
<1>9. InLanguage'
  <2>1. \A n \in NodeIds : nodes'[n] \in {None, lang[p]}
    <3>1. filling[p] # None /\ \A n \in NodeIds : writing[p][n] \in {None, lang[p]}
      BY LanguageAt DEF InLanguage, Speaks
    <3>2. \A n \in NodeIds : nodes[n] # None => writing[p][n] = lang[p]
      BY <1>1, <3>1 DEF InLanguage, Speaks
    <3>3. \A n \in NodeIds :
            Committed(p)[n] = IF writing[p][n] = None THEN nodes[n] ELSE writing[p][n]
      BY OpenTypes DEF TypeInv
    <3>4. lang[p] # None
      BY KnownLanguages DEF TypeInv, TypeOK
    <3> QED
      BY <1>1, <3>1, <3>2, <3>3, <3>4
  <2>2. /\ filling'[p] = None /\ \A n \in NodeIds : writing'[p][n] = None
        /\ \A q \in Processes \ {p} : writing'[q] = writing[q] /\ filling[q] = None
                                    /\ filling'[q] = None
    BY <1>1, <1>4 DEF NoRows, TypeInv, TypeOK, OpenWhere
  <2> QED
    BY <1>1, <1>2, <1>3, <1>4, <1>5, <2>1, <2>2 DEF InLanguage, Speaks
<1> QED
  BY <1>6, <1>7, <1>8, <1>9 DEF Speaks

LEMMA SpeaksSettling ==
  ASSUME TypeInv, TypeInv', Speaks, NEW p \in Processes, RecordLanguage(p)
  PROVE  Speaks'
<1> USE Positions
<1>1. /\ stored' = lang[p] /\ unsettled' = None
      /\ UNCHANGED <<lang, trigger, function, recorded, nodes, writing, filling>>
  BY LanguageAt DEF RecordLanguage, open
<1>2. /\ at'[p] = 20 /\ at[p] = 19 /\ \A q \in Processes \ {p} : at'[q] = at[q]
  BY LanguageAt DEF TypeInv, TypeOK
<1>3. lang[p] # None /\ OnRecord' = lang[p]
  BY <1>1, KnownLanguages DEF OnRecord, TypeInv, TypeOK
<1>4. /\ \A q \in Processes \ {p} : at[q] = 0
      /\ "v001" \in recorded
  BY <1>2, ChangesAlone
<1>5. unsettled = lang[p]
  BY <1>2 DEF Changing, Speaks
<1>6. Alone'
  BY <1>1, <1>2, AloneKept DEF Speaks
<1>7. Changing'
  BY <1>1, <1>2, <1>3, <1>4 DEF Changing
<1>8. function = lang[p] /\ trigger
  BY <1>3, <1>4, <1>5 DEF Founded, Speaks
<1>9. Founded'
  BY <1>1, <1>2, <1>3, <1>4, <1>8 DEF Founded
<1>10. InLanguage'
  BY <1>1, <1>2, <1>3, <1>4 DEF InLanguage, Speaks
<1> QED
  BY <1>6, <1>7, <1>9, <1>10 DEF Speaks

LEMMA SpeaksOpen ==
  ASSUME TypeInv, TypeInv', Speaks, NEW p \in Processes, OpenStep(p)
  PROVE  Speaks'
<1> USE Positions
<1>1. UNCHANGED <<at, lang, trigger, function, recorded, stored, unsettled>>
  BY OpenAt DEF history
<1>2. OnRecord' = OnRecord
  BY <1>1 DEF OnRecord
<1>3. Alone' /\ Changing'
  BY <1>1, <1>2 DEF Alone, Changing, Migrating, Speaks
<1>a. \A q \in Processes \ {p} : filling'[q] = filling[q] /\ writing'[q] = writing[q]
  BY DEF OpenStep, Backfill, Fill, Write, CommitWrites, RollBack, TypeInv, TypeOK
<1>b. OnRecord # None
  BY KnownLanguages DEF OnRecord
<1>4. ASSUME nodes' = nodes,
             \A n \in NodeIds : writing'[p][n] \in {None, lang[p]},
             filling'[p] # None => \A n \in NodeIds :
                nodes[n] # None => n \in filling'[p] \/ writing'[p][n] = lang[p]
      PROVE  Speaks'
  <2>1. Founded'
    BY <1>1, <1>2, <1>4 DEF Founded, Speaks
  <2>2. InLanguage'
    BY <1>1, <1>2, <1>4, <1>a DEF InLanguage, Speaks
  <2> QED
    BY <1>3, <2>1, <2>2 DEF Speaks
<1>5. ASSUME at[p] = 20
      PROVE  /\ "v001" \in recorded /\ trigger /\ function = lang[p] /\ lang[p] = OnRecord
             /\ \A q \in Processes : at[q] # 19 /\ filling[q] = None
  <2>1. \A q \in Processes : at[q] \notin 17 .. 19
    BY <1>5, ChangesAlone
  <2> QED
    BY <1>5, <2>1 DEF Founded, Changing, Speaks, TypeInv, OpenWhere
<1>6. ASSUME Backfill(p) PROVE Speaks'
  <2>1. /\ nodes' = nodes /\ writing' = writing
        /\ filling'[p] = {n \in NodeIds : nodes[n] # None}
    BY <1>6 DEF Backfill, db, TypeInv, TypeOK
  <2> QED
    BY <1>4, <2>1 DEF InLanguage, Speaks
<1>7. ASSUME NEW n \in NodeIds, Fill(p, n) PROVE Speaks'
  <2>1. /\ nodes' = nodes /\ filling[p] # None
        /\ writing' = [writing EXCEPT ![p][n] = lang[p]]
        /\ filling'[p] = filling[p] \ {n}
    BY <1>7 DEF Fill, db, TypeInv, TypeOK
  <2>2. /\ writing'[p][n] = lang[p]
        /\ \A m \in NodeIds \ {n} : writing'[p][m] = writing[p][m]
    BY <2>1 DEF TypeInv, TypeOK
  <2> QED
    BY <1>4, <2>1, <2>2 DEF InLanguage, Speaks
<1>8. ASSUME NEW n \in NodeIds, Write(p, n) PROVE Speaks'
  <2>1. /\ nodes' = nodes /\ filling' = filling /\ at[p] = 20
        /\ writing' = [writing EXCEPT ![p][n] = IF trigger THEN function ELSE writing'[p][n]]
    BY <1>8 DEF Write, db, TypeInv, TypeOK
  <2>2. writing' = [writing EXCEPT ![p][n] = lang[p]]
    BY <1>5, <2>1
  <2>3. /\ writing'[p][n] = lang[p]
        /\ \A m \in NodeIds \ {n} : writing'[p][m] = writing[p][m]
    BY <2>2 DEF TypeInv, TypeOK
  <2> QED
    BY <1>4, <1>5, <2>1, <2>3 DEF InLanguage, Speaks
<1>9. ASSUME CommitWrites(p) \/ RollBack(p) PROVE Speaks'
  <2>1. /\ filling' = filling /\ at[p] = 20
        /\ \A n \in NodeIds : writing'[p][n] = None
    BY <1>9 DEF CommitWrites, RollBack, NoRows, TypeInv, TypeOK
  <2>2. \A n \in NodeIds : nodes'[n] \in {nodes[n], lang[p]}
    <3>1. \A n \in NodeIds : writing[p][n] \in {None, lang[p]}
      BY DEF InLanguage, Speaks
    <3> QED
      BY <1>9, <3>1, OpenTypes DEF CommitWrites, RollBack, TypeInv, db
  <2>3. Founded'
    BY <1>1, <1>2, <1>5, <2>1 DEF Founded, Speaks
  <2>4. InLanguage'
    BY <1>1, <1>2, <1>5, <1>a, <2>1, <2>2 DEF InLanguage, Speaks
  <2> QED
    BY <1>3, <2>3, <2>4 DEF Speaks
<1> QED
  BY <1>6, <1>7, <1>8, <1>9 DEF OpenStep

LEMMA SpeaksStep == TypeInv /\ TypeInv' /\ SpeaksInv /\ [Next]_vars => SpeaksInv'
<1> SUFFICES ASSUME TypeInv, TypeInv', SpeaksInv, [Next]_vars, ~torn' PROVE Speaks'
  BY DEF SpeaksInv, Speaks
<1>1. ~torn
  <2>1. ASSUME NEW p \in Processes, NEW l \in Languages, Start(p, l) PROVE ~torn
    BY <2>1 DEF Start
  <2>2. ASSUME NEW p \in Processes, Stop(p) \/ Fail(p) PROVE ~torn
    BY <2>2 DEF Stop, Fail, history
  <2>3. ASSUME NEW p \in Processes, Create(p) \/ \E q \in Processes : Collide(p, q) PROVE ~torn
    BY <2>3 DEF Create, Collide, Creates
  <2>4. ASSUME NEW p \in Processes, SetTrigger(p) \/ Record(p) \/ Check(p) PROVE ~torn
    BY <2>4 DEF SetTrigger, Record, Check
  <2>5. ASSUME NEW p \in Processes, Filled(p) \/ RecordLanguage(p) PROVE ~torn
    BY <2>5 DEF Filled, RecordLanguage, history
  <2>6. ASSUME NEW p \in Processes, OpenStep(p) PROVE ~torn
    BY <2>6, OpenAt DEF history
  <2>7. CASE UNCHANGED vars
    BY <2>7 DEF vars, history
  <2> QED
    BY <2>1, <2>2, <2>3, <2>4, <2>5, <2>6, <2>7 DEF Next, OpenStep
<1>2. Speaks
  BY <1>1 DEF SpeaksInv, Speaks
<1>3. ASSUME NEW p \in Processes, NEW q \in Processes, Collide(p, q) PROVE FALSE
  <2>1. p # q /\ at[p] = at[q] /\ at[q] \in 1 .. 19
    BY <1>3, CreateAt DEF Collide
  <2> QED
    BY <1>2, <2>1, AloneAt DEF Speaks
<1>4. ASSUME NEW p \in Processes, Stop(p) \/ Fail(p) PROVE Speaks'
  BY <1>2, <1>4, SpeaksLeaving DEF Stop, Fail
<1>5. CASE UNCHANGED vars
  BY <1>2, <1>5 DEF Speaks, Alone, Changing, Founded, InLanguage, OnRecord, Migrating,
                    vars, db, open, history
<1> QED
  BY <1>2, <1>3, <1>4, <1>5, SpeaksStarting, SpeaksCreating, SpeaksTriggering, SpeaksRecording,
     SpeaksChecking, SpeaksFilling, SpeaksSettling, SpeaksOpen DEF Next, OpenStep

\* Outside the gaps, the rows and the trigger speak the language of whoever
\* is connected.
THEOREM OneLanguage == Spec => []SearchSpeaksOneLanguage
<1>1. ASSUME TypeInv, SpeaksInv PROVE SearchSpeaksOneLanguage
  <2> SUFFICES ASSUME NEW p \in Processes, ~torn, at[p] = 20
               PROVE  /\ trigger /\ function = lang[p]
                      /\ \A n \in NodeIds : nodes[n] \in {None, lang[p]}
                      /\ \A q \in Processes, n \in NodeIds : writing[q][n] \in {None, lang[p]}
    BY Positions DEF SearchSpeaksOneLanguage
  <2>1. Changing /\ Founded /\ InLanguage
    BY <1>1 DEF SpeaksInv
  <2>2. lang[p] = OnRecord /\ unsettled = None /\ "v001" \in recorded
    BY <2>1 DEF Changing, Founded
  <2>3. ASSUME NEW q \in Processes, NEW n \in NodeIds, writing[q][n] # None
        PROVE  writing[q][n] = lang[p]
    <3>1. writing[q][n] = lang[q]
      BY <2>1, <2>3 DEF InLanguage
    <3>2. at[q] = 20 \/ at[q] = 18
      BY <1>1, <2>3 DEF TypeInv, OpenWhere
    <3>3. at[q] = 18 => lang[q] # OnRecord /\ unsettled = lang[q]
      BY <2>1 DEF Changing
    <3>4. at[q] = 20 => lang[q] = OnRecord
      BY <2>1 DEF Changing
    <3>5. lang[q] # None
      BY <1>1, KnownLanguages DEF TypeInv, TypeOK
    <3> QED
      BY <2>2, <3>1, <3>2, <3>3, <3>4, <3>5
  <2> QED
    BY <2>1, <2>2, <2>3 DEF Founded, InLanguage
<1> QED
  BY TypeInit, TypeStep, SpeaksStart, SpeaksStep, <1>1, PTL DEF Spec
=============================================================================
