---------------------------- MODULE SerialStore -----------------------------
(***************************************************************************)
(* What the write path promises its callers: each call takes effect at one *)
(* instant, alone.  At that instant the events of its batch enter the log, *)
(* under ascending ids nobody used before, and their statements change the *)
(* graph one after the other as if no other call were under way; or the    *)
(* call has no effect at all (docs/decisions.md D29).                      *)
(***************************************************************************)
EXTENDS GraphModel, SequencesExt

CONSTANT Clients

VARIABLES log, db,
          pending  \* per client: the batch of its call, empty without a call

serialVars == <<log, db, pending>>

Init == log = {} /\ db = EmptyDb /\ pending = [c \in Clients |-> << >>]

\* A client calls with some batch.
Submit(c) ==
  /\ pending[c] = << >>
  /\ pending'[c] \in Seq(Event) \ {<< >>}
  /\ pending' = [pending EXCEPT ![c] = pending'[c]]
  /\ UNCHANGED <<log, db>>

\* The statements a batch runs at the instant now, and the database they leave.
BatchStatements(batch, now) ==
  FlattenSeq([i \in DOMAIN batch |-> Statements(At(batch[i], now))])

Run(d, statements) == FoldLeft(Effect, d, statements)

\* No statement of the batch is refused where it runs.
Accepted(d, statements) ==
  \A i \in DOMAIN statements :
    ~Rejected(Run(d, SubSeq(statements, 1, i - 1)), statements[i])

\* The call takes effect.
Exec(c) ==
  LET batch == pending[c]
      ids(rows) == {r.id : r \in rows}
  IN /\ batch # << >>
     /\ \E now \in Times :
          LET statements == BatchStatements(batch, now)
          IN Accepted(db, statements) /\ db' = Run(db, statements)
     /\ \E id \in [DOMAIN batch -> ids(log') \ ids(log)] :
          /\ \A i, j \in DOMAIN batch : i < j => id[i] < id[j]
          /\ log' = log \cup {[id |-> id[i], event |-> batch[i]] : i \in DOMAIN batch}
     /\ pending' = [pending EXCEPT ![c] = << >>]

\* The call ends without effect: refused, aborted or cut off.
Drop(c) == /\ pending[c] # << >>
           /\ pending' = [pending EXCEPT ![c] = << >>]
           /\ UNCHANGED <<log, db>>

Next == \E c \in Clients : Submit(c) \/ Exec(c) \/ Drop(c)

Spec == Init /\ [][Next]_serialVars
=============================================================================
