---------------------------- MODULE SessionState ----------------------------
(***************************************************************************)
(* The session state of smrti: a table of values with deadlines, changed   *)
(* by single autocommit statements.  Rows whose deadline has passed stay   *)
(* in the table; the statements that read it skip them.                    *)
(*                                                                         *)
(* The statements on one row (state_set, state_delete) take effect at an   *)
(* instant.  A DELETE of many rows (state_clear, state_prune_expired and   *)
(* the one in purge_namespace) does not: it finds the rows when it starts, *)
(* at the time NOW() then says, and deletes them when it ends, those that  *)
(* are still there and, in their latest version, still match.              *)
(***************************************************************************)
EXTENDS Integers

CONSTANTS
  Clients, Namespaces, Sessions, StateKeys, Values,
  Ttls, NoTtl, NoRow,
  DefaultTtl,  \* SmrtiConfig.session_state_default_ttl
  MaxTime,     \* bound: the clock
  MaxCalls     \* bound: calls in one behaviour

VARIABLES
  now,    \* NOW(), in seconds
  table,  \* the rows of session_state
  scan,   \* per client: its DELETE of many rows, if one is under way
  calls   \* the number of calls made so far

vars == <<now, table, scan, calls>>

Entries == Namespaces \X Sessions \X StateKeys

Row == [value: Values, expires: Int \cup {NoTtl}]

\* expired says whether only expired rows are deleted, start is the NOW() of
\* the statement and found what its scan has returned and nobody has deleted.
Scan == [expired: BOOLEAN, start: Int, found: SUBSET Entries]
NoScan == [expired |-> FALSE, start |-> -1, found |-> {}]

ASSUME SessionStateAssumption ==
  /\ Ttls \subseteq Int
  /\ NoTtl \notin Int
  /\ NoRow \notin Row
  /\ DefaultTtl \in Ttls \cup {NoTtl}
  /\ MaxTime \in Nat /\ MaxCalls \in Nat

Init == /\ now = 0
        /\ table = [e \in Entries |-> NoRow]
        /\ scan = [c \in Clients |-> NoScan]
        /\ calls = 0

Expired(row, t) == row.expires # NoTtl /\ row.expires <= t

\* The rows that state_get and state_list return.
Visible == [e \in Entries |-> IF table[e] # NoRow /\ Expired(table[e], now)
                              THEN NoRow ELSE table[e]]

-----------------------------------------------------------------------------

Call(c) == scan[c] = NoScan /\ calls < MaxCalls /\ calls' = calls + 1

\* expires_at of the row that state_set writes, whatever was there.
ExpiresAt(ttl) == IF ttl = NoTtl THEN NoTtl ELSE now + ttl

\* INSERT ... ON CONFLICT DO UPDATE of value and expires_at.
StateSet(c) ==
  /\ Call(c)
  /\ \E e \in Entries, value \in Values, ttl_seconds \in Ttls \cup {NoTtl} :
       LET ttl == IF ttl_seconds = NoTtl THEN DefaultTtl ELSE ttl_seconds
       IN table' = [table EXCEPT ![e] = [value |-> value, expires |-> ExpiresAt(ttl)]]
  /\ UNCHANGED <<now, scan>>

\* Mutant: a scan that is under way does not notice that a row is gone.
ForgetNothing(c, gone) ==
  /\ table' = [e \in Entries |-> IF e \in gone THEN NoRow ELSE table[e]]
  /\ scan' = [scan EXCEPT ![c] = NoScan]

\* The rows of gone leave the table, and every scan that had found them.
Forget(c, gone) ==
  /\ table' = [e \in Entries |-> IF e \in gone THEN NoRow ELSE table[e]]
  /\ scan' = [d \in Clients |-> IF d = c THEN NoScan
                                ELSE [scan[d] EXCEPT !.found = @ \ gone]]

\* The row is deleted and counted whether or not it has expired.
StateDelete(c) ==
  /\ Call(c)
  /\ \E e \in Entries : Forget(c, {e})
  /\ UNCHANGED now

\* A DELETE of many rows starts.
Start(c, expired, scope) ==
  /\ Call(c)
  /\ scan' = [scan EXCEPT ![c] =
       [expired |-> expired, start |-> now,
        found |-> {e \in scope : table[e] # NoRow /\ (expired => Expired(table[e], now))}]]
  /\ UNCHANGED <<now, table>>

EntriesOf(ns) == {e \in Entries : e[1] = ns}

StateClear(c) == \E ns \in Namespaces, session \in Sessions :
                   Start(c, FALSE, {e \in EntriesOf(ns) : e[2] = session})

PurgeState(c) == \E ns \in Namespaces : Start(c, FALSE, EntriesOf(ns))

StatePruneExpired(c) == \/ Start(c, TRUE, Entries)
                        \/ \E ns \in Namespaces : Start(c, TRUE, EntriesOf(ns))

\* Mutant: rows are deleted as they were found.
FinishUnchecked(c) ==
  /\ scan[c] # NoScan
  /\ Forget(c, scan[c].found)
  /\ UNCHANGED <<now, calls>>

\* The DELETE ends; a row updated since it was found is looked at again.
Finish(c) ==
  /\ scan[c] # NoScan
  /\ Forget(c, {e \in scan[c].found : scan[c].expired => Expired(table[e], scan[c].start)})
  /\ UNCHANGED <<now, calls>>

\* The caller or its connection dies before the DELETE ends.
Crash(c) == /\ scan[c] # NoScan
            /\ scan' = [scan EXCEPT ![c] = NoScan]
            /\ UNCHANGED <<now, table, calls>>

Tick == now < MaxTime /\ now' = now + 1 /\ UNCHANGED <<table, scan, calls>>

Next == \/ Tick
        \/ \E c \in Clients : \/ StateSet(c) \/ StateDelete(c) \/ StateClear(c)
                              \/ PurgeState(c) \/ StatePruneExpired(c)
                              \/ Finish(c) \/ Crash(c)

Spec == Init /\ [][Next]_vars

-----------------------------------------------------------------------------
(* Properties.                                                              *)

\* Every variable holds what it can hold; a scan holds rows of the table.
TypeOK ==
  /\ now \in Int
  /\ table \in [Entries -> Row \cup {NoRow}]
  /\ scan \in [Clients -> Scan]
  /\ \A c \in Clients : \A e \in scan[c].found : table[e] # NoRow
  /\ calls \in Nat

\* Readers see a table from which values disappear only when they are deleted,
\* cleared or purged, or when the deadline of the last state_set has come: in
\* particular no pruning, however late it gets to its rows, takes away a value
\* that has been set again meanwhile; and clears miss nothing that was there.
Clearing == [c \in Clients |-> IF scan[c].expired THEN {} ELSE scan[c].found]

Store == INSTANCE SessionStore WITH visible <- Visible, clearing <- Clearing

ImplementsStore == Store!Spec
=============================================================================
