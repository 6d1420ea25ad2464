---------------------------- MODULE SessionStore ----------------------------
(***************************************************************************)
(* What session state promises: a table of values, each of them there until*)
(* it is deleted, cleared or purged, or until its time has come.           *)
(*                                                                         *)
(* A clear (or the purge of a namespace) takes time.  It removes all values*)
(* that were visible when it began and that nobody removed meanwhile; those*)
(* set again meanwhile are removed too, and of those set anew in its scope *)
(* it may remove some.  Pruning removes nothing that can be seen.          *)
(***************************************************************************)
EXTENDS Integers

CONSTANTS
  Clients, Namespaces, Sessions, StateKeys, Values,
  Ttls,   \* the values of ttl_seconds, some integers
  NoTtl,  \* no ttl_seconds, or no deadline
  NoRow

VARIABLES
  now,
  visible,   \* per entry: its value and deadline, NoRow if it has none
  clearing,  \* per client: the entries its clear is going to remove
  calls      \* the number of calls made

storeVars == <<now, visible, clearing, calls>>

Entries == Namespaces \X Sessions \X StateKeys

\* One session, or one namespace.
Scopes == {{e \in Entries : e[1] = ns /\ e[2] = session} :
             ns \in Namespaces, session \in Sessions}
          \cup {{e \in Entries : e[1] = ns} : ns \in Namespaces}

\* What can be seen of a row at time t.
Seen(row, t) == IF row # NoRow /\ row.expires # NoTtl /\ row.expires <= t
                THEN NoRow ELSE row

Init == /\ now = 0
        /\ visible = [e \in Entries |-> NoRow]
        /\ clearing = [c \in Clients |-> {}]
        /\ calls = 0

Set == /\ \E e \in Entries, value \in Values, ttl \in Ttls \cup {NoTtl} :
            LET expires == IF ttl = NoTtl THEN NoTtl ELSE now + ttl
                row == [value |-> value, expires |-> expires]
            IN visible' = [visible EXCEPT ![e] = Seen(row, now)]
       /\ calls' = calls + 1
       /\ UNCHANGED <<now, clearing>>

\* The entries in gone are removed; no clear has to remove them any more.
Remove(gone) ==
  /\ visible' = [e \in Entries |-> IF e \in gone THEN NoRow ELSE visible[e]]
  /\ now' = now

Delete == /\ \E e \in Entries :
               Remove({e}) /\ clearing' = [c \in Clients |-> clearing[c] \ {e}]
          /\ calls' = calls + 1

StartClear(c) ==
  /\ \E scope \in Scopes : \E set \in SUBSET scope :
       /\ {e \in scope : visible[e] # NoRow} \subseteq set
       /\ clearing' = [clearing EXCEPT ![c] = set]
  /\ calls' = calls + 1
  /\ UNCHANGED <<now, visible>>

EndClear(c) ==
  /\ Remove(clearing[c])
  /\ clearing' = [d \in Clients |-> IF d = c THEN {} ELSE clearing[d] \ clearing[c]]
  /\ calls' = calls

\* A clear is cut off before it has removed anything.
CutOff(c) == clearing' = [clearing EXCEPT ![c] = {}] /\ UNCHANGED <<now, visible, calls>>

StartPrune == calls' = calls + 1 /\ UNCHANGED <<now, visible, clearing>>

\* Pruning removes rows, but none that can be seen.
EndPrune ==
  /\ \E gone \in SUBSET {e \in Entries : visible[e] = NoRow} :
       clearing' = [c \in Clients |-> clearing[c] \ gone]
  /\ UNCHANGED <<now, visible, calls>>

Tick == /\ now' = now + 1
        /\ visible' = [e \in Entries |-> Seen(visible[e], now + 1)]
        /\ UNCHANGED <<clearing, calls>>

Next == \/ Set \/ Delete \/ StartPrune \/ EndPrune \/ Tick
        \/ \E c \in Clients : StartClear(c) \/ EndClear(c) \/ CutOff(c)

Spec == Init /\ [][Next]_storeVars
=============================================================================
