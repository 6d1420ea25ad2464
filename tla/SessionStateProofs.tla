------------------------- MODULE SessionStateProofs -------------------------
(***************************************************************************)
(* SessionState implements SessionStore: what readers see of the table, for*)
(* any number of tasks, entries and deadlines, is what they are promised.  *)
(***************************************************************************)
EXTENDS SessionState, TLAPS

\* A statement started in the past, and not before there was time.
StartedBefore == now \in Nat /\ \A c \in Clients : scan[c].start <= now

Inv == TypeOK /\ StartedBefore

-----------------------------------------------------------------------------
(* The effect of the operations on what readers see.                        *)

LEMMA VisibleAt ==
  ASSUME TypeOK, NEW e \in Entries
  PROVE  /\ Visible[e] = Store!Seen(table[e], now)
         /\ Visible[e] # NoRow => table[e] # NoRow
BY DEF Visible, Store!Seen, Expired

LEMMA ForgetEffect ==
  ASSUME TypeOK, NEW c \in Clients, NEW gone \in SUBSET Entries, Forget(c, gone), now' = now
  PROVE  /\ Visible' = [e \in Entries |-> IF e \in gone THEN NoRow ELSE Visible[e]]
         /\ table' \in [Entries -> Row \cup {NoRow}]
         /\ scan' \in [Clients -> Scan]
         /\ \A d \in Clients : \A e \in scan'[d].found : table'[e] # NoRow
         /\ scan'[c] = NoScan
         /\ \A d \in Clients \ {c} : /\ scan'[d].start = scan[d].start
                                     /\ scan'[d].expired = scan[d].expired
                                     /\ scan'[d].found = scan[d].found \ gone
<1>1. /\ table' = [e \in Entries |-> IF e \in gone THEN NoRow ELSE table[e]]
      /\ scan'[c] = NoScan
      /\ \A d \in Clients \ {c} : scan'[d] = [scan[d] EXCEPT !.found = @ \ gone]
  BY DEF Forget
<1>2. \A d \in Clients \ {c} : /\ scan'[d] \in Scan
                               /\ scan'[d].start = scan[d].start
                               /\ scan'[d].expired = scan[d].expired
                               /\ scan'[d].found = scan[d].found \ gone
  <2> SUFFICES ASSUME NEW d \in Clients \ {c}
               PROVE  /\ scan'[d] \in Scan
                      /\ scan'[d].start = scan[d].start
                      /\ scan'[d].expired = scan[d].expired
                      /\ scan'[d].found = scan[d].found \ gone
    OBVIOUS
  <2>1. scan[d] \in Scan /\ scan[d].found \subseteq Entries
    BY DEF TypeOK, Scan
  <2>2. scan'[d] = [scan[d] EXCEPT !.found = scan[d].found \ gone]
    BY <1>1
  <2> QED
    BY <2>1, <2>2 DEF Scan
<1>3. NoScan \in Scan /\ NoScan.found = {}
  BY DEF NoScan, Scan
<1>4. scan' \in [Clients -> Scan]
  <2>1. DOMAIN scan' = Clients /\ scan' = [d \in Clients |-> scan'[d]]
    BY DEF Forget
  <2> QED
    BY <1>1, <1>2, <1>3, <2>1
<1>5. Visible' = [e \in Entries |-> IF e \in gone THEN NoRow ELSE Visible[e]]
  BY <1>1 DEF Visible, Expired
<1>6. table' \in [Entries -> Row \cup {NoRow}]
  BY <1>1 DEF TypeOK
<1>7. \A d \in Clients : \A e \in scan'[d].found : table'[e] # NoRow
  <2>1. SUFFICES ASSUME NEW d \in Clients, NEW e \in scan'[d].found PROVE table'[e] # NoRow
    OBVIOUS
  <2>2. d # c /\ e \in scan[d].found /\ e \notin gone
    BY <1>1, <1>2, <1>3, <2>1
  <2>3. e \in Entries /\ table[e] # NoRow
    BY <2>2 DEF TypeOK, Scan
  <2> QED
    BY <1>1, <2>2, <2>3
<1> QED
  BY <1>1, <1>2, <1>4, <1>5, <1>6, <1>7

LEMMA StartEffect ==
  ASSUME TypeOK, NEW c \in Clients, NEW expired \in BOOLEAN, NEW scope \in SUBSET Entries,
         Start(c, expired, scope)
  PROVE  /\ scan' \in [Clients -> Scan]
         /\ scan'[c].expired = expired /\ scan'[c].start = now
         /\ scan'[c].found = {e \in scope : table[e] # NoRow /\ (expired => Expired(table[e], now))}
         /\ \A d \in Clients \ {c} : scan'[d] = scan[d]
         /\ UNCHANGED <<now, table>> /\ calls' = calls + 1
         /\ scan[c] = NoScan
<1> DEFINE s == [expired |-> expired, start |-> now,
                 found |-> {e \in scope : table[e] # NoRow /\ (expired => Expired(table[e], now))}]
<1>1. s \in Scan
  BY DEF Scan, TypeOK
<1>2. scan' = [scan EXCEPT ![c] = s]
  BY DEF Start
<1>3. s.expired = expired /\ s.start = now
      /\ s.found = {e \in scope : table[e] # NoRow /\ (expired => Expired(table[e], now))}
  OBVIOUS
<1> HIDE DEF s
<1> QED
  BY <1>1, <1>2, <1>3 DEF TypeOK, Start, Call
-----------------------------------------------------------------------------
(* The invariant.                                                           *)

LEMMA RowType ==
  ASSUME TypeOK, NEW value \in Values, NEW ttl_seconds \in Ttls \cup {NoTtl}
  PROVE  LET ttl == IF ttl_seconds = NoTtl THEN DefaultTtl ELSE ttl_seconds
         IN /\ ttl \in Ttls \cup {NoTtl}
            /\ [value |-> value, expires |-> ExpiresAt(ttl)] \in Row
<1> DEFINE ttl == IF ttl_seconds = NoTtl THEN DefaultTtl ELSE ttl_seconds
<1>1. ttl \in Ttls \cup {NoTtl}
  BY SessionStateAssumption
<1>2. ttl = NoTtl \/ ttl \in Int
  BY <1>1, SessionStateAssumption
<1> HIDE DEF ttl
<1>3. now \in Int
  BY DEF TypeOK
<1>4. ExpiresAt(ttl) \in Int \cup {NoTtl}
  BY <1>2, <1>3 DEF ExpiresAt
<1>5. [value |-> value, expires |-> ExpiresAt(ttl)] \in Row
  BY <1>4 DEF Row
<1> QED
  BY <1>1, <1>5 DEF ttl

LEMMA InvStep == Inv /\ [Next]_vars => Inv'
<1> SUFFICES ASSUME TypeOK, StartedBefore, [Next]_vars PROVE TypeOK' /\ StartedBefore'
  BY DEF Inv
<1> USE SessionStateAssumption
<1>1. ASSUME NEW c \in Clients, StateSet(c) PROVE TypeOK' /\ StartedBefore'
  <2>1. PICK e \in Entries, row \in Row : table' = [table EXCEPT ![e] = row]
    BY <1>1, RowType DEF StateSet
  <2> QED
    BY <1>1, <2>1 DEF StateSet, Call, TypeOK, StartedBefore
<1>2. ASSUME NEW c \in Clients, NEW gone \in SUBSET Entries, Forget(c, gone), now' = now,
             calls' \in Nat
      PROVE  TypeOK' /\ StartedBefore'
  <2>1. \A d \in Clients : scan'[d].start <= now'
    BY <1>2, ForgetEffect DEF StartedBefore, NoScan
  <2> QED
    BY <1>2, <2>1, ForgetEffect DEF TypeOK, StartedBefore
<1>3. ASSUME NEW c \in Clients, StateDelete(c) PROVE TypeOK' /\ StartedBefore'
  <2>1. PICK e \in Entries : Forget(c, {e})
    BY <1>3 DEF StateDelete
  <2> QED
    BY <1>2, <1>3, <2>1 DEF StateDelete, Call, TypeOK
<1>4. ASSUME NEW c \in Clients, Finish(c) PROVE TypeOK' /\ StartedBefore'
  <2>1. {e \in scan[c].found : scan[c].expired => Expired(table[e], scan[c].start)}
          \in SUBSET Entries
    BY DEF TypeOK, Scan
  <2> QED
    BY <1>2, <1>4, <2>1 DEF Finish, TypeOK
<1>5. ASSUME NEW c \in Clients, NEW expired \in BOOLEAN, NEW scope \in SUBSET Entries,
             Start(c, expired, scope)
      PROVE  TypeOK' /\ StartedBefore'
  <2>1. \A d \in Clients : \A e \in scan'[d].found : table'[e] # NoRow
    BY <1>5, StartEffect DEF TypeOK
  <2>2. now' \in Nat /\ \A d \in Clients : scan'[d].start <= now'
    BY <1>5, StartEffect DEF StartedBefore
  <2>3. calls' \in Nat /\ now' \in Int /\ table' \in [Entries -> Row \cup {NoRow}]
    BY <1>5, StartEffect DEF TypeOK
  <2> QED
    BY <1>5, <2>1, <2>2, <2>3, StartEffect DEF TypeOK, StartedBefore
<1>6. ASSUME NEW c \in Clients, StateClear(c) \/ PurgeState(c) \/ StatePruneExpired(c)
      PROVE  TypeOK' /\ StartedBefore'
  <2>1. PICK expired \in BOOLEAN, scope \in SUBSET Entries : Start(c, expired, scope)
    BY <1>6 DEF StateClear, PurgeState, StatePruneExpired, EntriesOf
  <2> QED
    BY <1>5, <2>1
<1>7. ASSUME NEW c \in Clients, Crash(c) PROVE TypeOK' /\ StartedBefore'
  BY <1>7 DEF Crash, NoScan, Scan, TypeOK, StartedBefore
<1>8. CASE Tick
  BY <1>8 DEF Tick, TypeOK, StartedBefore, Scan
<1>9. CASE UNCHANGED vars
  BY <1>9 DEF vars, TypeOK, StartedBefore
<1> QED
  BY <1>1, <1>3, <1>4, <1>6, <1>7, <1>8, <1>9 DEF Next

LEMMA InvInit == Init => Inv
BY DEF Init, Inv, TypeOK, StartedBefore, NoScan, Scan

\* Every variable stays in its type, and a scan never holds a row that is gone.
THEOREM StateTypes == Spec => []TypeOK
<1>1. Inv => TypeOK
  BY DEF Inv
<1> QED
  BY <1>1, InvInit, InvStep, PTL DEF Spec

-----------------------------------------------------------------------------
(* The refinement.                                                          *)

LEMMA SetImplements ==
  ASSUME Inv, NEW c \in Clients, StateSet(c)
  PROVE  Store!Set
<1> USE SessionStateAssumption
<1>1. PICK e \in Entries, value \in Values, ttl_seconds \in Ttls \cup {NoTtl} :
        table' = [table EXCEPT ![e] =
          [value |-> value,
           expires |-> ExpiresAt(IF ttl_seconds = NoTtl THEN DefaultTtl ELSE ttl_seconds)]]
  BY DEF StateSet
<1>2. PICK ttl \in Ttls \cup {NoTtl} :
        table' = [table EXCEPT ![e] = [value |-> value, expires |-> ExpiresAt(ttl)]]
  BY <1>1
<1> DEFINE row == [value |-> value, expires |-> ExpiresAt(ttl)]
<1>3. row \in Row /\ row # NoRow
  BY DEF Inv, TypeOK, Row, ExpiresAt
<1>4. table'[e] = row /\ \A x \in Entries \ {e} : table'[x] = table[x]
  BY <1>2 DEF Inv, TypeOK
<1>5. now' = now /\ scan' = scan /\ calls' = calls + 1
  BY DEF StateSet, Call
<1>6. Visible' = [Visible EXCEPT ![e] = Store!Seen(row, now)]
  <2> HIDE DEF row
  <2> QED
    BY <1>3, <1>4, <1>5 DEF Visible, Store!Seen, Expired
<1>7. Clearing' = Clearing
  BY <1>5 DEF Clearing
<1> QED
  BY <1>5, <1>6, <1>7 DEF Store!Set, Store!Entries, Entries, ExpiresAt, Clearing

LEMMA DeleteImplements ==
  ASSUME Inv, NEW c \in Clients, StateDelete(c)
  PROVE  Store!Delete
<1>1. PICK e \in Entries : Forget(c, {e})
  BY DEF StateDelete
<1>2. now' = now /\ calls' = calls + 1 /\ scan[c] = NoScan
  BY DEF StateDelete, Call
<1>3. Visible' = [x \in Entries |-> IF x \in {e} THEN NoRow ELSE Visible[x]]
  BY <1>1, <1>2, ForgetEffect DEF Inv
<1>4. Clearing' = [d \in Clients |-> Clearing[d] \ {e}]
  BY <1>1, <1>2, ForgetEffect DEF Inv, Clearing, NoScan
<1> QED
  BY <1>2, <1>3, <1>4 DEF Store!Delete, Store!Remove, Store!Entries, Entries, Clearing

LEMMA StartClearImplements ==
  ASSUME Inv, NEW c \in Clients, NEW scope \in Store!Scopes, Start(c, FALSE, scope)
  PROVE  Store!StartClear(c)
<1>1. scope \in SUBSET Entries
  BY DEF Store!Scopes, Store!Entries, Entries
<1> DEFINE set == {e \in scope : table[e] # NoRow}
<1>2. scan'[c].expired = FALSE /\ scan'[c].found = set
      /\ (\A d \in Clients \ {c} : scan'[d] = scan[d])
      /\ UNCHANGED <<now, table>> /\ calls' = calls + 1
  <2>1. scan'[c].found = {e \in scope : table[e] # NoRow
                                        /\ (FALSE => Expired(table[e], now))}
    BY <1>1, StartEffect DEF Inv
  <2>2. scan'[c].found = set
    BY <2>1
  <2>3. scan'[c].expired = FALSE
    BY <1>1, StartEffect DEF Inv
  <2>4. UNCHANGED <<now, table>> /\ calls' = calls + 1
        /\ \A d \in Clients \ {c} : scan'[d] = scan[d]
    BY <1>1, StartEffect DEF Inv
  <2> QED
    BY <2>2, <2>3, <2>4
<1>3. {e \in scope : Visible[e] # NoRow} \subseteq set
  BY <1>1, VisibleAt DEF Inv
<1>4. Visible' = Visible
  BY <1>2 DEF Visible, Expired
<1>5. Clearing' = [Clearing EXCEPT ![c] = set]
  <2> HIDE DEF set
  <2> QED
    BY <1>2 DEF Clearing
<1>6. set \in SUBSET scope
  OBVIOUS
<1> QED
  BY <1>2, <1>3, <1>4, <1>5, <1>6 DEF Store!StartClear, Clearing

LEMMA StartPruneImplements ==
  ASSUME Inv, NEW c \in Clients, NEW scope \in SUBSET Entries, Start(c, TRUE, scope)
  PROVE  Store!StartPrune
<1>1. scan'[c].expired = TRUE /\ scan[c] = NoScan
      /\ (\A d \in Clients \ {c} : scan'[d] = scan[d])
      /\ UNCHANGED <<now, table>> /\ calls' = calls + 1
  BY StartEffect DEF Inv
<1>2. Visible' = Visible
  BY <1>1 DEF Visible, Expired
<1>3. Clearing' = Clearing
  <2>1. Clearing[c] = {} /\ Clearing'[c] = {}
    BY <1>1 DEF Clearing, NoScan
  <2>2. \A d \in Clients \ {c} : Clearing'[d] = Clearing[d]
    BY <1>1 DEF Clearing
  <2>3. Clearing' = [d \in Clients |-> Clearing'[d]] /\ Clearing = [d \in Clients |-> Clearing[d]]
    BY DEF Clearing
  <2> QED
    BY <2>1, <2>2, <2>3
<1> QED
  BY <1>1, <1>2, <1>3 DEF Store!StartPrune, Clearing

LEMMA FinishImplements ==
  ASSUME Inv, NEW c \in Clients, Finish(c)
  PROVE  Store!EndClear(c) \/ Store!EndPrune
<1> DEFINE gone == {e \in scan[c].found : scan[c].expired => Expired(table[e], scan[c].start)}
<1>1. gone \in SUBSET Entries
  BY DEF Inv, TypeOK, Scan
<1>2. Forget(c, gone) /\ now' = now /\ calls' = calls
  BY DEF Finish
<1>3. /\ Visible' = [e \in Entries |-> IF e \in gone THEN NoRow ELSE Visible[e]]
      /\ scan'[c] = NoScan
      /\ \A d \in Clients \ {c} : /\ scan'[d].expired = scan[d].expired
                                  /\ scan'[d].found = scan[d].found \ gone
  BY <1>1, <1>2, ForgetEffect DEF Inv
<1>4. CASE ~scan[c].expired
  <2>1. gone = Clearing[c]
    BY <1>4 DEF Clearing
  <2>2. Clearing' = [d \in Clients |-> IF d = c THEN {} ELSE Clearing[d] \ gone]
    <3> HIDE DEF gone
    <3>1. Clearing'[c] = {}
      BY <1>3 DEF Clearing, NoScan
    <3>2. \A d \in Clients \ {c} : Clearing'[d] = Clearing[d] \ gone
      BY <1>3 DEF Clearing
    <3>3. Clearing' = [d \in Clients |-> Clearing'[d]]
      BY DEF Clearing
    <3> QED
      BY <3>1, <3>2, <3>3
  <2> HIDE DEF gone
  <2> QED
    BY <1>2, <1>3, <2>1, <2>2 DEF Store!EndClear, Store!Remove, Store!Entries, Entries, Clearing
<1>5. CASE scan[c].expired
  <2>1. \A e \in gone : Visible[e] = NoRow
    <3>1. SUFFICES ASSUME NEW e \in gone PROVE Visible[e] = NoRow
      OBVIOUS
    <3>2. e \in Entries /\ table[e] \in Row /\ table[e] # NoRow
      BY <1>1 DEF Inv, TypeOK
    <3>3. scan[c].start <= now /\ scan[c].start \in Int /\ now \in Int
      BY DEF Inv, StartedBefore, TypeOK, Scan
    <3>4. table[e].expires # NoTtl /\ table[e].expires <= scan[c].start
      BY <1>5 DEF Expired
    <3>5. table[e].expires \in Int
      BY <3>2, <3>4 DEF Row
    <3>6. table[e].expires <= now
      BY <3>3, <3>4, <3>5
    <3> QED
      BY <3>2, <3>4, <3>6 DEF Visible, Expired
  <2>2. Visible' = Visible
    <3>1. Visible = [e \in Entries |-> Visible[e]]
      BY DEF Visible
    <3> HIDE DEF gone
    <3> QED
      BY <1>3, <2>1, <3>1
  <2>3. Clearing' = [d \in Clients |-> Clearing[d] \ gone]
    <3>1. Clearing[c] = {} /\ Clearing'[c] = {}
      BY <1>3, <1>5 DEF Clearing, NoScan
    <3> HIDE DEF gone
    <3>2. \A d \in Clients \ {c} : Clearing'[d] = Clearing[d] \ gone
      BY <1>3 DEF Clearing
    <3>3. Clearing' = [d \in Clients |-> Clearing'[d]]
      BY DEF Clearing
    <3> QED
      BY <3>1, <3>2, <3>3
  <2>4. gone \in SUBSET {e \in Entries : Visible[e] = NoRow}
    BY <1>1, <2>1
  <2> HIDE DEF gone
  <2> QED
    BY <1>2, <2>2, <2>3, <2>4 DEF Store!EndPrune, Store!Entries, Entries, Clearing
<1> QED
  BY <1>4, <1>5

LEMMA CrashImplements ==
  ASSUME Inv, NEW c \in Clients, Crash(c)
  PROVE  Store!CutOff(c)
<1>1. scan' = [scan EXCEPT ![c] = NoScan] /\ UNCHANGED <<now, table, calls>>
  BY DEF Crash
<1>2. Visible' = Visible
  BY <1>1 DEF Visible, Expired
<1>3. Clearing' = [Clearing EXCEPT ![c] = {}]
  BY <1>1 DEF Clearing, NoScan, Inv, TypeOK
<1> QED
  BY <1>1, <1>2, <1>3 DEF Store!CutOff, Clearing

LEMMA TickImplements ==
  ASSUME Inv, Tick
  PROVE  Store!Tick
<1>1. now' = now + 1 /\ UNCHANGED <<table, scan, calls>>
  BY DEF Tick
<1>2. Visible' = [e \in Entries |-> Store!Seen(Visible[e], now + 1)]
  <2>1. SUFFICES ASSUME NEW e \in Entries PROVE Visible'[e] = Store!Seen(Visible[e], now + 1)
    BY DEF Visible
  <2>2. now \in Int /\ (table[e] # NoRow => table[e] \in Row)
    BY DEF Inv, TypeOK
  <2>3. Visible[e] = IF table[e] # NoRow /\ Expired(table[e], now) THEN NoRow ELSE table[e]
    BY DEF Visible
  <2>4. Visible'[e] = IF table[e] # NoRow /\ Expired(table[e], now + 1) THEN NoRow ELSE table[e]
    BY <1>1 DEF Visible, Expired
  <2>5. table[e] # NoRow /\ Expired(table[e], now) => Expired(table[e], now + 1)
    BY <2>2 DEF Expired, Row
  <2> QED
    BY <2>3, <2>4, <2>5 DEF Store!Seen, Expired
<1>3. Clearing' = Clearing
  BY <1>1 DEF Clearing
<1> QED
  BY <1>1, <1>2, <1>3 DEF Store!Tick, Store!Entries, Entries, Clearing

LEMMA StepImplements == Inv /\ [Next]_vars => [Store!Next]_Store!storeVars
<1> SUFFICES ASSUME Inv, [Next]_vars PROVE [Store!Next]_Store!storeVars
  OBVIOUS
<1>1. ASSUME NEW c \in Clients, StateClear(c) \/ PurgeState(c) PROVE Store!StartClear(c)
  <2>1. PICK scope \in Store!Scopes : Start(c, FALSE, scope)
    <3>1. CASE StateClear(c)
      <4>1. PICK ns \in Namespaces, session \in Sessions :
              Start(c, FALSE, {e \in EntriesOf(ns) : e[2] = session})
        BY <3>1 DEF StateClear
      <4>2. {e \in EntriesOf(ns) : e[2] = session}
              = {e \in Entries : e[1] = ns /\ e[2] = session}
        BY DEF EntriesOf
      <4>3. {e \in Entries : e[1] = ns /\ e[2] = session} \in Store!Scopes
        BY DEF Store!Scopes, Store!Entries, Entries
      <4> QED
        BY <4>1, <4>2, <4>3
    <3>2. CASE PurgeState(c)
      <4>1. PICK ns \in Namespaces : Start(c, FALSE, EntriesOf(ns))
        BY <3>2 DEF PurgeState
      <4>2. EntriesOf(ns) \in Store!Scopes
        BY DEF EntriesOf, Store!Scopes, Store!Entries, Entries
      <4> QED
        BY <4>1, <4>2
    <3> QED
      BY <1>1, <3>1, <3>2
  <2> QED
    BY <2>1, StartClearImplements
<1>2. ASSUME NEW c \in Clients, StatePruneExpired(c) PROVE Store!StartPrune
  <2>1. PICK scope \in SUBSET Entries : Start(c, TRUE, scope)
    BY <1>2 DEF StatePruneExpired, EntriesOf
  <2> QED
    BY <2>1, StartPruneImplements
<1>3. CASE UNCHANGED vars
  BY <1>3 DEF vars, Store!storeVars, Visible, Expired, Clearing
<1> QED
  BY <1>1, <1>2, <1>3, SetImplements, DeleteImplements, FinishImplements, CrashImplements,
     TickImplements
  DEF Next, Store!Next

LEMMA InitImplements == Init => Store!Init
BY DEF Init, Store!Init, Store!Entries, Entries, Visible, Clearing, NoScan

\* Readers of session state see what SessionStore promises.
THEOREM Implements == Spec => ImplementsStore
BY InvInit, InvStep, InitImplements, StepImplements, PTL
DEF Spec, ImplementsStore, Store!Spec
=============================================================================
