------------------------- MODULE GetOrCreateProofs -------------------------
(***************************************************************************)
(* Proofs about GetOrCreate: whatever the hash collides on, however many   *)
(* tasks call and whatever other calls do to the table, calls without a    *)
(* key make no twins and calls with the same key agree on one node.        *)
(***************************************************************************)
EXTENDS GetOrCreate, TLAPS

-----------------------------------------------------------------------------
(* What a statement does to the table.                                      *)

\* The statements of the other calls.
NodeStatement ==
  NodeCreated \cup [type: {"NODE_UPDATED"}, id: NodeIds, patch: Patch(NodeFields)]
              \cup [type: {"NODE_RETRACTED"}, id: NodeIds]

LEMMA PatchedType ==
  ASSUME NEW attrs \in NodeAttrs, NEW patch \in Patch(NodeFields)
  PROVE  Patched(attrs, patch) \in NodeAttrs
<1>1. PICK chosen \in SUBSET NodeFields : patch \in [chosen -> Values]
  BY DEF Patch
<1> QED
  BY <1>1 DEF Patched, NodeAttrs

\* An insert of a key that nobody holds makes a row; every other statement
\* leaves the rows it writes their identity, and retracted if they were.
LEMMA InsertedRow ==
  ASSUME NEW s \in NodeCreated, KeyHolders(nodes, s) = {}, nodes[s.id] = NoRow
  PROVE  NodesAfter(s) =
           [n \in NodeIds |->
              IF n = s.id THEN [ns |-> s.ns, key |-> s.key, attrs |-> s.attrs,
                                retracted |-> FALSE]
                          ELSE nodes[n]]
<1>1. s.type = "NODE_CREATED" /\ s.id \in NodeIds
  BY DEF NodeCreated
<1>2. \A n \in NodeIds : n \in NodesWritten(nodes, s) <=> n = s.id
  BY <1>1 DEF NodesWritten
<1>3. NodeAfter(nodes[s.id], s) = [ns |-> s.ns, key |-> s.key, attrs |-> s.attrs,
                                   retracted |-> FALSE]
  BY <1>1 DEF NodeAfter
<1> QED
  BY <1>2, <1>3 DEF NodesAfter

LEMMA RewrittenRow ==
  ASSUME TypeOK, NEW s \in NodeStatement, NEW n \in NodesWritten(nodes, s),
         s.type = "NODE_CREATED" => KeyHolders(nodes, s) # {}
  PROVE  /\ nodes[n] \in NodeRow
         /\ NodeAfter(nodes[n], s) \in NodeRow
         /\ NodeAfter(nodes[n], s).ns = nodes[n].ns
         /\ NodeAfter(nodes[n], s).key = nodes[n].key
         /\ nodes[n].retracted => NodeAfter(nodes[n], s).retracted
<1>1. n \in NodeIds /\ nodes[n] # NoRow /\ nodes[n] \in NodeRow
  BY DEF NodesWritten, KeyHolders, TypeOK
<1>2. CASE s.type = "NODE_CREATED"
  <2>1. s \in NodeCreated
    BY <1>2 DEF NodeStatement
  <2>2. NodeAfter(nodes[n], s) = [nodes[n] EXCEPT !.attrs = s.attrs]
    BY <1>1, <1>2 DEF NodeAfter
  <2> QED
    BY <1>1, <2>1, <2>2 DEF NodeRow, NodeCreated
<1>3. CASE s.type = "NODE_UPDATED"
  <2>1. s.patch \in Patch(NodeFields)
    BY <1>3 DEF NodeStatement, NodeCreated
  <2>2. NodeAfter(nodes[n], s) = [nodes[n] EXCEPT !.attrs = Patched(@, s.patch)]
    BY <1>3 DEF NodeAfter
  <2>3. Patched(nodes[n].attrs, s.patch) \in NodeAttrs
    BY <1>1, <2>1, PatchedType DEF NodeRow
  <2> QED
    BY <1>1, <2>2, <2>3 DEF NodeRow
<1>4. CASE s.type = "NODE_RETRACTED"
  <2>1. NodeAfter(nodes[n], s) = [nodes[n] EXCEPT !.retracted = TRUE]
    BY <1>4 DEF NodeAfter
  <2> QED
    BY <1>1, <2>1 DEF NodeRow
<1> QED
  BY <1>2, <1>3, <1>4 DEF NodeStatement, NodeCreated

LEMMA NodesAfterType ==
  ASSUME TypeOK, NEW s \in NodeStatement,
         s.type = "NODE_CREATED" /\ KeyHolders(nodes, s) = {} => nodes[s.id] = NoRow
  PROVE  NodesAfter(s) \in [NodeIds -> NodeRow \cup {NoRow}]
<1>1. CASE s.type = "NODE_CREATED" /\ KeyHolders(nodes, s) = {}
  <2>1. s \in NodeCreated
    BY <1>1 DEF NodeStatement
  <2>2. [ns |-> s.ns, key |-> s.key, attrs |-> s.attrs, retracted |-> FALSE] \in NodeRow
    BY <2>1 DEF NodeCreated, NodeRow
  <2> DEFINE row == [ns |-> s.ns, key |-> s.key, attrs |-> s.attrs, retracted |-> FALSE]
  <2>3. NodesAfter(s) = [n \in NodeIds |-> IF n = s.id THEN row ELSE nodes[n]]
    BY <1>1, <2>1, InsertedRow
  <2> HIDE DEF row
  <2>4. \A n \in NodeIds : nodes[n] \in NodeRow \cup {NoRow}
    BY DEF TypeOK
  <2> QED
    BY <2>2, <2>3, <2>4 DEF row
<1>2. CASE s.type = "NODE_CREATED" => KeyHolders(nodes, s) # {}
  <2>1. \A n \in NodesWritten(nodes, s) : NodeAfter(nodes[n], s) \in NodeRow
    BY <1>2, RewrittenRow
  <2> QED
    BY <2>1 DEF NodesAfter, TypeOK
<1> QED
  BY <1>1, <1>2
-----------------------------------------------------------------------------
(* Identities: what is in use was drawn, and what a call has drawn is its   *)
(* own until it returns.                                                    *)

Used == {n \in NodeIds : nodes[n] # NoRow} \cup made
        \cup ({a.node : a \in answers} \ {NoRow})
        \cup ({found[c] : c \in Clients} \ {NoRow})

Fresh == /\ Used \subseteq drawn
         /\ \A c \in Clients : phase[c] # "idle" => req[c].id \in drawn \ Used
         /\ \A c, d \in Clients :
              c # d /\ phase[c] # "idle" /\ phase[d] # "idle" => req[c].id # req[d].id

\* A call with a key has one, and one without has none.
Keyed == \A c \in Clients :
  /\ phase[c] \in {"insert_by_key", "select_by_key"} => req[c].key \in Keys
  /\ phase[c] \in Locking \cup {"lock"} => req[c].key = NoKey

\* The request of a call under way.
LEMMA RequestType ==
  ASSUME TypeOK, NEW c \in Clients, phase[c] # "idle"
  PROVE  req[c] \in NodeCreated /\ req[c] \in NodeStatement /\ req[c].id \in NodeIds
         /\ req[c].type = "NODE_CREATED" /\ req[c] # NoRow
BY DEF TypeOK, NodeStatement, NodeCreated

LEMMA ReturnType ==
  ASSUME TypeOK, NEW c \in Clients, phase[c] # "idle",
         NEW node \in NodeIds \cup {NoRow}, NEW retracted \in BOOLEAN,
         NEW created \in BOOLEAN, Return(c, node, retracted, created)
  PROVE  /\ phase' \in [Clients -> Phases]
         /\ req' \in [Clients -> NodeCreated \cup {NoRow}]
         /\ \A d \in Clients : req'[d] = NoRow <=> phase'[d] = "idle"
         /\ found' \in [Clients -> NodeIds \cup {NoRow}]
         /\ answers' \in SUBSET Answer
         /\ purged' \in SUBSET Clients
<1>1. ASSUME NEW b \in BOOLEAN
      PROVE  [request |-> req[c], node |-> node, retracted |-> retracted,
              created |-> created, purged |-> b] \in Answer
  BY RequestType DEF Answer
<1>2. (c \in purged) \in BOOLEAN
  OBVIOUS
<1>3. PICK b \in BOOLEAN :
        answers' = answers \cup {[request |-> req[c], node |-> node, retracted |-> retracted,
                                  created |-> created, purged |-> b]}
  BY <1>2 DEF Return
<1>4. answers' \in SUBSET Answer
  BY <1>1, <1>3 DEF TypeOK
<1>5. phase' = [phase EXCEPT ![c] = "idle"] /\ req' = [req EXCEPT ![c] = NoRow]
      /\ found' = [found EXCEPT ![c] = NoRow] /\ purged' = purged \ {c}
  BY DEF Return
<1> QED
  BY <1>4, <1>5 DEF TypeOK, Phases

ClientStep(c) == CallByKey(c) \/ CallByContent(c) \/ Step(c) \/ Crash(c)

LEMMA OtherClients ==
  ASSUME TypeOK, NEW c \in Clients, ClientStep(c), NEW d \in Clients \ {c}
  PROVE  phase'[d] = phase[d] /\ req'[d] = req[d] /\ found'[d] = found[d]
<1>1. CASE CallByKey(c) \/ CallByContent(c)
  BY <1>1 DEF CallByKey, CallByContent, Call, TypeOK
<1>2. CASE InsertByKey(c) \/ SelectByKey(c)
  BY <1>2 DEF InsertByKey, SelectByKey, Return, TypeOK
<1>3. CASE Lock(c) \/ Find(c) \/ Create(c)
  BY <1>3 DEF Lock, Find, Create, TypeOK
<1>4. CASE Commit(c) \/ Crash(c)
  BY <1>4 DEF Commit, Crash, Return, TypeOK
<1> QED
  BY <1>1, <1>2, <1>3, <1>4 DEF ClientStep, Step

\* Locks are taken by transactions that go on holding them, and released when
\* these end.
LEMMA LocksAreHeldStep == TypeOK /\ [Next]_vars => LocksAreHeld'
<1> SUFFICES ASSUME TypeOK, [Next]_vars, NEW l \in LockKeys, owner'[l] # Nobody
             PROVE  phase'[owner'[l]] \in Locking /\ LockOf(req'[owner'[l]]) = l
  BY DEF LocksAreHeld, LockOf
<1> DEFINE d == owner'[l]
<1>0. owner[l] # Nobody =>
        owner[l] \in Clients /\ phase[owner[l]] \in Locking /\ LockOf(req[owner[l]]) = l
  BY DEF TypeOK, LocksAreHeld
<1>1. ASSUME NEW c \in Clients, ClientStep(c), owner'[l] = owner[l], owner[l] # c
      PROVE  phase'[d] \in Locking /\ LockOf(req'[d]) = l
  BY <1>0, <1>1, OtherClients DEF LockOf
<1>2. ASSUME NEW c \in Clients, CallByKey(c) \/ CallByContent(c)
      PROVE  phase'[d] \in Locking /\ LockOf(req'[d]) = l
  <2>1. owner' = owner /\ phase[c] \notin Locking
    BY <1>2 DEF CallByKey, CallByContent, Call, Locking
  <2> QED
    BY <1>0, <1>1, <1>2, <2>1 DEF ClientStep
<1>3. ASSUME NEW c \in Clients, InsertByKey(c) \/ SelectByKey(c)
      PROVE  phase'[d] \in Locking /\ LockOf(req'[d]) = l
  <2>1. owner' = owner /\ phase[c] \notin Locking
    BY <1>3 DEF InsertByKey, SelectByKey, Locking
  <2> QED
    BY <1>0, <1>1, <1>3, <2>1 DEF ClientStep, Step
<1>4. ASSUME NEW c \in Clients, Lock(c)
      PROVE  phase'[d] \in Locking /\ LockOf(req'[d]) = l
  <2>1. /\ phase[c] = "lock" /\ phase'[c] = "find" /\ req' = req
        /\ owner' = [owner EXCEPT ![LockOf(req[c])] = c]
    BY <1>4 DEF Lock, TypeOK
  <2>2. CASE l = LockOf(req[c])
    <3>1. d = c
      BY <2>1, <2>2 DEF TypeOK
    <3> QED
      BY <2>1, <2>2, <3>1 DEF Locking
  <2>3. CASE l # LockOf(req[c])
    <3>1. owner'[l] = owner[l]
      BY <2>1, <2>3 DEF TypeOK
    <3>2. owner[l] # c
      BY <1>0, <2>1, <3>1 DEF Locking
    <3> QED
      BY <1>1, <1>4, <3>1, <3>2 DEF ClientStep, Step
  <2> QED
    BY <2>2, <2>3
<1>5. ASSUME NEW c \in Clients, Find(c) \/ Create(c)
      PROVE  phase'[d] \in Locking /\ LockOf(req'[d]) = l
  <2>1. owner' = owner /\ req' = req /\ phase'[c] \in Locking
    BY <1>5 DEF Find, Create, Locking, TypeOK
  <2>2. CASE owner[l] = c
    BY <1>0, <2>1, <2>2 DEF LockOf
  <2>3. CASE owner[l] # c
    BY <1>1, <1>5, <2>1, <2>3 DEF ClientStep, Step
  <2> QED
    BY <2>2, <2>3
<1>6. ASSUME NEW c \in Clients, Commit(c) \/ Crash(c)
      PROVE  phase'[d] \in Locking /\ LockOf(req'[d]) = l
  <2>1. owner' = [k \in LockKeys |-> IF owner[k] = c THEN Nobody ELSE owner[k]]
    BY <1>6 DEF Commit, Crash, Unlock
  <2>2. owner'[l] = owner[l] /\ owner[l] # c
    BY <2>1
  <2> QED
    BY <1>1, <1>6, <2>2 DEF ClientStep, Step
<1>7. CASE Others
  <2>1. UNCHANGED <<phase, req, owner>>
    BY <1>7 DEF Others, AddNode, UpdateNode, RetractNode, PurgeNodes, Commits
  <2> QED
    BY <1>0, <2>1 DEF LockOf
<1>8. CASE UNCHANGED vars
  BY <1>0, <1>8 DEF vars, LockOf
<1> QED
  BY <1>2, <1>3, <1>4, <1>5, <1>6, <1>7, <1>8 DEF Next, Step

LEMMA TypeStep == TypeOK /\ Fresh /\ Keyed /\ [Next]_vars => TypeOK'
<1> SUFFICES ASSUME TypeOK, Fresh, Keyed, [Next]_vars PROVE TypeOK'
  OBVIOUS
<1> USE GraphAssumption, GetOrCreateAssumption
<1>0. LocksAreHeld'
  BY LocksAreHeldStep
<1> USE <1>0
<1>1. ASSUME NEW c \in Clients, CallByKey(c) \/ CallByContent(c) PROVE TypeOK'
  <2>1. PICK op \in OpNames, start \in Phases \ {"idle"}, keys \in SUBSET (Keys \cup {NoKey}) :
          Call(c, op, start, keys)
    BY <1>1 DEF CallByKey, CallByContent, OpNames, Phases
  <2>2. PICK ns \in Namespaces, key \in keys, attrs \in NodeAttrs, id \in NodeIds \ drawn :
          /\ req' = [req EXCEPT ![c] = [type |-> "NODE_CREATED", ns |-> ns, id |-> id,
                                        key |-> key, attrs |-> attrs]]
          /\ drawn' = drawn \cup {id}
    BY <2>1 DEF Call
  <2>3. [type |-> "NODE_CREATED", ns |-> ns, id |-> id, key |-> key, attrs |-> attrs]
          \in NodeCreated
    BY <2>1, <2>2 DEF NodeCreated
  <2>4. req' \in [Clients -> NodeCreated \cup {NoRow}] /\ req'[c] # NoRow
    BY <2>2, <2>3 DEF TypeOK
  <2>5. phase' \in [Clients -> Phases] /\ phase'[c] # "idle"
    BY <2>1 DEF Call, TypeOK
  <2>6. \A d \in Clients : req'[d] = NoRow <=> phase'[d] = "idle"
    BY <2>1, <2>2, <2>4, <2>5 DEF Call, TypeOK
  <2> QED
    BY <2>1, <2>2, <2>4, <2>5, <2>6 DEF Call, TypeOK
<1>2. ASSUME NEW c \in Clients, InsertByKey(c) PROVE TypeOK'
  <2>1. CASE KeyHolders(nodes, req[c]) = {}
    <3>1. phase[c] # "idle"
      BY <1>2 DEF InsertByKey
    <3>2. nodes[req[c].id] = NoRow
      BY <3>1, RequestType DEF Fresh, Used
    <3>3. nodes' \in [NodeIds -> NodeRow \cup {NoRow}]
      BY <1>2, <2>1, <3>1, <3>2, RequestType, NodesAfterType DEF InsertByKey
    <3>4. Return(c, req[c].id, FALSE, TRUE)
      BY <1>2, <2>1 DEF InsertByKey
    <3> QED
      BY <1>2, <3>1, <3>3, <3>4, RequestType, ReturnType DEF InsertByKey, TypeOK
  <2>2. CASE KeyHolders(nodes, req[c]) # {}
    BY <1>2, <2>2 DEF InsertByKey, TypeOK, Phases
  <2> QED
    BY <2>1, <2>2
<1>3. ASSUME NEW c \in Clients, SelectByKey(c) PROVE TypeOK'
  <2>1. PICK node \in NodeIds \cup {NoRow}, retracted \in BOOLEAN :
          Return(c, node, retracted, FALSE)
    <3>1. \A n \in KeyHolders(nodes, req[c]) : n \in NodeIds /\ nodes[n].retracted \in BOOLEAN
      BY DEF KeyHolders, TypeOK, NodeRow
    <3> QED
      BY <1>3, <3>1 DEF SelectByKey
  <2>2. phase[c] # "idle"
    BY <1>3 DEF SelectByKey
  <2>3. /\ phase' \in [Clients -> Phases]
        /\ req' \in [Clients -> NodeCreated \cup {NoRow}]
        /\ \A d \in Clients : req'[d] = NoRow <=> phase'[d] = "idle"
        /\ found' \in [Clients -> NodeIds \cup {NoRow}]
        /\ answers' \in SUBSET Answer
        /\ purged' \in SUBSET Clients
    BY <2>1, <2>2, ReturnType
  <2>4. UNCHANGED <<nodes, owner, drawn, calls, made>>
    BY <1>3 DEF SelectByKey
  <2> QED
    BY <2>3, <2>4 DEF TypeOK
<1>4. ASSUME NEW c \in Clients, Lock(c) PROVE TypeOK'
  BY <1>4 DEF Lock, TypeOK, Phases
<1>5. ASSUME NEW c \in Clients, Find(c) PROVE TypeOK'
  BY <1>5 DEF Find, TypeOK, Phases, Matching
<1>6. ASSUME NEW c \in Clients, Create(c) PROVE TypeOK'
  BY <1>6 DEF Create, TypeOK, Phases
<1>7. ASSUME NEW c \in Clients, Commit(c) PROVE TypeOK'
  <2>1. phase[c] # "idle" /\ owner' \in [LockKeys -> Clients \cup {Nobody}]
    BY <1>7 DEF Commit, Unlock, TypeOK
  <2>2. CASE found[c] # NoRow
    <3>1. found[c] \in NodeIds /\ Return(c, found[c], FALSE, FALSE)
      BY <1>7, <2>2 DEF Commit, TypeOK
    <3> QED
      BY <1>7, <2>1, <2>2, <3>1, ReturnType DEF Commit, TypeOK
  <2>3. CASE found[c] = NoRow
    <3>1. /\ nodes' = NodesAfter(req[c]) /\ made' = made \cup {req[c].id}
          /\ Return(c, req[c].id, FALSE, TRUE)
      BY <1>7, <2>3 DEF Commit
    <3>2. nodes[req[c].id] = NoRow
      BY <2>1, RequestType DEF Fresh, Used
    <3>3. nodes' \in [NodeIds -> NodeRow \cup {NoRow}]
      BY <2>1, <3>1, <3>2, RequestType, NodesAfterType
    <3> QED
      BY <1>7, <2>1, <3>1, <3>3, RequestType, ReturnType DEF Commit, TypeOK
  <2> QED
    BY <2>2, <2>3
<1>8. ASSUME NEW c \in Clients, Crash(c) PROVE TypeOK'
  BY <1>8 DEF Crash, Unlock, TypeOK, Phases
<1>9. CASE AddNode
  <2>1. PICK s \in NodeCreated :
          /\ s.id \notin drawn /\ nodes' = NodesAfter(s)
          /\ drawn' = drawn \cup {s.id}
          /\ made' = made \ NodesWritten(nodes, s)
    BY <1>9 DEF AddNode
  <2>2. s.id \in NodeIds /\ s.ns \in Namespaces /\ s \in NodeStatement
    BY DEF NodeCreated, NodeStatement
  <2>3. nodes[s.id] = NoRow
    BY <2>1, <2>2 DEF Fresh, Used
  <2>4. nodes' \in [NodeIds -> NodeRow \cup {NoRow}]
    BY <2>1, <2>2, <2>3, NodesAfterType
  <2> QED
    BY <1>9, <2>1, <2>2, <2>4 DEF AddNode, Commits, TypeOK
<1>10. CASE UpdateNode
  <2>1. PICK n \in NodeIds, patch \in Patches :
          /\ nodes' = NodesAfter([type |-> "NODE_UPDATED", id |-> n, patch |-> patch])
          /\ made' = made \ {n}
    BY <1>10 DEF UpdateNode
  <2>2. [type |-> "NODE_UPDATED", id |-> n, patch |-> patch] \in NodeStatement
    BY DEF NodeStatement
  <2>3. nodes' \in [NodeIds -> NodeRow \cup {NoRow}]
    BY <2>1, <2>2, NodesAfterType
  <2> QED
    BY <1>10, <2>1, <2>3 DEF UpdateNode, Commits, TypeOK
<1>11. CASE RetractNode
  <2>1. PICK n \in NodeIds : nodes' = NodesAfter([type |-> "NODE_RETRACTED", id |-> n])
    BY <1>11 DEF RetractNode
  <2>2. [type |-> "NODE_RETRACTED", id |-> n] \in NodeStatement
    BY DEF NodeStatement
  <2>3. nodes' \in [NodeIds -> NodeRow \cup {NoRow}]
    BY <2>1, <2>2, NodesAfterType
  <2> QED
    BY <1>11, <2>3 DEF RetractNode, Commits, TypeOK
<1>12. CASE PurgeNodes
  BY <1>12 DEF PurgeNodes, Commits, TypeOK
<1>13. CASE UNCHANGED vars
  BY <1>13 DEF vars, TypeOK
<1> QED
  BY <1>1, <1>2, <1>3, <1>4, <1>5, <1>6, <1>7, <1>8, <1>9, <1>10, <1>11, <1>12, <1>13
  DEF Next, Step, Others
-----------------------------------------------------------------------------
(* What a step does to the rows: at most one appears, under an identity in  *)
(* nobody else's hands, and the others keep namespace, key and retraction;  *)
(* those in made keep their columns too.                                    *)

Kept(n) == nodes'[n] # NoRow =>
  /\ nodes[n] # NoRow
  /\ nodes'[n].ns = nodes[n].ns
  /\ nodes'[n].key = nodes[n].key
  /\ nodes[n].retracted => nodes'[n].retracted
  /\ n \in made' => n \in made /\ nodes'[n].attrs = nodes[n].attrs

NoNewRow == made' \subseteq made /\ \A n \in NodeIds : Kept(n)

\* The row of request appears.
NewRow(request) ==
  /\ KeyHolders(nodes, request) = {}
  /\ request \in NodeCreated
  /\ nodes[request.id] = NoRow
  /\ nodes' = [n \in NodeIds |->
                IF n = request.id
                THEN [ns |-> request.ns, key |-> request.key,
                      attrs |-> request.attrs, retracted |-> FALSE]
                ELSE nodes[n]]

LEMMA RewriteKeeps ==
  ASSUME TypeOK, NEW s \in NodeStatement, nodes' = NodesAfter(s),
         s.type = "NODE_CREATED" => KeyHolders(nodes, s) # {},
         s.type = "NODE_RETRACTED" \/ made' \cap NodesWritten(nodes, s) = {},
         made' \subseteq made
  PROVE  NoNewRow
<1> SUFFICES ASSUME NEW n \in NodeIds, nodes'[n] # NoRow PROVE Kept(n)
  BY DEF NoNewRow, Kept
<1>1. CASE n \in NodesWritten(nodes, s)
  <2>1. nodes'[n] = NodeAfter(nodes[n], s)
    BY <1>1 DEF NodesAfter
  <2>2. /\ nodes[n] # NoRow /\ nodes'[n].ns = nodes[n].ns /\ nodes'[n].key = nodes[n].key
        /\ nodes[n].retracted => nodes'[n].retracted
    BY <1>1, <2>1, RewrittenRow, GraphAssumption
  <2>3. CASE s.type = "NODE_RETRACTED"
    <3>1. nodes'[n] = [nodes[n] EXCEPT !.retracted = TRUE]
      BY <2>1, <2>3 DEF NodeAfter
    <3>2. nodes[n] \in NodeRow
      BY <2>2 DEF TypeOK
    <3> QED
      BY <2>2, <3>1, <3>2 DEF Kept, NodeRow
  <2>4. CASE s.type # "NODE_RETRACTED"
    BY <1>1, <2>2, <2>4 DEF Kept
  <2> QED
    BY <2>3, <2>4
<1>2. CASE n \notin NodesWritten(nodes, s)
  <2>1. nodes'[n] = nodes[n]
    BY <1>2 DEF NodesAfter
  <2> QED
    BY <2>1 DEF Kept
<1> QED
  BY <1>1, <1>2

\* The calls of others.
LEMMA OthersRows ==
  ASSUME TypeOK, Fresh, Others
  PROVE  /\ UNCHANGED <<phase, req, found, owner, answers>>
         /\ drawn \subseteq drawn' /\ made' \subseteq made
         /\ NoNewRow \/ \E s \in NodeCreated : /\ NewRow(s)
                                               /\ s.id \notin drawn /\ s.id \in drawn'
                                               /\ s.id \notin made'
<1>1. CASE AddNode
  <2>1. PICK s \in NodeCreated :
          /\ s.id \notin drawn /\ nodes' = NodesAfter(s)
          /\ drawn' = drawn \cup {s.id}
          /\ made' = made \ NodesWritten(nodes, s)
    BY <1>1 DEF AddNode
  <2>2. s.id \in NodeIds /\ s \in NodeStatement
    BY DEF NodeCreated, NodeStatement
  <2>3. nodes[s.id] = NoRow /\ s.id \notin made
    BY <2>1, <2>2 DEF Fresh, Used
  <2>4. CASE KeyHolders(nodes, s) = {}
    <3>1. NewRow(s)
      BY <2>1, <2>3, <2>4, InsertedRow DEF NewRow
    <3> QED
      BY <1>1, <2>1, <2>3, <3>1 DEF AddNode, Commits
  <2>5. CASE KeyHolders(nodes, s) # {}
    <3>1. NoNewRow
      BY <2>1, <2>2, <2>5, RewriteKeeps
    <3> QED
      BY <1>1, <2>1, <3>1 DEF AddNode, Commits
  <2> QED
    BY <2>4, <2>5
<1>2. CASE UpdateNode
  <2>1. PICK n \in NodeIds, patch \in Patches :
          /\ nodes' = NodesAfter([type |-> "NODE_UPDATED", id |-> n, patch |-> patch])
          /\ made' = made \ {n}
    BY <1>2 DEF UpdateNode
  <2> DEFINE s == [type |-> "NODE_UPDATED", id |-> n, patch |-> patch]
  <2>2. s \in NodeStatement
    BY GetOrCreateAssumption DEF NodeStatement
  <2>3. NodesWritten(nodes, s) \subseteq {n}
    BY DEF NodesWritten
  <2>4. NoNewRow
    <3>1. nodes' = NodesAfter(s) /\ s.type = "NODE_UPDATED"
      BY <2>1
    <3> HIDE DEF s
    <3> QED
      BY <2>1, <2>2, <2>3, <3>1, RewriteKeeps
  <2> QED
    BY <1>2, <2>1, <2>4 DEF UpdateNode, Commits
<1>3. CASE RetractNode
  <2>1. PICK n \in NodeIds : nodes' = NodesAfter([type |-> "NODE_RETRACTED", id |-> n])
    BY <1>3 DEF RetractNode
  <2> DEFINE s == [type |-> "NODE_RETRACTED", id |-> n]
  <2>2. s \in NodeStatement /\ s.type = "NODE_RETRACTED" /\ nodes' = NodesAfter(s)
    BY <2>1 DEF NodeStatement
  <2>3. made' = made
    BY <1>3 DEF RetractNode
  <2>4. NoNewRow
    <3> HIDE DEF s
    <3> QED
      BY <2>2, <2>3, RewriteKeeps
  <2> QED
    BY <1>3, <2>3, <2>4 DEF RetractNode, Commits
<1>4. CASE PurgeNodes
  BY <1>4 DEF PurgeNodes, Commits, NoNewRow, Kept
<1> QED
  BY <1>1, <1>2, <1>3, <1>4 DEF Others

\* The two steps in which a get_or_create creates.
LEMMA CreatedRow ==
  ASSUME TypeOK, Fresh, Keyed, NEW c \in Clients,
         \/ InsertByKey(c) /\ KeyHolders(nodes, req[c]) = {}
         \/ Commit(c) /\ found[c] = NoRow
  PROVE  NewRow(req[c]) /\ Return(c, req[c].id, FALSE, TRUE)
<1>1. phase[c] # "idle" /\ nodes' = NodesAfter(req[c]) /\ Return(c, req[c].id, FALSE, TRUE)
  BY DEF InsertByKey, Commit
<1>2. req[c] \in NodeCreated /\ req[c].id \in NodeIds /\ nodes[req[c].id] = NoRow
  BY <1>1, RequestType DEF Fresh, Used
<1>3. KeyHolders(nodes, req[c]) = {}
  BY DEF Commit, Keyed, Locking, KeyHolders
<1> QED
  BY <1>1, <1>2, <1>3, InsertedRow DEF NewRow
-----------------------------------------------------------------------------
(* The steps of one client, as the others see them.                         *)


Creates(c) == \/ InsertByKey(c) /\ KeyHolders(nodes, req[c]) = {}
              \/ Commit(c) /\ found[c] = NoRow

LEMMA QuietSteps ==
  ASSUME TypeOK, NEW c \in Clients, ClientStep(c), ~Creates(c)
  PROVE  nodes' = nodes /\ made' = made
<1>1. CASE CallByKey(c) \/ CallByContent(c)
  BY <1>1 DEF CallByKey, CallByContent, Call
<1>2. CASE InsertByKey(c) \/ SelectByKey(c)
  BY <1>2 DEF InsertByKey, SelectByKey, Creates
<1>3. CASE Lock(c) \/ Find(c) \/ Create(c)
  BY <1>3 DEF Lock, Find, Create
<1>4. CASE Commit(c) \/ Crash(c)
  BY <1>4 DEF Commit, Crash, Creates
<1> QED
  BY <1>1, <1>2, <1>3, <1>4 DEF ClientStep, Step

LEMMA KeyedStep == TypeOK /\ Keyed /\ [Next]_vars => Keyed'
<1> SUFFICES ASSUME TypeOK, Keyed, [Next]_vars PROVE Keyed'
  OBVIOUS
<1>1. ASSUME NEW c \in Clients, CallByKey(c) PROVE Keyed'
  BY <1>1 DEF CallByKey, Call, Keyed, TypeOK, Locking
<1>2. ASSUME NEW c \in Clients, CallByContent(c) PROVE Keyed'
  BY <1>2 DEF CallByContent, Call, Keyed, TypeOK, Locking
<1>3. ASSUME NEW c \in Clients, InsertByKey(c) \/ SelectByKey(c) PROVE Keyed'
  BY <1>3 DEF InsertByKey, SelectByKey, Return, Keyed, TypeOK, Locking
<1>4. ASSUME NEW c \in Clients, Lock(c) \/ Find(c) \/ Create(c) PROVE Keyed'
  BY <1>4 DEF Lock, Find, Create, Keyed, TypeOK, Locking
<1>5. ASSUME NEW c \in Clients, Commit(c) \/ Crash(c) PROVE Keyed'
  BY <1>5 DEF Commit, Crash, Return, Keyed, TypeOK, Locking
<1>6. CASE Others
  BY <1>6 DEF Others, AddNode, UpdateNode, RetractNode, PurgeNodes, Commits, Keyed
<1>7. CASE UNCHANGED vars
  BY <1>7 DEF vars, Keyed
<1> QED
  BY <1>1, <1>2, <1>3, <1>4, <1>5, <1>6, <1>7 DEF Next, Step

LEMMA FreshStep == TypeOK /\ Fresh /\ Keyed /\ [Next]_vars => Fresh'
<1> SUFFICES ASSUME TypeOK, Fresh, Keyed, [Next]_vars PROVE Fresh'
  OBVIOUS
<1>1. ASSUME NEW c \in Clients, CallByKey(c) \/ CallByContent(c) PROVE Fresh'
  <2>1. PICK id \in NodeIds \ drawn :
          req'[c].id = id /\ drawn' = drawn \cup {id}
    BY <1>1 DEF CallByKey, CallByContent, Call, TypeOK
  <2>2. Used' = Used
    BY <1>1 DEF CallByKey, CallByContent, Call, Used
  <2> QED
    BY <1>1, <2>1, <2>2, OtherClients DEF Fresh, ClientStep
<1>2. ASSUME NEW c \in Clients, Creates(c) PROVE Fresh'
  <2>1. NewRow(req[c]) /\ Return(c, req[c].id, FALSE, TRUE)
    BY <1>2, CreatedRow DEF Creates
  <2>2. drawn' = drawn /\ made' \subseteq made \cup {req[c].id} /\ phase[c] # "idle"
    BY <1>2 DEF Creates, InsertByKey, Commit
  <2>3. \A n \in NodeIds : nodes'[n] # NoRow => nodes[n] # NoRow \/ n = req[c].id
    BY <2>1 DEF NewRow
  <2>4. \A a \in answers' : a \in answers \/ a.node = req[c].id
    BY <2>1 DEF Return
  <2>5. \A d \in Clients : found'[d] = found[d] \/ found'[d] = NoRow
    BY <2>1 DEF Return, TypeOK
  <2>6. Used' \subseteq Used \cup {req[c].id}
    BY <2>2, <2>3, <2>4, <2>5 DEF Used
  <2>7. phase'[c] = "idle" /\ \A d \in Clients \ {c} : phase'[d] = phase[d] /\ req'[d] = req[d]
    BY <2>1 DEF Return, TypeOK
  <2> QED
    BY <2>2, <2>6, <2>7 DEF Fresh
<1>3. ASSUME NEW c \in Clients, ClientStep(c), ~Creates(c),
             ~CallByKey(c), ~CallByContent(c)
      PROVE  Fresh'
  <2>1. nodes' = nodes /\ made' = made /\ drawn' = drawn
    BY <1>3, QuietSteps DEF ClientStep, Step, InsertByKey, SelectByKey, Lock, Find,
       Create, Commit, Crash
  <2>2. phase[c] # "idle" /\ (phase'[c] = "idle" \/ req'[c] = req[c])
    <3>1. CASE InsertByKey(c) \/ SelectByKey(c)
      BY <3>1 DEF InsertByKey, SelectByKey, Return, TypeOK
    <3>2. CASE Lock(c) \/ Find(c) \/ Create(c)
      BY <3>2 DEF Lock, Find, Create
    <3>3. CASE Commit(c) \/ Crash(c)
      BY <3>3 DEF Commit, Crash, Return, TypeOK
    <3> QED
      BY <1>3, <3>1, <3>2, <3>3 DEF ClientStep, Step
  <2>3. Used' \subseteq Used
    <3>1. CASE InsertByKey(c)
      BY <1>3, <3>1 DEF InsertByKey, Creates, Used
    <3>2. CASE SelectByKey(c)
      <4>1. PICK node, retracted : /\ Return(c, node, retracted, FALSE)
                                   /\ node # NoRow => node \in NodeIds /\ nodes[node] # NoRow
        BY <3>2 DEF SelectByKey, KeyHolders
      <4>2. \A a \in answers' : a \in answers \/ a.node = node
        BY <4>1 DEF Return
      <4>3. \A d \in Clients : found'[d] = found[d] \/ found'[d] = NoRow
        BY <4>1 DEF Return, TypeOK
      <4> QED
        BY <2>1, <4>1, <4>2, <4>3 DEF Used
    <3>3. CASE Find(c)
      <4>1. \A d \in Clients : found'[d] = found[d]
                               \/ (found'[d] \in NodeIds /\ nodes[found'[d]] # NoRow)
        BY <3>3 DEF Find, Matching, Live, TypeOK
      <4>2. answers' = answers
        BY <3>3 DEF Find
      <4> QED
        BY <2>1, <4>1, <4>2 DEF Used
    <3>4. CASE Commit(c)
      <4>1. found[c] # NoRow /\ Return(c, found[c], FALSE, FALSE)
        BY <1>3, <3>4 DEF Commit, Creates
      <4>2. \A a \in answers' : a \in answers \/ a.node = found[c]
        BY <4>1 DEF Return
      <4>3. \A d \in Clients : found'[d] = found[d] \/ found'[d] = NoRow
        BY <4>1 DEF Return, TypeOK
      <4> QED
        BY <2>1, <4>1, <4>2, <4>3 DEF Used
    <3>5. CASE Lock(c) \/ Create(c)
      BY <3>5 DEF Lock, Create, Used
    <3>6. CASE Crash(c)
      <4>1. \A d \in Clients : found'[d] = found[d] \/ found'[d] = NoRow
        BY <3>6 DEF Crash, TypeOK
      <4> QED
        BY <2>1, <3>6, <4>1 DEF Crash, Used
    <3> QED
      BY <1>3, <3>1, <3>2, <3>3, <3>4, <3>5, <3>6 DEF ClientStep, Step
  <2> QED
    BY <1>3, <2>1, <2>2, <2>3, OtherClients DEF Fresh
<1>4. CASE Others
  <2>1. /\ UNCHANGED <<phase, req, found, answers>>
        /\ drawn \subseteq drawn' /\ made' \subseteq made
        /\ NoNewRow \/ \E s \in NodeCreated : NewRow(s) /\ s.id \notin drawn /\ s.id \in drawn'
    BY <1>4, OthersRows
  <2>2. CASE NoNewRow
    <3>1. \A n \in NodeIds : nodes'[n] # NoRow => nodes[n] # NoRow
      BY <2>2 DEF NoNewRow, Kept
    <3>2. Used' \subseteq Used
      BY <2>1, <3>1 DEF Used
    <3> QED
      BY <2>1, <3>2 DEF Fresh
  <2>3. ASSUME NEW s \in NodeCreated, NewRow(s), s.id \notin drawn, s.id \in drawn'
        PROVE  Fresh'
    <3>1. \A n \in NodeIds : nodes'[n] # NoRow => nodes[n] # NoRow \/ n = s.id
      BY <2>3 DEF NewRow
    <3>2. Used' \subseteq Used \cup {s.id}
      BY <2>1, <3>1 DEF Used
    <3> QED
      BY <2>1, <2>3, <3>2 DEF Fresh
  <2> QED
    BY <2>1, <2>2, <2>3
<1>5. CASE UNCHANGED vars
  BY <1>5 DEF vars, Fresh, Used
<1> QED
  BY <1>1, <1>2, <1>3, <1>4, <1>5 DEF Next, ClientStep
-----------------------------------------------------------------------------
(* No twins.                                                                *)

\* A client past the advisory lock holds it.
Locks == \A c \in Clients : phase[c] \in Locking => owner[LockOf(req[c])] = c

\* Who is going to create a node has no rival: no call without a key has made
\* a live one like it.
Creating(c) == phase[c] = "create" \/ (phase[c] = "commit" /\ found[c] = NoRow)

NoRival == \A c \in Clients : Creating(c) => made \cap Matching(req[c]) = {}

LEMMA LocksStep == TypeOK /\ Locks /\ Keyed /\ [Next]_vars => Locks'
<1> SUFFICES ASSUME TypeOK, Locks, Keyed, [Next]_vars PROVE Locks'
  OBVIOUS
<1> USE GetOrCreateAssumption
<1>0. ASSUME NEW c \in Clients, ClientStep(c), owner' = owner,
             phase'[c] \in Locking => phase[c] \in Locking /\ req'[c] = req[c]
      PROVE  Locks'
  <2>1. ASSUME NEW d \in Clients, phase'[d] \in Locking
        PROVE  phase[d] \in Locking /\ req'[d] = req[d]
    <3>1. CASE d = c
      BY <1>0, <2>1, <3>1
    <3>2. CASE d # c
      BY <1>0, <2>1, <3>2, OtherClients
    <3> QED
      BY <3>1, <3>2
  <2> QED
    BY <1>0, <2>1 DEF Locks, LockOf
<1>1. ASSUME NEW c \in Clients, CallByKey(c) \/ CallByContent(c) PROVE Locks'
  <2>1. phase'[c] \notin Locking /\ owner' = owner
    BY <1>1 DEF CallByKey, CallByContent, Call, TypeOK, Locking
  <2> QED
    BY <1>0, <1>1, <2>1 DEF ClientStep
<1>2. ASSUME NEW c \in Clients, InsertByKey(c) \/ SelectByKey(c) PROVE Locks'
  <2>1. phase'[c] \notin Locking /\ owner' = owner
    BY <1>2 DEF InsertByKey, SelectByKey, Return, TypeOK, Locking
  <2> QED
    BY <1>0, <1>2, <2>1 DEF ClientStep, Step
<1>3. ASSUME NEW c \in Clients, Lock(c) PROVE Locks'
  <2>1. LockOf(req[c]) \in LockKeys
    <3>1. req[c] \in NodeCreated
      BY <1>3, RequestType DEF Lock
    <3> QED
      BY <3>1 DEF LockOf, NodeCreated
  <2>2. /\ owner' = [owner EXCEPT ![LockOf(req[c])] = c] /\ req' = req
        /\ owner[LockOf(req[c])] \in {Nobody, c}
    BY <1>3 DEF Lock
  <2>3. ASSUME NEW d \in Clients \ {c}, phase'[d] \in Locking
        PROVE  owner'[LockOf(req[d])] = d
    <3>1. phase[d] \in Locking
      BY <1>3, <2>3, OtherClients DEF ClientStep, Step
    <3>2. owner[LockOf(req[d])] = d
      BY <3>1 DEF Locks
    <3> QED
      BY <2>2, <3>2
  <2>4. owner'[LockOf(req[c])] = c
    BY <2>1, <2>2 DEF TypeOK
  <2> QED
    BY <2>2, <2>3, <2>4 DEF Locks, LockOf
<1>4. ASSUME NEW c \in Clients, Find(c) \/ Create(c) PROVE Locks'
  <2>1. phase[c] \in Locking /\ owner' = owner /\ req' = req
    BY <1>4 DEF Find, Create, Locking
  <2> QED
    BY <1>0, <1>4, <2>1 DEF ClientStep, Step
<1>5. ASSUME NEW c \in Clients, Commit(c) \/ Crash(c) PROVE Locks'
  <2>1. phase'[c] \notin Locking
    BY <1>5 DEF Commit, Crash, Return, TypeOK, Locking
  <2>2. owner' = [l \in LockKeys |-> IF owner[l] = c THEN Nobody ELSE owner[l]]
    BY <1>5 DEF Commit, Crash, Unlock
  <2>3. ASSUME NEW d \in Clients \ {c}, phase'[d] \in Locking
        PROVE  owner'[LockOf(req'[d])] = d
    <3>1. phase[d] \in Locking /\ req'[d] = req[d]
      BY <1>5, <2>3, OtherClients DEF ClientStep, Step
    <3>2. req[d] \in NodeCreated
      BY <3>1, RequestType DEF Locking
    <3>3. LockOf(req[d]) \in LockKeys
      BY <3>2 DEF LockOf, NodeCreated
    <3> QED
      BY <2>2, <3>1, <3>3 DEF Locks
  <2> QED
    BY <2>1, <2>3 DEF Locks, LockOf
<1>6. CASE Others
  <2>1. UNCHANGED <<phase, req, owner>>
    BY <1>6 DEF Others, AddNode, UpdateNode, RetractNode, PurgeNodes, Commits
  <2> QED
    BY <2>1 DEF Locks, LockOf
<1>7. CASE UNCHANGED vars
  BY <1>7 DEF vars, Locks, LockOf
<1> QED
  BY <1>1, <1>2, <1>3, <1>4, <1>5, <1>6, <1>7 DEF Next, Step

\* A step that adds nothing to made adds no rival to a request either.
LEMMA MatchesShrink ==
  ASSUME TypeOK, NEW request,
         NoNewRow \/ \E s \in NodeCreated : NewRow(s) /\ s.id \notin made' /\ made' \subseteq made,
         made \cap Matching(request) = {}
  PROVE  made' \cap Matching(request)' = {}
<1>1. CASE NoNewRow
  BY <1>1 DEF NoNewRow, Kept, Matching, Live
<1>2. ASSUME NEW s \in NodeCreated, NewRow(s), s.id \notin made', made' \subseteq made
      PROVE  made' \cap Matching(request)' = {}
  <2>1. \A n \in made' \cap NodeIds : nodes'[n] = nodes[n]
    BY <1>2 DEF NewRow
  <2> QED
    BY <1>2, <2>1 DEF Matching, Live
<1> QED
  BY <1>1, <1>2

\* The steps after which made is no larger, and the step of a creating call.
LEMMA RowSteps ==
  ASSUME TypeOK, Fresh, Keyed, [Next]_vars
  PROVE  \/ NoNewRow
         \/ \E s \in NodeCreated : NewRow(s) /\ s.id \notin made' /\ made' \subseteq made
         \/ \E c \in Clients : /\ Commit(c) /\ found[c] = NoRow
                              /\ NewRow(req[c]) /\ made' = made \cup {req[c].id}
                              /\ Return(c, req[c].id, FALSE, TRUE)
<1>1. CASE Others
  BY <1>1, OthersRows
<1>2. ASSUME NEW c \in Clients, ClientStep(c), ~Creates(c) PROVE NoNewRow
  BY <1>2, QuietSteps DEF NoNewRow, Kept
<1>3. ASSUME NEW c \in Clients, Commit(c), found[c] = NoRow
      PROVE  /\ NewRow(req[c]) /\ made' = made \cup {req[c].id}
             /\ Return(c, req[c].id, FALSE, TRUE)
  BY <1>3, CreatedRow DEF Commit
<1>4. ASSUME NEW c \in Clients, InsertByKey(c), KeyHolders(nodes, req[c]) = {}
      PROVE  NewRow(req[c]) /\ req[c] \in NodeCreated /\ req[c].id \notin made' /\ made' = made
  BY <1>4, CreatedRow, RequestType DEF InsertByKey, Fresh, Used
<1>5. CASE UNCHANGED vars
  BY <1>5 DEF vars, NoNewRow, Kept
<1> QED
  BY <1>1, <1>2, <1>3, <1>4, <1>5 DEF Next, ClientStep, Creates
LEMMA NoRivalStep ==
  TypeOK /\ Fresh /\ Keyed /\ Locks /\ NoRival /\ [Next]_vars => NoRival'
<1> SUFFICES ASSUME TypeOK, Fresh, Keyed, Locks, NoRival, [Next]_vars,
                    NEW d \in Clients, Creating(d)'
             PROVE  made' \cap Matching(req[d])' = {}
  BY DEF NoRival
\* The request that creates is the one it was, and either was to create
\* already or finds that nothing matches.
<1>1. /\ req'[d] = req[d] /\ phase[d] \in Locking
      /\ Creating(d) \/ (Find(d) /\ Matching(req[d]) = {})
  <2>1. CASE CallByKey(d) \/ CallByContent(d)
    BY <2>1 DEF CallByKey, CallByContent, Call, Creating, TypeOK
  <2>2. CASE InsertByKey(d) \/ SelectByKey(d) \/ Commit(d) \/ Crash(d)
    BY <2>2 DEF InsertByKey, SelectByKey, Commit, Crash, Return, Creating, TypeOK
  <2>3. CASE Lock(d) \/ Create(d)
    BY <2>3 DEF Lock, Create, Creating, TypeOK, Locking
  <2>4. CASE Find(d)
    <3>1. phase[d] = "find" /\ req' = req
      BY <2>4 DEF Find
    <3>2. Matching(req[d]) = {}
      <4>1. SUFFICES ASSUME NEW n \in Matching(req[d]),
                            found' = [found EXCEPT ![d] = n],
                            phase' = [phase EXCEPT ![d] = "commit"]
                     PROVE  FALSE
        BY <2>4 DEF Find
      <4>2. n \in NodeIds /\ found'[d] = n /\ phase'[d] = "commit"
        BY <4>1 DEF Matching, TypeOK
      <4> QED
        BY <4>2, GetOrCreateAssumption DEF Creating
    <3> QED
      BY <2>4, <3>1, <3>2 DEF Locking
  <2>5. ASSUME NEW c \in Clients \ {d}, ClientStep(c)
        PROVE  req'[d] = req[d] /\ Creating(d)
    <3>1. phase'[d] = phase[d] /\ req'[d] = req[d] /\ found'[d] = found[d]
      BY <2>5, OtherClients
    <3> QED
      BY <3>1 DEF Creating
  <2>6. CASE Others
    <3>1. phase' = phase /\ req' = req /\ found' = found
      BY <2>6, OthersRows
    <3>2. req'[d] = req[d] /\ Creating(d)
      BY <3>1 DEF Creating
    <3>3. phase[d] \in Locking
      BY <3>2 DEF Creating, Locking
    <3> QED
      BY <3>2, <3>3
  <2>7. CASE UNCHANGED vars
    BY <2>7 DEF vars, Creating, Locking
  <2> QED
    BY <2>1, <2>2, <2>3, <2>4, <2>5, <2>6, <2>7 DEF Next, ClientStep, Step, Creating, Locking
<1>2. made \cap Matching(req[d]) = {}
  BY <1>1 DEF NoRival
<1>3. \A request : request = req[d] => (made' \cap Matching(request)' = {} =>
                                      made' \cap Matching(req[d])' = {})
  BY <1>1 DEF Matching, Live
<1>4. CASE NoNewRow \/ \E s \in NodeCreated : NewRow(s) /\ s.id \notin made' /\ made' \subseteq made
  BY <1>2, <1>3, <1>4, MatchesShrink
<1>5. ASSUME NEW c \in Clients, Commit(c), found[c] = NoRow, NewRow(req[c]),
             made' = made \cup {req[c].id}, Return(c, req[c].id, FALSE, TRUE)
      PROVE  made' \cap Matching(req[d])' = {}
  <2>1. c # d
    BY <1>5 DEF Return, Creating, TypeOK
  <2>2. phase[c] \in Locking
    BY <1>5 DEF Commit, Locking
  <2>3. LockOf(req[c]) # LockOf(req[d])
    BY <1>1, <2>1, <2>2 DEF Locks
  <2>4. ~ (req[c].ns = req[d].ns /\ req[c].attrs = req[d].attrs)
    BY <2>3 DEF LockOf
  <2>5. \A n \in NodeIds : n # req[c].id => nodes'[n] = nodes[n]
    BY <1>5 DEF NewRow
  <2>6. req[c].id \in NodeIds /\ nodes'[req[c].id].ns = req[c].ns
        /\ nodes'[req[c].id].attrs = req[c].attrs
    BY <1>5 DEF NewRow, NodeCreated
  <2> QED
    BY <1>1, <1>2, <1>5, <2>4, <2>5, <2>6 DEF Matching, Live
<1> QED
  BY <1>4, <1>5, RowSteps

LEMMA NoTwinsStep ==
  TypeOK /\ Fresh /\ Keyed /\ NoRival /\ NoTwins /\ [Next]_vars => NoTwins'
<1> SUFFICES ASSUME TypeOK, Fresh, Keyed, NoRival, NoTwins, [Next]_vars PROVE NoTwins'
  OBVIOUS
<1>0. made \subseteq NodeIds
  BY DEF TypeOK
<1>1. CASE NoNewRow
  BY <1>0, <1>1 DEF NoNewRow, Kept, NoTwins, Live
<1>2. ASSUME NEW s \in NodeCreated, NewRow(s), s.id \notin made', made' \subseteq made
      PROVE  NoTwins'
  <2>1. \A n \in made' : nodes'[n] = nodes[n]
    BY <1>0, <1>2 DEF NewRow
  <2> QED
    BY <1>2, <2>1 DEF NoTwins, Live
<1>3. ASSUME NEW c \in Clients, Commit(c), found[c] = NoRow, NewRow(req[c]),
             made' = made \cup {req[c].id}
      PROVE  NoTwins'
  <2>1. made \cap Matching(req[c]) = {}
    BY <1>3 DEF NoRival, Creating, Commit
  <2>2. \A n \in made : n # req[c].id => nodes'[n] = nodes[n]
    BY <1>0, <1>3 DEF NewRow
  <2>3. req[c].id \in NodeIds /\ nodes'[req[c].id].ns = req[c].ns
        /\ nodes'[req[c].id].attrs = req[c].attrs
    BY <1>3 DEF NewRow, NodeCreated
  <2>4. ASSUME NEW m \in made, m # req[c].id, Live(m)',
               nodes'[m].ns = nodes'[req[c].id].ns, nodes'[m].attrs = nodes'[req[c].id].attrs
        PROVE  FALSE
    BY <1>0, <2>1, <2>2, <2>3, <2>4 DEF Matching, Live
  <2> QED
    BY <1>3, <2>2, <2>4 DEF NoTwins, Live
<1> QED
  BY <1>1, <1>2, <1>3, RowSteps

\* Calls without a key never make two live nodes with the same namespace,
\* content and node_type.
THEOREM TwinFree == Spec => []NoTwins
<1> DEFINE Inv == TypeOK /\ Fresh /\ Keyed /\ Locks /\ NoRival /\ NoTwins
<1>1. Init => Inv
  BY DEF Init, TypeOK, LocksAreHeld, Fresh, Used, Keyed, Locks, NoRival, Creating, NoTwins, Phases, Locking
<1>2. Inv /\ [Next]_vars => Inv'
  BY TypeStep, FreshStep, KeyedStep, LocksStep, NoRivalStep, NoTwinsStep
<1>3. Inv => NoTwins
  OBVIOUS
<1> QED
  BY <1>1, <1>2, <1>3, PTL DEF Spec
-----------------------------------------------------------------------------
(* One node per key.                                                        *)

\* The unique index (namespace, node_key).
OneHolder == \A m, n \in NodeIds :
  /\ nodes[m] # NoRow /\ nodes[n] # NoRow
  /\ nodes[m].key # NoKey
  /\ nodes[m].key = nodes[n].key /\ nodes[m].ns = nodes[n].ns
  => m = n

\* A node that a call with a key was given has that key for as long as it is
\* there.
AnswersNameTheKey == \A a \in answers :
  a.request.key # NoKey /\ a.node # NoRow /\ nodes[a.node] # NoRow =>
    nodes[a.node].ns = a.request.ns /\ nodes[a.node].key = a.request.key

LEMMA OneHolderStep ==
  TypeOK /\ Fresh /\ Keyed /\ OneHolder /\ [Next]_vars => OneHolder'
<1> SUFFICES ASSUME TypeOK, Fresh, Keyed, OneHolder, [Next]_vars PROVE OneHolder'
  OBVIOUS
<1>1. CASE NoNewRow
  BY <1>1 DEF NoNewRow, Kept, OneHolder
<1>2. ASSUME NEW request, NewRow(request) PROVE OneHolder'
  <2>1. \A n \in NodeIds : n # request.id => nodes'[n] = nodes[n]
    BY <1>2 DEF NewRow
  <2>2. nodes'[request.id].ns = request.ns /\ nodes'[request.id].key = request.key
    BY <1>2 DEF NewRow, NodeCreated
  <2>3. \A n \in NodeIds :
          nodes[n] # NoRow /\ request.key # NoKey /\ nodes[n].key = request.key
          => nodes[n].ns # request.ns
    BY <1>2 DEF NewRow, KeyHolders
  <2> QED
    BY <2>1, <2>2, <2>3 DEF OneHolder
<1> QED
  BY <1>1, <1>2, RowSteps

LEMMA AnswersStep ==
  TypeOK /\ Fresh /\ Keyed /\ AnswersNameTheKey /\ [Next]_vars => AnswersNameTheKey'
<1> SUFFICES ASSUME TypeOK, Fresh, Keyed, AnswersNameTheKey, [Next]_vars
             PROVE  AnswersNameTheKey'
  OBVIOUS
\* The answers given before the step.
<1>1. ASSUME NEW a \in answers, a.request.key # NoKey, a.node # NoRow, nodes'[a.node] # NoRow
      PROVE  nodes'[a.node].ns = a.request.ns /\ nodes'[a.node].key = a.request.key
  <2>1. a.node \in NodeIds /\ a.node \in Used
    BY <1>1 DEF TypeOK, Answer, Used
  <2>2. CASE NoNewRow
    BY <1>1, <2>1, <2>2 DEF NoNewRow, Kept, AnswersNameTheKey
  <2>3. ASSUME NEW request, NewRow(request), request.id # a.node
        PROVE  nodes'[a.node].ns = a.request.ns /\ nodes'[a.node].key = a.request.key
    <3>1. nodes'[a.node] = nodes[a.node]
      BY <2>1, <2>3 DEF NewRow
    <3> QED
      BY <1>1, <3>1 DEF AnswersNameTheKey
  <2>4. ASSUME NEW c \in Clients, ClientStep(c)
        PROVE  NoNewRow \/ (NewRow(req[c]) /\ req[c].id # a.node)
    <3>1. CASE Creates(c)
      <4>1. phase[c] # "idle"
        BY <3>1 DEF Creates, InsertByKey, Commit
      <4> QED
        BY <2>1, <3>1, <4>1, CreatedRow DEF Creates, Fresh
    <3>2. CASE ~Creates(c)
      BY <2>4, <3>2, QuietSteps DEF NoNewRow, Kept
    <3> QED
      BY <3>1, <3>2
  <2>5. ASSUME Others
        PROVE  NoNewRow \/ \E s \in NodeCreated : NewRow(s) /\ s.id # a.node
    BY <2>1, <2>5, OthersRows DEF Fresh
  <2>6. CASE UNCHANGED vars
    BY <2>6, <2>2 DEF vars, NoNewRow, Kept
  <2> QED
    BY <2>2, <2>3, <2>4, <2>5, <2>6 DEF Next, ClientStep
\* The answer the step gives.
<1>2. ASSUME NEW a \in answers' \ answers, a.request.key # NoKey, a.node # NoRow
      PROVE  nodes'[a.node].ns = a.request.ns /\ nodes'[a.node].key = a.request.key
  <2>1. ASSUME NEW c \in Clients, Creates(c)
        PROVE  nodes'[a.node].ns = a.request.ns /\ nodes'[a.node].key = a.request.key
    <3>1. NewRow(req[c]) /\ Return(c, req[c].id, FALSE, TRUE)
      BY <2>1, CreatedRow DEF Creates
    <3>2. a.request = req[c] /\ a.node = req[c].id
      BY <1>2, <3>1 DEF Return
    <3>3. req[c].id \in NodeIds
      BY <3>1 DEF NewRow, NodeCreated
    <3> QED
      BY <3>1, <3>2, <3>3 DEF NewRow
  <2>2. ASSUME NEW c \in Clients, SelectByKey(c)
        PROVE  nodes'[a.node].ns = a.request.ns /\ nodes'[a.node].key = a.request.key
    <3>1. nodes' = nodes /\ a.request = req[c] /\ a.node \in KeyHolders(nodes, req[c])
      BY <1>2, <2>2 DEF SelectByKey, Return
    <3> QED
      BY <3>1 DEF KeyHolders
  <2>3. ASSUME NEW c \in Clients, Commit(c), found[c] # NoRow PROVE FALSE
    <3>1. a.request = req[c]
      BY <1>2, <2>3 DEF Commit, Return
    <3> QED
      BY <1>2, <2>3, <3>1 DEF Commit, Keyed, Locking
  <2>4. ASSUME NEW c \in Clients, CallByKey(c) \/ CallByContent(c) \/ Lock(c) \/ Find(c)
                                 \/ Create(c) \/ Crash(c)
        PROVE  FALSE
    BY <1>2, <2>4 DEF CallByKey, CallByContent, Call, Lock, Find, Create, Crash
  <2>5. ASSUME NEW c \in Clients, InsertByKey(c), KeyHolders(nodes, req[c]) # {} PROVE FALSE
    BY <1>2, <2>5 DEF InsertByKey
  <2>6. ~Others /\ ~UNCHANGED vars
    BY <1>2, OthersRows DEF vars
  <2> QED
    BY <2>1, <2>2, <2>3, <2>4, <2>5, <2>6 DEF Next, Step, Creates
<1> QED
  BY <1>1, <1>2 DEF AnswersNameTheKey

\* All calls with the same key are given the same node.
THEOREM KeysAgree == Spec => []KeyHasOneNode
<1> DEFINE Inv == TypeOK /\ Fresh /\ Keyed /\ OneHolder /\ AnswersNameTheKey
<1>1. Init => Inv
  BY DEF Init, TypeOK, LocksAreHeld, Fresh, Used, Keyed, OneHolder, AnswersNameTheKey, Phases, Locking
<1>2. Inv /\ [Next]_vars => Inv'
  BY TypeStep, FreshStep, KeyedStep, OneHolderStep, AnswersStep
<1>3. Inv => KeyHasOneNode
  BY DEF TypeOK, Answer, OneHolder, AnswersNameTheKey, KeyHasOneNode
<1> QED
  BY <1>1, <1>2, <1>3, PTL DEF Spec

-----------------------------------------------------------------------------
(* Calls with a key fetch or create.                                        *)

\* Between the two statements of a call the key stays taken, or is purged.
Selecting == \A c \in Clients :
  phase[c] = "select_by_key" => KeyHolders(nodes, req[c]) # {} \/ c \in purged

\* The step purges the namespace ns.
PurgedIn(ns) == /\ UNCHANGED <<phase, req>>
                /\ \A c \in Clients : phase[c] = "select_by_key" /\ req[c].ns = ns
                     => c \in purged'

\* Only a purge takes rows away.
LEMMA RowsStay ==
  ASSUME TypeOK, Fresh, Keyed, [Next]_vars
  PROVE  \A n \in NodeIds : nodes[n] # NoRow => nodes'[n] # NoRow \/ PurgedIn(nodes[n].ns)
<1>1. ASSUME NEW s \in NodeStatement, nodes' = NodesAfter(s),
             s.type = "NODE_CREATED" /\ KeyHolders(nodes, s) = {} => nodes[s.id] = NoRow
      PROVE  \A n \in NodeIds : nodes[n] # NoRow => nodes'[n] # NoRow
  <2>1. ASSUME NEW n \in NodesWritten(nodes, s),
               s.type = "NODE_CREATED" => KeyHolders(nodes, s) # {}
        PROVE  NodeAfter(nodes[n], s) \in NodeRow
    BY <2>1, RewrittenRow
  <2>2. ASSUME s.type = "NODE_CREATED", KeyHolders(nodes, s) = {}
        PROVE  NodesWritten(nodes, s) \subseteq {s.id}
    BY <2>2 DEF NodesWritten
  <2> QED
    BY <1>1, <2>1, <2>2, GraphAssumption DEF NodesAfter
<1>2. CASE AddNode
  <2>1. PICK s \in NodeCreated : s.id \notin drawn /\ nodes' = NodesAfter(s)
    BY <1>2 DEF AddNode
  <2>2. s \in NodeStatement /\ nodes[s.id] = NoRow
    BY <2>1 DEF NodeStatement, NodeCreated, Fresh, Used
  <2> QED
    BY <1>1, <1>2, <2>1, <2>2 DEF AddNode
<1>3. CASE UpdateNode
  <2>1. PICK n \in NodeIds, patch \in Patches :
          nodes' = NodesAfter([type |-> "NODE_UPDATED", id |-> n, patch |-> patch])
    BY <1>3 DEF UpdateNode
  <2>2. [type |-> "NODE_UPDATED", id |-> n, patch |-> patch] \in NodeStatement
    BY GetOrCreateAssumption DEF NodeStatement
  <2> QED
    BY <1>1, <1>3, <2>1, <2>2 DEF UpdateNode
<1>4. CASE RetractNode
  <2>1. PICK n \in NodeIds : nodes' = NodesAfter([type |-> "NODE_RETRACTED", id |-> n])
    BY <1>4 DEF RetractNode
  <2>2. [type |-> "NODE_RETRACTED", id |-> n] \in NodeStatement
    BY DEF NodeStatement
  <2> QED
    BY <1>1, <1>4, <2>1, <2>2 DEF RetractNode
<1>5. CASE PurgeNodes
  BY <1>5 DEF PurgeNodes, Commits, PurgedIn
<1>7. ASSUME NEW c \in Clients, ClientStep(c)
      PROVE  \A n \in NodeIds : nodes[n] # NoRow => nodes'[n] # NoRow
  <2>1. CASE Creates(c)
    <3>1. NewRow(req[c])
      BY <2>1, CreatedRow DEF Creates
    <3> QED
      BY <3>1 DEF NewRow
  <2>2. CASE ~Creates(c)
    BY <1>7, <2>2, QuietSteps
  <2> QED
    BY <2>1, <2>2
<1>8. CASE UNCHANGED vars
  BY <1>8 DEF vars
<1> QED
  BY <1>2, <1>3, <1>4, <1>5, <1>7, <1>8 DEF Next, Others, ClientStep

\* A key that is taken stays taken until its namespace is purged.
LEMMA KeyStaysTaken ==
  ASSUME TypeOK, Fresh, Keyed, [Next]_vars, NEW request \in NodeCreated,
         KeyHolders(nodes, request) # {}
  PROVE  (KeyHolders(nodes', request) # {}) \/ PurgedIn(request.ns)
<1>2. ASSUME NEW n \in KeyHolders(nodes, request), nodes'[n] # NoRow
      PROVE  n \in KeyHolders(nodes', request)
  <2>1. CASE NoNewRow
    BY <1>2, <2>1 DEF NoNewRow, Kept, KeyHolders
  <2>2. ASSUME NEW r, NewRow(r) PROVE n \in KeyHolders(nodes', request)
    BY <1>2, <2>2 DEF NewRow, KeyHolders
  <2> QED
    BY <2>1, <2>2, RowSteps
<1>3. ASSUME NEW n \in KeyHolders(nodes, request), nodes'[n] = NoRow
      PROVE  PurgedIn(request.ns)
  BY <1>3, RowsStay DEF KeyHolders
<1> QED
  BY <1>2, <1>3

\* The mark stays with a client between its two statements.
LEMMA PurgedStays ==
  ASSUME TypeOK, [Next]_vars, NEW d \in purged, phase'[d] = "select_by_key"
  PROVE  d \in purged'
<1>1. ASSUME NEW c \in Clients, InsertByKey(c) \/ SelectByKey(c) \/ Commit(c) \/ Crash(c)
      PROVE  d \in purged'
  <2>1. CASE purged' = purged
    BY <2>1
  <2>2. CASE purged' = purged \ {c} /\ phase' = [phase EXCEPT ![c] = "idle"]
    BY <2>2 DEF TypeOK
  <2> QED
    BY <1>1, <2>1, <2>2 DEF InsertByKey, SelectByKey, Commit, Crash, Return
<1>2. ASSUME NEW c \in Clients, CallByKey(c) \/ CallByContent(c) \/ Lock(c) \/ Find(c) \/ Create(c)
      PROVE  d \in purged'
  BY <1>2 DEF CallByKey, CallByContent, Call, Lock, Find, Create
<1>3. CASE Others
  BY <1>3 DEF Others, AddNode, UpdateNode, RetractNode, PurgeNodes
<1>4. CASE UNCHANGED vars
  BY <1>4 DEF vars
<1> QED
  BY <1>1, <1>2, <1>3, <1>4 DEF Next, Step

LEMMA SelectingStep ==
  TypeOK /\ Fresh /\ Keyed /\ Selecting /\ [Next]_vars => Selecting'
<1> SUFFICES ASSUME TypeOK, Fresh, Keyed, Selecting, [Next]_vars,
                    NEW d \in Clients, phase'[d] = "select_by_key"
             PROVE  (KeyHolders(nodes', req'[d]) # {}) \/ d \in purged'
  BY DEF Selecting
<1>1. ASSUME phase[d] = "select_by_key", req'[d] = req[d]
      PROVE  (KeyHolders(nodes', req'[d]) # {}) \/ d \in purged'
  <2>1. CASE d \in purged
    BY <2>1, PurgedStays
  <2>2. CASE KeyHolders(nodes, req[d]) # {}
    <3>1. (KeyHolders(nodes', req[d]) # {}) \/ PurgedIn(req[d].ns)
      BY <1>1, <2>2, RequestType, KeyStaysTaken
    <3> QED
      BY <1>1, <3>1 DEF PurgedIn
  <2> QED
    BY <1>1, <2>1, <2>2 DEF Selecting
<1>2. CASE InsertByKey(d)
  BY <1>2 DEF InsertByKey, Return, TypeOK
<1>3. CASE \/ CallByKey(d) \/ CallByContent(d) \/ SelectByKey(d) \/ Lock(d) \/ Find(d)
           \/ Create(d) \/ Commit(d) \/ Crash(d)
  BY <1>3 DEF CallByKey, CallByContent, Call, SelectByKey, Lock, Find, Create, Commit,
              Crash, Return, TypeOK
<1>4. ASSUME NEW c \in Clients \ {d}, ClientStep(c)
      PROVE  phase[d] = "select_by_key" /\ req'[d] = req[d]
  BY <1>4, OtherClients
<1>5. CASE Others
  BY <1>1, <1>5, OthersRows
<1>6. CASE UNCHANGED vars
  BY <1>1, <1>6 DEF vars
<1> QED
  BY <1>1, <1>2, <1>3, <1>4, <1>5, <1>6 DEF Next, ClientStep, Step

LEMMA FetchesStep ==
  TypeOK /\ Fresh /\ Keyed /\ Selecting /\ FetchesOrCreates /\ [Next]_vars
    => FetchesOrCreates'
<1> SUFFICES ASSUME TypeOK, Fresh, Keyed, Selecting, FetchesOrCreates, [Next]_vars,
                    NEW a \in answers'
             PROVE  a.node # NoRow \/ a.purged
  BY DEF FetchesOrCreates
<1>1. CASE a \in answers
  BY <1>1 DEF FetchesOrCreates
<1>2. CASE a \notin answers
  <2>1. ASSUME NEW c \in Clients, Creates(c) PROVE a.node # NoRow
    <3>1. Return(c, req[c].id, FALSE, TRUE) /\ phase[c] # "idle"
      BY <2>1, CreatedRow DEF Creates, InsertByKey, Commit
    <3>2. req[c].id \in NodeIds
      BY <3>1, RequestType
    <3> QED
      BY <1>2, <3>1, <3>2, GetOrCreateAssumption DEF Return
  <2>2. ASSUME NEW c \in Clients, SelectByKey(c)
        PROVE  a.node # NoRow \/ a.purged
    <3>1. /\ a.purged = (c \in purged)
          /\ a.node = NoRow => KeyHolders(nodes, req[c]) = {}
      BY <1>2, <2>2, GetOrCreateAssumption DEF SelectByKey, Return, KeyHolders
    <3> QED
      BY <2>2, <3>1 DEF SelectByKey, Selecting
  <2>3. ASSUME NEW c \in Clients, Commit(c), found[c] # NoRow PROVE a.node # NoRow
    BY <1>2, <2>3 DEF Commit, Return
  <2>4. ASSUME NEW c \in Clients, CallByKey(c) \/ CallByContent(c) \/ Lock(c) \/ Find(c)
                                 \/ Create(c) \/ Crash(c)
        PROVE  FALSE
    BY <1>2, <2>4 DEF CallByKey, CallByContent, Call, Lock, Find, Create, Crash
  <2>5. ASSUME NEW c \in Clients, InsertByKey(c), KeyHolders(nodes, req[c]) # {} PROVE FALSE
    BY <1>2, <2>5 DEF InsertByKey
  <2>6. ~Others /\ ~UNCHANGED vars
    BY <1>2, OthersRows DEF vars
  <2> QED
    BY <2>1, <2>2, <2>3, <2>4, <2>5, <2>6 DEF Next, Step, Creates
<1> QED
  BY <1>1, <1>2

\* A call with a key is left without a node only if its namespace was purged
\* between its two statements.
THEOREM KeyedCallsAnswer == Spec => []FetchesOrCreates
<1> DEFINE Inv == TypeOK /\ Fresh /\ Keyed /\ Selecting /\ FetchesOrCreates
<1>1. Init => Inv
  BY DEF Init, TypeOK, LocksAreHeld, Fresh, Used, Keyed, Selecting, FetchesOrCreates, Phases, Locking
<1>2. Inv /\ [Next]_vars => Inv'
  BY TypeStep, FreshStep, KeyedStep, SelectingStep, FetchesStep
<1>3. Inv => FetchesOrCreates
  OBVIOUS
<1> QED
  BY <1>1, <1>2, <1>3, PTL DEF Spec
-----------------------------------------------------------------------------

\* Every variable stays in its type.
THEOREM TypeCorrectness == Spec => []TypeOK
<1> DEFINE Inv == TypeOK /\ Fresh /\ Keyed
<1>1. Init => Inv
  BY DEF Init, TypeOK, LocksAreHeld, Fresh, Used, Keyed, Phases, Locking
<1>2. Inv /\ [Next]_vars => Inv'
  BY TypeStep, FreshStep, KeyedStep
<1> QED
  BY <1>1, <1>2, PTL DEF Spec
=============================================================================
