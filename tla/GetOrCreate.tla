---------------------------- MODULE GetOrCreate ----------------------------
(***************************************************************************)
(* get_or_create_node, called by several tasks at once while other calls   *)
(* change the same table.                                                  *)
(*                                                                         *)
(* With a key the provider runs two autocommit statements: INSERT ... ON   *)
(* CONFLICT DO NOTHING, and a SELECT when that inserted nothing.  Without  *)
(* a key it opens a transaction, takes an advisory lock on a hash of what  *)
(* it looks for, and only then looks and inserts.  Neither path goes       *)
(* through the event log.                                                  *)
(*                                                                         *)
(* The calls it races with appear with the effect they have on commit: one *)
(* node added, updated or retracted, which EventStore shows to happen at   *)
(* one instant, and the statement of purge_namespace that deletes nodes.   *)
(* The columns in NodeFields are the ones that get_or_create matches,      *)
(* content and node_type.                                                  *)
(***************************************************************************)
EXTENDS GraphModel

CONSTANTS
  Clients,
  Ops,       \* the operations under way
  LockKeys,  \* what pg_advisory_xact_lock can lock, the bigints
  Hash,      \* hashtext(namespace || content || node_type); may collide
  Patches,   \* the fields a caller passes to update_node
  Nobody,    \* the owner of a free lock
  MaxCalls   \* bound: calls in one behaviour

VARIABLES
  nodes,    \* the committed rows of nodes
  phase,    \* per client: where its get_or_create is
  req,      \* per client: what it asked for, under the new_id drawn for it
  found,    \* per client: the row its SELECT returned, NoRow if none
  owner,    \* per advisory lock: the client whose transaction holds it
  answers,  \* what the calls returned
  drawn,    \* the UUIDs drawn so far
  calls,    \* the number of calls made so far
  made,     \* history: the nodes whose columns are as a get_or_create
            \* without a key inserted them
  purged    \* history: the clients between the two statements of a call
            \* with a key whose namespace was purged meanwhile

vars == <<nodes, phase, req, found, owner, answers, drawn, calls, made, purged>>

OpNames == {"get_or_create_by_key", "get_or_create_by_content", "add_nodes",
            "update_node", "retract_node", "purge_namespace"}

Phases == {"idle", "insert_by_key", "select_by_key", "lock", "find", "create", "commit"}

\* Transactions between the advisory lock and their end.
Locking == {"find", "create", "commit"}

ASSUME GetOrCreateAssumption ==
  /\ Ops \subseteq OpNames
  /\ Hash \in [Namespaces \X NodeAttrs -> LockKeys]
  /\ Patches \subseteq Patch(NodeFields)
  /\ Nobody \notin Clients
  /\ NoRow \notin NodeIds \cup NodeCreated
  /\ MaxCalls \in Nat

\* The id, its row as it was read or inserted, and whether the call made it;
\* node is NoRow when the call failed with RowNotFound.  For the history: whether
\* the namespace was purged between the statements of the call.
Answer == [request: NodeCreated, node: NodeIds \cup {NoRow},
           retracted: BOOLEAN, created: BOOLEAN, purged: BOOLEAN]

Init == /\ nodes = [n \in NodeIds |-> NoRow]
        /\ phase = [c \in Clients |-> "idle"]
        /\ req = [c \in Clients |-> NoRow]
        /\ found = [c \in Clients |-> NoRow]
        /\ owner = [l \in LockKeys |-> Nobody]
        /\ answers = {}
        /\ drawn = {}
        /\ calls = 0
        /\ made = {}
        /\ purged = {}

-----------------------------------------------------------------------------
(* The table.                                                               *)

\* The nodes after statement s ran in them.
NodesAfter(s) == [n \in NodeIds |-> IF n \in NodesWritten(nodes, s)
                                    THEN NodeAfter(nodes[n], s) ELSE nodes[n]]

Live(n) == nodes[n] # NoRow /\ ~nodes[n].retracted

\* What a get_or_create without a key accepts for its request.
Matching(request) ==
  {n \in NodeIds : Live(n) /\ nodes[n].ns = request.ns /\ nodes[n].attrs = request.attrs}

LockOf(request) == Hash[request.ns, request.attrs]

\* Client c ends its call, answering the given node.
Return(c, node, retracted, created) ==
  /\ answers' = answers \cup {[request |-> req[c], node |-> node,
                               retracted |-> retracted, created |-> created,
                               purged |-> c \in purged]}
  /\ phase' = [phase EXCEPT ![c] = "idle"]
  /\ req' = [req EXCEPT ![c] = NoRow]
  /\ found' = [found EXCEPT ![c] = NoRow]
  /\ purged' = purged \ {c}

\* Mutant: a lock of the session, which the end of a transaction leaves held.
UnlockSession(c) == c \in Clients /\ owner' = owner

\* The end of a transaction releases its advisory locks.
Unlock(c) == owner' = [l \in LockKeys |-> IF owner[l] = c THEN Nobody ELSE owner[l]]

-----------------------------------------------------------------------------
(* get_or_create_node.                                                      *)

\* A client calls; the UUID is drawn whether or not it will be needed.
Call(c, op, start, keys) ==
  /\ op \in Ops
  /\ phase[c] = "idle"
  /\ calls < MaxCalls
  /\ \E ns \in Namespaces, key \in keys, attrs \in NodeAttrs, id \in NodeIds \ drawn :
       /\ req' = [req EXCEPT ![c] = [type |-> "NODE_CREATED", ns |-> ns, id |-> id,
                                     key |-> key, attrs |-> attrs]]
       /\ drawn' = drawn \cup {id}
  /\ phase' = [phase EXCEPT ![c] = start]
  /\ calls' = calls + 1
  /\ UNCHANGED <<nodes, found, owner, answers, made, purged>>

CallByKey(c) == Call(c, "get_or_create_by_key", "insert_by_key", Keys)
CallByContent(c) == Call(c, "get_or_create_by_content", "lock", {NoKey})

\* Mutant: no ON CONFLICT and no unique index behind the INSERT.
InsertByKeyUnchecked(c) ==
  /\ phase[c] = "insert_by_key"
  /\ nodes' = [nodes EXCEPT ![req[c].id] = NodeAfter(NoRow, req[c])]
  /\ Return(c, req[c].id, FALSE, TRUE)
  /\ UNCHANGED <<owner, drawn, calls, made>>

\* INSERT ... ON CONFLICT (namespace, node_key) DO NOTHING RETURNING.
InsertByKey(c) ==
  /\ phase[c] = "insert_by_key"
  /\ IF KeyHolders(nodes, req[c]) = {}
     THEN /\ nodes' = NodesAfter(req[c])
          /\ Return(c, req[c].id, FALSE, TRUE)
     ELSE /\ phase' = [phase EXCEPT ![c] = "select_by_key"]
          /\ UNCHANGED <<nodes, req, found, answers, purged>>
  /\ UNCHANGED <<owner, drawn, calls, made>>

\* Mutant: the SELECT skips retracted rows, which the INSERT has not skipped.
SelectByKeyLive(c) ==
  /\ phase[c] = "select_by_key"
  /\ \/ \E n \in KeyHolders(nodes, req[c]) : Live(n) /\ Return(c, n, FALSE, FALSE)
     \/ /\ \A n \in KeyHolders(nodes, req[c]) : ~Live(n)
        /\ Return(c, NoRow, FALSE, FALSE)
  /\ UNCHANGED <<nodes, owner, drawn, calls, made>>

\* SELECT by key, retracted rows included; fetch_one fails without a row.
SelectByKey(c) ==
  /\ phase[c] = "select_by_key"
  /\ \/ \E n \in KeyHolders(nodes, req[c]) : Return(c, n, nodes[n].retracted, FALSE)
     \/ KeyHolders(nodes, req[c]) = {} /\ Return(c, NoRow, FALSE, FALSE)
  /\ UNCHANGED <<nodes, owner, drawn, calls, made>>

\* Mutant: the lock is taken whoever holds it.
LockAtOnce(c) ==
  /\ phase[c] = "lock"
  /\ owner' = [owner EXCEPT ![LockOf(req[c])] = c]
  /\ phase' = [phase EXCEPT ![c] = "find"]
  /\ UNCHANGED <<nodes, req, found, answers, drawn, calls, made, purged>>

\* pg_advisory_xact_lock waits for the transaction that holds the lock.
Lock(c) ==
  /\ phase[c] = "lock"
  /\ owner[LockOf(req[c])] \in {Nobody, c}
  /\ owner' = [owner EXCEPT ![LockOf(req[c])] = c]
  /\ phase' = [phase EXCEPT ![c] = "find"]
  /\ UNCHANGED <<nodes, req, found, answers, drawn, calls, made, purged>>

\* SELECT ... LIMIT 1: any match will do.
Find(c) ==
  /\ phase[c] = "find"
  /\ \/ \E n \in Matching(req[c]) :
          /\ found' = [found EXCEPT ![c] = n]
          /\ phase' = [phase EXCEPT ![c] = "commit"]
     \/ /\ Matching(req[c]) = {}
        /\ phase' = [phase EXCEPT ![c] = "create"]
        /\ UNCHANGED found
  /\ UNCHANGED <<nodes, req, owner, answers, drawn, calls, made, purged>>

\* The INSERT, which nobody sees before the commit and nothing can refuse.
Create(c) ==
  /\ phase[c] = "create"
  /\ phase' = [phase EXCEPT ![c] = "commit"]
  /\ UNCHANGED <<nodes, req, found, owner, answers, drawn, calls, made, purged>>

\* The commit, of a node found or of a node inserted, releases the lock.
Commit(c) ==
  /\ phase[c] = "commit"
  /\ \/ /\ found[c] # NoRow
        /\ Return(c, found[c], FALSE, FALSE)
        /\ UNCHANGED <<nodes, made>>
     \/ /\ found[c] = NoRow
        /\ nodes' = NodesAfter(req[c])
        /\ made' = made \cup {req[c].id}
        /\ Return(c, req[c].id, FALSE, TRUE)
  /\ Unlock(c)
  /\ UNCHANGED <<drawn, calls>>

\* The task, its process or its connection dies: an open transaction is
\* rolled back and its locks are released.
Crash(c) ==
  /\ phase[c] # "idle"
  /\ phase' = [phase EXCEPT ![c] = "idle"]
  /\ req' = [req EXCEPT ![c] = NoRow]
  /\ found' = [found EXCEPT ![c] = NoRow]
  /\ purged' = purged \ {c}
  /\ Unlock(c)
  /\ UNCHANGED <<nodes, answers, drawn, calls, made>>

-----------------------------------------------------------------------------
(* The other calls, as their commits change the table.                      *)

Commits(op) == /\ op \in Ops
               /\ calls < MaxCalls
               /\ calls' = calls + 1
               /\ UNCHANGED <<phase, req, found, owner, answers>>

AddNode == /\ Commits("add_nodes")
           /\ \E s \in NodeCreated : /\ s.id \notin drawn
                                     /\ nodes' = NodesAfter(s)
                                     /\ drawn' = drawn \cup {s.id}
                                     /\ made' = made \ NodesWritten(nodes, s)
           /\ UNCHANGED purged

UpdateNode == /\ Commits("update_node")
              /\ \E n \in NodeIds, patch \in Patches :
                   /\ nodes[n] # NoRow
                   /\ nodes' = NodesAfter([type |-> "NODE_UPDATED", id |-> n,
                                           patch |-> patch])
                   /\ made' = made \ {n}
              /\ UNCHANGED <<drawn, purged>>

RetractNode == /\ Commits("retract_node")
               /\ \E n \in NodeIds :
                    /\ nodes[n] # NoRow
                    /\ nodes' = NodesAfter([type |-> "NODE_RETRACTED", id |-> n])
               /\ UNCHANGED <<drawn, made, purged>>

\* DELETE FROM nodes WHERE namespace = ns.
PurgeNodes == /\ Commits("purge_namespace")
              /\ \E ns \in Namespaces :
                   /\ nodes' = [n \in NodeIds |->
                                  IF nodes[n] # NoRow /\ nodes[n].ns = ns
                                  THEN NoRow ELSE nodes[n]]
                   /\ purged' = purged \cup {c \in Clients : /\ phase[c] = "select_by_key"
                                                            /\ req[c].ns = ns}
              /\ UNCHANGED <<drawn, made>>

-----------------------------------------------------------------------------

Step(c) == \/ InsertByKey(c) \/ SelectByKey(c)
           \/ Lock(c) \/ Find(c) \/ Create(c) \/ Commit(c)

Others == AddNode \/ UpdateNode \/ RetractNode \/ PurgeNodes

Next == \/ \E c \in Clients : CallByKey(c) \/ CallByContent(c) \/ Step(c) \/ Crash(c)
        \/ Others

Spec == Init /\ [][Next]_vars

\* A task that is alive is polled and the server answers its statements.
FairSpec == Spec /\ \A c \in Clients : WF_vars(Step(c))

-----------------------------------------------------------------------------
(* Properties.                                                              *)

\* An advisory lock is held by a transaction under way that asked for it.
LocksAreHeld ==
  \A l \in LockKeys : owner[l] # Nobody =>
    phase[owner[l]] \in Locking /\ LockOf(req[owner[l]]) = l

\* Every variable holds what it can hold, a request is there exactly while its
\* call is, and no lock outlives the transaction that took it.
TypeOK ==
  /\ nodes \in [NodeIds -> NodeRow \cup {NoRow}]
  /\ phase \in [Clients -> Phases]
  /\ req \in [Clients -> NodeCreated \cup {NoRow}]
  /\ \A c \in Clients : req[c] = NoRow <=> phase[c] = "idle"
  /\ found \in [Clients -> NodeIds \cup {NoRow}]
  /\ owner \in [LockKeys -> Clients \cup {Nobody}]
  /\ answers \in SUBSET Answer
  /\ drawn \in SUBSET NodeIds
  /\ calls \in Nat
  /\ made \in SUBSET NodeIds
  /\ purged \in SUBSET Clients
  /\ LocksAreHeld

\* Calls without a key never make two live nodes of the same namespace,
\* content and node_type, however many race, whatever else goes on and
\* whichever locks collide: of two such nodes, one was written by add_nodes
\* or update_node.
NoTwins ==
  \A m, n \in made :
    Live(m) /\ Live(n) /\ nodes[m].ns = nodes[n].ns /\ nodes[m].attrs = nodes[n].attrs
    => m = n

\* All calls with the same key get the same node, as long as nobody purges
\* it: whoever inserts first wins, upserts of add_nodes included.
KeyHasOneNode ==
  \A a, b \in answers :
    /\ a.request.key # NoKey
    /\ a.request.ns = b.request.ns /\ a.request.key = b.request.key
    /\ a.node # NoRow /\ b.node # NoRow
    /\ nodes[a.node] # NoRow /\ nodes[b.node] # NoRow
    => a.node = b.node

\* A call with a key fetches the node that took the key or creates it
\* (docs/getting-started/quickstart.md): only a purge of the namespace between
\* its two statements leaves it with neither.
FetchesOrCreates == \A a \in answers : a.node # NoRow \/ a.purged

\* Every call returns, however many wait for the same lock and even when
\* one of those that hold it dies.
CallsReturn == \A c \in Clients : phase[c] # "idle" ~> phase[c] = "idle"
=============================================================================
