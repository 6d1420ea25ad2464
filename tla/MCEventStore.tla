---------------------------- MODULE MCEventStore ----------------------------
(* Small instances of EventStore for TLC.                                   *)
EXTENDS EventStore

\* Every node a caller can describe, with and without an embedding.
MCNodeInputs == [key: Keys \cup {NoKey}, attrs: NodeAttrs, model: Models,
                 vector: Vectors \cup {NoRow}]

\* One value per column is enough where contents do not matter.
MCPlainInputs == {n \in MCNodeInputs : n.key = NoKey /\ n.vector = NoRow}

MCNodePatches == {p \in Patch(NodeFields) : Cardinality(DOMAIN p) = 1}
MCEdgeInputs == {[attrs |-> CHOOSE a \in EdgeAttrs : TRUE, valid_from |-> NoTime]}
MCEdgePatches == {p \in Patch(EdgeFields) : Cardinality(DOMAIN p) = 1}

\* NOW() is written into edges and nowhere else: other transactions begin at
\* one instant.
MCTime == CHOOSE t \in Times : TRUE
TimeMatters(c) ==
  tx'[c].now \in {tx[c].now, NoTime, MCTime} \/ tx[c].phase = "edges"

MCNext == \E c \in Clients :
            \/ AddNodes(c) \/ AddEdges(c) \/ UpdateNode(c) \/ RetractNode(c)
            \/ RetractEdge(c) \/ MergeNodes(c) \/ ApplyEvent(c)
            \/ InsertEvent(c) /\ TimeMatters(c)
            \/ Scan(c) \/ Execute(c) \/ Commit(c) \/ Fail(c)
            \/ DeadlockVictim(c) \/ Crash(c)
MCSpec == Init /\ [][MCNext]_vars

\* Clients and identities are interchangeable: no definition orders them.
MCSymmetry == Permutations(Clients) \cup Permutations(NodeIds)
              \cup Permutations(EdgeIds)
=============================================================================
