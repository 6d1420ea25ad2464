--------------------------- MODULE MCReplication ---------------------------
(* Small instances of Replication for TLC.                                  *)
EXTENDS Replication

\* Nodes start with one content; updates bring in the others.
MCAttrs == CHOOSE a \in NodeAttrs : TRUE
MCNodes == {n \in NodeInput : n.attrs = MCAttrs}

\* A node with a key, or one with an embedding.
MCNodeInputs == {n \in MCNodes : \/ n.key # NoKey /\ n.vector = NoRow
                                 \/ n.key = NoKey /\ n.vector \in Vectors}

MCNodePatches == {p \in Patch(NodeFields) :
                    DOMAIN p # {} /\ \A f \in DOMAIN p : p[f] # MCAttrs[f]}

\* Edges with and without a valid_from.
MCTime == CHOOSE t \in Times : TRUE
MCEdgeInputs == [attrs: {CHOOSE a \in EdgeAttrs : TRUE}, valid_from: {MCTime, NoTime}]
MCEdgePatches == {}

\* The source and the replica share no state: it is enough to let an import run
\* while the source stands still.
ImportsAlone == page # << >> => UNCHANGED vars

\* Until its first event is logged nobody notices a call: let it go on, and draw
\* UUIDs in some fixed order.
BeginsAtOnce == \A c \in Clients : tx[c].phase # "idle" /\ tx[c].rows = {} => tx'[c] # tx[c]

MCRank == CHOOSE rank \in [NodeIds -> 1 .. Cardinality(NodeIds)] :
            \A m, n \in NodeIds : rank[m] = rank[n] => m = n
Drawn == known \cup UNION {tx[c].drawn : c \in Clients}
DrawsInOrder ==
  \A m, n \in NodeIds : n \in Drawn' /\ MCRank[m] < MCRank[n] => m \in Drawn'

\* When nobody is at work it does not matter who calls, and a call that dies
\* before its first event may as well not have been made.
MCFirst == CHOOSE c \in Clients : TRUE
FirstCalls ==
  (\A c \in Clients : tx[c].phase = "idle") => \A c \in Clients \ {MCFirst} : tx'[c] = tx[c]
DiesAtWork ==
  \A c \in Clients : tx[c].phase # "idle" /\ tx'[c].phase = "idle" => tx[c].rows # {}

\* So does an import that is cut off before its first event.
CutsAtWork == interrupts' # interrupts => \E r \in imported : r.id > cursor

\* NOW() is written into edges and nowhere else: other transactions begin at
\* one instant.
TimeMatters(c) ==
  tx'[c].now \in {tx[c].now, NoTime, MCTime} \/ tx[c].phase = "edges"

MCNext == /\ ReplicaNext
          /\ ImportsAlone /\ BeginsAtOnce /\ DrawsInOrder
          /\ FirstCalls /\ DiesAtWork /\ CutsAtWork
          /\ \A c \in Clients : TimeMatters(c)
MCSpec == ReplicaInit /\ [][MCNext]_allVars
MCFollowSpec == MCSpec /\ WF_allVars(Export) /\ WF_allVars(ImportEvent)
=============================================================================
