------------------------------ MODULE MCPurge ------------------------------
(* Small instances of Purge for TLC.                                        *)
EXTENDS Purge

MCPlainInputs == {n \in NodeInput : n.key = NoKey /\ n.vector # EmptyVector}
MCNodePatches == {p \in Patch(NodeFields) : DOMAIN p # {}}
MCEdgeInputs == {[attrs |-> CHOOSE a \in EdgeAttrs : TRUE, valid_from |-> NoTime]}
MCEdgePatches == {p \in Patch(EdgeFields) : DOMAIN p # {}}

\* Clients and identities are interchangeable: no definition orders them.
MCSymmetry == Permutations(Clients) \cup Permutations(NodeIds)
              \cup Permutations(EdgeIds)
=============================================================================
