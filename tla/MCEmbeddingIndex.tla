-------------------------- MODULE MCEmbeddingIndex --------------------------
(* Small instances of EmbeddingIndex for TLC.                               *)
EXTENDS EmbeddingIndex

CONSTANTS n1, n2, n3, n4, m1, m2, k1, k2, x1, x2

\* Two vectors of two dimensions, and models with one sanitized name.
MCDim == (x1 :> 2 @@ x2 :> 3)
MCIndexName == [p \in Models \X {2, 3} |-> <<"m", p[2]>>]

Attrs == CHOOSE a \in NodeAttrs : TRUE
Keyed(k) == [key |-> k, attrs |-> Attrs, model |-> m1, vector |-> NoRow]
Vectored(m, x) == [key |-> NoKey, attrs |-> Attrs, model |-> m, vector |-> x]

MCNodeInputs == {Keyed(k1), Keyed(k2), Vectored(m1, x1), Vectored(m1, x2), Vectored(m2, x1)}
MCNothing == {}

\* Ids are interchangeable: a call draws the first that is free.
MCOrder == <<n1, n2, n3, n4>>
DrawsInOrder(c) ==
  \A i \in 2..4 : MCOrder[i] \in tx'[c].drawn \ tx[c].drawn => ~Fresh(MCOrder[i - 1])

\* Building a batch touches nothing that others see: it is not interleaved.
BuildsAlone(c) == tx[c].phase = "nodes" => tx'[c] # tx[c]

\* A batch of two is of the two keys, of a key and an embedding, or of the
\* embeddings of the two models.
MCBatch(batch) ==
  LET events == {batch[i] : i \in DOMAIN batch}
      keys == {e.key : e \in events \cap NodeCreated}
      stored == {<<e.model, e.vector>> : e \in events \ NodeCreated}
  IN \/ keys = {k1, k2}
     \/ keys = {k1, NoKey} /\ stored = {<<m1, x1>>}
     \/ keys = {NoKey} /\ stored = {<<m1, x1>>, <<m2, x1>>}

MCNext ==
  /\ IndexNext
  /\ \A c \in Clients :
       /\ BuildsAlone(c)
       /\ DrawsInOrder(c)
       /\ Cardinality(tx'[c].drawn) = 2 => MCBatch(tx'[c].batch)

MCSpec == /\ IndexInit
          /\ [][MCNext]_allVars
          /\ \A c \in Clients : WF_allVars(IndexStep(c))
=============================================================================
