--------------------------- MODULE MCGetOrCreate ---------------------------
(* Small instances of GetOrCreate for TLC.                                  *)
EXTENDS GetOrCreate, TLC

\* As many locks as contents, until they run out.
MCHash ==
  LET FirstLock == CHOOSE l \in LockKeys : TRUE
      First == CHOOSE a \in NodeAttrs : TRUE
      OtherLock == CHOOSE l \in LockKeys : LockKeys # {FirstLock} => l # FirstLock
  IN [x \in Namespaces \X NodeAttrs |-> IF x[2] = First THEN FirstLock ELSE OtherLock]

MCPatches == {p \in Patch(NodeFields) : Cardinality(DOMAIN p) = 1}

\* Clients and identities are interchangeable: no definition orders them.
MCSymmetry == Permutations(Clients) \cup Permutations(NodeIds)
=============================================================================
