--------------------------- MODULE MCSessionState ---------------------------
(* Small instances of SessionState for TLC.                                 *)
EXTENDS SessionState, TLC

\* A ttl that is over at once, and one that outlives the next second.
MCTtls == {0, 2}

\* No definition orders any of these.
MCSymmetry == Permutations(Clients) \cup Permutations(Namespaces)
              \cup Permutations(StateKeys)
=============================================================================
