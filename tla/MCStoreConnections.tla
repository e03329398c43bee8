------------------------- MODULE MCStoreConnections -------------------------
(***************************************************************************)
(* An instance of StoreConnections for TLC.                                *)
(***************************************************************************)
EXTENDS StoreConnections, TLC

CONSTANTS c1, c2, r1, r2, a1, a2, x1, x2

\* Two processes import, share a mapping profile, or have runs under way.
MCWorkloads ==
  {[calls |-> {"CREATE", "ATTEST", "STAGE", "COMMIT", "RESET"}, ids |-> {x1}],
   [calls |-> {"CREATE", "PROFILE", "ACCEPT", "RESET"}, ids |-> {x1}],
   [calls |-> {"CREATE", "CONVERSE", "EXCERPT", "TRANSITION", "RESUME", "RESET"},
    ids |-> {x1, x2}]}

Interchangeable ==
  Permutations({c1, c2}) \cup Permutations({r1, r2})
    \cup Permutations({a1, a2})
=============================================================================
