---------------------------- MODULE MCDeletions ----------------------------
(***************************************************************************)
(* An instance of Deletions for TLC: windows that meet, overlap, end inside*)
(* a second, and one that is too long.                                     *)
(***************************************************************************)
EXTENDS Deletions, TLC

CONSTANTS x, p, q

MCWindows == {<<0, 3>>, <<2, 4>>, <<0, 5>>}

Interchangeable == Permutations({p, q})

=============================================================================
