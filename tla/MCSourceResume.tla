--------------------------- MODULE MCSourceResume ---------------------------
(***************************************************************************)
(* Instances of SourceResume for TLC.  Records are interchangeable, and so *)
(* are the processes.                                                      *)
(***************************************************************************)
EXTENDS SourceResume, TLC

CONSTANTS x, y, z, p, q

Interchangeable == Permutations({x, y, z}) \cup Permutations({p, q})
=============================================================================
