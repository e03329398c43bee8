---------------------------- MODULE MCMigrations ----------------------------
(***************************************************************************)
(* Three processes that start with a new file, each as often as it likes.  *)
(***************************************************************************)
EXTENDS Migrations

=============================================================================
