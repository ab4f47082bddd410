---------------------------- MODULE MCMigrations ----------------------------
(***************************************************************************)
(* A database of every version, with at most one row in each table, over    *)
(* two starts of the program.                                               *)
(***************************************************************************)
EXTENDS Migrations
=============================================================================
