--------------------------- MODULE MCTokenMigration ---------------------------
(***************************************************************************)
(* A small instance of the token migration for TLC.                        *)
(***************************************************************************)
EXTENDS TokenMigration

CONSTANTS admin, ann, bob, migration, old, new
=============================================================================
