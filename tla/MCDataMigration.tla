---------------------------- MODULE MCDataMigration ----------------------------
(***************************************************************************)
(* A small instance of the data migration for TLC.                         *)
(***************************************************************************)
EXTENDS DataMigration
=============================================================================
