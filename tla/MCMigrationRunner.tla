--------------------------- MODULE MCMigrationRunner ---------------------------
(* Model-checking instance of MigrationRunner.                             *)
EXTENDS MigrationRunner
=============================================================================
