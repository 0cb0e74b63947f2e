-------------------------- MODULE MCShardMigration --------------------------
(* The instances of ShardMigration: all constants are given in the .cfg files. *)
EXTENDS ShardMigration
=============================================================================
