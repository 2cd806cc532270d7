-------------------------- MODULE MCMySQLReplication --------------------------
(***************************************************************************)
(* Instances of MySQLReplication for TLC.                                  *)
(***************************************************************************)
EXTENDS MySQLReplication
=============================================================================
