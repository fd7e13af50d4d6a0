----------------------------- MODULE MCMigrations -----------------------------
(* A small instance of Migrations: the server, the seed and a second start of  *)
(* the server; three levels that unlock two tools, so that two may share one.  *)
EXTENDS Migrations
=============================================================================
