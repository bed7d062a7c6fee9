-------------------------- MODULE MCConnectionPool -------------------------
(* ConnectionPool with a few streams and two upstream addresses.           *)
EXTENDS ConnectionPool
=============================================================================
