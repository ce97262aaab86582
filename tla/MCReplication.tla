---------------------------- MODULE MCReplication ----------------------------
(* Small instances of Replication for TLC. *)
EXTENDS Replication

CONSTANTS a, b

\* All calls go to one server.
OneWriter == (a :> Key) @@ (b :> {})

=============================================================================
