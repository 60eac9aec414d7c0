---------------------------- MODULE MCDbInstall ----------------------------
(***************************************************************************)
(* Instances of DbInstall: two clients of the database, two runs.          *)
(***************************************************************************)
EXTENDS DbInstall

CONSTANTS c1, c2

MCClients == {c1, c2}
=============================================================================
