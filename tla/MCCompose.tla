----------------------------- MODULE MCCompose -----------------------------
(***************************************************************************)
(* Instances of Site: two probes instead of ten, up to three scripts of    *)
(* the operator and two crashes; the configuration of docker/conf, one     *)
(* that gives a conninfo to the worker only, and one with neither a helper *)
(* process nor the modules PGHTTP and PGFetch.                             *)
(***************************************************************************)
EXTENDS Site

Shipped == [helper |-> TRUE, enabled |-> App!ModuleNames,
            conninfo |-> App!Processes]
WorkerDb == [Shipped EXCEPT !.conninfo = {"worker"}]
WebOnly == [helper |-> FALSE, enabled |-> {"heartbeat", "WebServer"},
            conninfo |-> {}]

MCSettings == {Shipped, WorkerDb, WebOnly}
=============================================================================
