---------------------------- MODULE Application ----------------------------
(***************************************************************************)
(* The processes of apostol (src/app/main.cpp, src/modules): which modules *)
(* the worker and the helper register when they start, and which of them   *)
(* answers a request.  Workers are alike, so one stands for all.  The      *)
(* master that forks them, the dispatch of a request over the modules and  *)
(* the modules themselves are libapostol's and its submodules'; tests/unit *)
(* says how they behave (test_process_model, test_module, test_pghttp).    *)
(***************************************************************************)
EXTENDS Naturals, Sequences, SequencesExt

Processes == {"worker", "helper"}
ModuleNames == {"heartbeat", "PGHTTP", "WebServer", "PGFetch"}

(***************************************************************************)
(* A configuration: process.helper, the modules that are enabled, and the  *)
(* processes that are given a conninfo.                                    *)
(***************************************************************************)
Configurations ==
    [helper : BOOLEAN, enabled : SUBSET ModuleNames,
     conninfo : SUBSET Processes]

\* The files of www a page may ask for.
www == {"/", "/swagger-ui-bundle.js", "/swagger-ui-standalone-preset.js",
        "/swagger-initializer.js", "/api.yaml"}

VARIABLES settings,    \* the configuration
          up,          \* processes that have started
          modules      \* the modules of each process, in their order

Forked == {"worker"} \cup IF settings.helper THEN {"helper"} ELSE {}

-----------------------------------------------------------------------------
\* AppSettings::populate: a helper that is given none has the worker's.
Conninfo(p) == p \in settings.conninfo \/ "worker" \in settings.conninfo

\* has_db_pool(): setup_db was called.
has_db_pool(p) == Conninfo(p)

If(condition, m) == IF condition THEN <<m>> ELSE <<>>

create_helpers(pool) == If("PGFetch" \in settings.enabled /\ pool, "PGFetch")

create_workers(pool) ==
    If("PGHTTP" \in settings.enabled /\ pool, "PGHTTP") \o <<"WebServer">>

\* Mutant: create_helpers is called before setup_db.
HelpersFirst == create_helpers(FALSE)

on_helper_start == create_helpers(has_db_pool("helper"))

on_worker_start == <<"heartbeat">> \o create_workers(has_db_pool("worker"))

Start(p) ==
    /\ p \in Forked \ up /\ up' = up \cup {p}
    /\ modules' = [modules EXCEPT ![p] = IF p = "helper" THEN on_helper_start
                                                         ELSE on_worker_start]
    /\ UNCHANGED settings

\* All processes go away with their container.
Gone ==
    /\ up' = {} /\ modules' = [p \in Processes |-> <<>>]
    /\ UNCHANGED settings

-----------------------------------------------------------------------------
\* The requests a module answers.
Answers(m, path) ==
    \/ m = "heartbeat" /\ path = "/healthz"
    \/ m = "PGHTTP" /\ path = "/api/v1"
    \/ m = "WebServer" /\ path \in www

\* The modules a request is offered to, up to the first that handles it.
Takers(path) ==
    SelectSeq(modules["worker"],
              LAMBDA m : m \in settings.enabled /\ Answers(m, path))

\* The files a browser gets now.
Served ==
    {f \in www : /\ "worker" \in up
                /\ Takers(f) # <<>> /\ Head(Takers(f)) = "WebServer"}

-----------------------------------------------------------------------------
Working ==
    UNION {ToSet(modules[p]) : p \in up} \cap settings.enabled
=============================================================================
