------------------------------ MODULE Compose ------------------------------
(***************************************************************************)
(* The Docker environment: the containers postgres, pgbouncer and backend  *)
(* of docker-compose.yaml, the entry point of the backend, and the scripts *)
(* docker-up.sh, docker-down.sh and docker-new-database.sh.                *)
(*                                                                         *)
(* depends_on has no condition: it orders the starts of the containers and *)
(* waits for nothing inside them, so all of them start in one step here.   *)
(* The backend waits for PGHOST, which .env sets to pgbouncer.  What the   *)
(* images postgres and pgbouncer do is external: postgres prepares an      *)
(* empty volume and runs db/sql on it before it opens its port; it finds a *)
(* volume that is not empty ready, however far the preparation came.       *)
(* pgbouncer answers pg_isready by itself, postgres up or not.             *)
(***************************************************************************)
EXTENDS Integers

CONSTANTS MaxRetries,   \* the probes of the entry point (10)
          MaxOps,       \* bound on the scripts the operator runs
          MaxCrashes    \* bound on the crashes of containers

ASSUME ComposeAssumption ==
    MaxRetries \in Nat \ {0} /\ MaxOps \in Nat /\ MaxCrashes \in Nat

Containers == {"postgres", "pgbouncer", "backend"}

VARIABLES
    wanted,     \* containers docker keeps running
    postgres,   \* "off", "starting", "loading", "ready"
    pgbouncer,  \* "off", "starting", "ready"
    backend,    \* "off", "waiting", "running"
    retries,    \* entrypoint.sh: $retries
    volume,     \* state of the volume: "none", "partial", "loaded"
    era,        \* volumes removed so far: which database this one is
    pc, code,   \* docker-new-database.sh: its next step, its exit code
    began,      \* era when it began
    ops, crashes

containers == <<postgres, pgbouncer, backend, retries>>
recreate == <<pc, code, began>>
vars == <<wanted, containers, volume, era, recreate, ops, crashes>>

-----------------------------------------------------------------------------
(***************************************************************************)
(* postgres and pgbouncer.                                                 *)
(***************************************************************************)
\* initdb, then /docker-entrypoint-initdb.d, on an empty volume only.
Load ==
    /\ postgres = "starting" /\ volume = "none"
    /\ postgres' = "loading" /\ volume' = "partial"
    /\ UNCHANGED <<wanted, pgbouncer, backend, retries, era, recreate,
                   ops, crashes>>

Loaded ==
    /\ postgres = "loading"
    /\ postgres' = "ready" /\ volume' = "loaded"
    /\ UNCHANGED <<wanted, pgbouncer, backend, retries, era, recreate,
                   ops, crashes>>

Open ==
    /\ postgres = "starting" /\ volume # "none" /\ postgres' = "ready"
    /\ UNCHANGED <<wanted, pgbouncer, backend, retries, volume, era,
                   recreate, ops, crashes>>

Listen ==
    /\ pgbouncer = "starting" /\ pgbouncer' = "ready"
    /\ UNCHANGED <<wanted, postgres, backend, retries, volume, era,
                   recreate, ops, crashes>>

-----------------------------------------------------------------------------
(***************************************************************************)
(* docker/entrypoint.sh, from the loop on; ((retries=retries-1)) has a     *)
(* failing status when the result is 0, and set -e ends the script there.  *)
(***************************************************************************)
\* Mutant: the probes are not counted.
NeverFails(n) == FALSE

ArithmeticFails(n) == n = 0

Probe ==
    /\ backend = "waiting"
    /\ \/ /\ pgbouncer = "ready" /\ backend' = "running"
          /\ UNCHANGED retries
       \/ /\ pgbouncer # "ready" /\ retries' = retries - 1
          /\ backend' = IF ArithmeticFails(retries - 1) THEN "off"
                                                       ELSE "waiting"
    /\ UNCHANGED <<wanted, postgres, pgbouncer, volume, era, recreate, ops,
                   crashes>>

-----------------------------------------------------------------------------
(***************************************************************************)
(* docker: restart: unless-stopped.                                        *)
(***************************************************************************)
\* Mutant: no restart policy for the backend.
NoPolicy(c) == c # "backend"

RestartPolicy(c) == c \in Containers

Restart(c) ==
    /\ c \in wanted /\ RestartPolicy(c)
    /\ \/ /\ c = "postgres" /\ postgres = "off" /\ postgres' = "starting"
          /\ UNCHANGED <<pgbouncer, backend, retries>>
       \/ /\ c = "pgbouncer" /\ pgbouncer = "off" /\ pgbouncer' = "starting"
          /\ UNCHANGED <<postgres, backend, retries>>
       \/ /\ c = "backend" /\ backend = "off" /\ backend' = "waiting"
          /\ retries' = MaxRetries
          /\ UNCHANGED <<postgres, pgbouncer>>
    /\ UNCHANGED <<wanted, volume, era, recreate, ops, crashes>>

Crash ==
    /\ crashes < MaxCrashes /\ crashes' = crashes + 1
    /\ \/ /\ postgres # "off" /\ postgres' = "off"
          /\ UNCHANGED <<pgbouncer, backend>>
       \/ /\ pgbouncer # "off" /\ pgbouncer' = "off"
          /\ UNCHANGED <<postgres, backend>>
       \/ /\ backend # "off" /\ backend' = "off"
          /\ UNCHANGED <<postgres, pgbouncer>>
    /\ UNCHANGED <<wanted, retries, volume, era, recreate, ops>>

-----------------------------------------------------------------------------
(***************************************************************************)
(* The operator's scripts.  docker-up.sh and docker-down.sh may be run     *)
(* while docker-new-database.sh is under way.                              *)
(***************************************************************************)
Stopped ==
    /\ wanted' = {}
    /\ postgres' = "off" /\ pgbouncer' = "off" /\ backend' = "off"
    /\ UNCHANGED retries

docker_up ==
    /\ ops < MaxOps /\ ops' = ops + 1
    /\ wanted' = Containers
    /\ postgres' = "starting" /\ pgbouncer' = "starting"
    /\ backend' = "waiting" /\ retries' = MaxRetries
    /\ UNCHANGED <<volume, era, recreate, crashes>>

docker_down ==
    /\ ops < MaxOps /\ ops' = ops + 1 /\ Stopped
    /\ UNCHANGED <<volume, era, recreate, crashes>>

\* docker-new-database.sh, after the operator's answer: docker-down.sh ...
new_database ==
    /\ pc = "idle" /\ ops < MaxOps /\ ops' = ops + 1 /\ Stopped
    /\ pc' = "rm" /\ code' = -1 /\ began' = era
    /\ UNCHANGED <<volume, era, crashes>>

\* Mutant: a failure of docker volume rm does not end the script.
PressOn == pc' = "up" /\ code' = code

Abort == pc' = "idle" /\ code' = 1

\* ... docker volume rm, an error when there is none or it is in use ...
RemoveVolume ==
    /\ pc = "rm"
    /\ \/ /\ volume = "none" \/ "postgres" \in wanted
          /\ Abort /\ UNCHANGED <<volume, era>>
       \/ /\ volume # "none" /\ "postgres" \notin wanted
          /\ volume' = "none" /\ era' = era + 1
          /\ pc' = "up" /\ code' = code
    /\ UNCHANGED <<wanted, containers, began, ops, crashes>>

\* ... docker compose up -d --force-recreate postgres.
UpPostgres ==
    /\ pc = "up" /\ pc' = "idle" /\ code' = 0
    /\ wanted' = wanted \cup {"postgres"} /\ postgres' = "starting"
    /\ UNCHANGED <<pgbouncer, backend, retries, volume, era, began,
                   ops, crashes>>

-----------------------------------------------------------------------------
Init ==
    /\ wanted = {}
    /\ postgres = "off" /\ pgbouncer = "off" /\ backend = "off"
    /\ retries = MaxRetries
    /\ volume = "none" /\ era = 0
    /\ pc = "idle" /\ code = 0 /\ began = -1
    /\ ops = 0 /\ crashes = 0

Next ==
    \/ Load \/ Loaded \/ Open \/ Listen \/ Probe
    \/ \E c \in Containers : Restart(c)
    \/ Crash
    \/ docker_up \/ docker_down \/ new_database \/ RemoveVolume \/ UpPostgres

Fairness ==
    /\ WF_vars(Load) /\ WF_vars(Loaded) /\ WF_vars(Open) /\ WF_vars(Listen)
    /\ WF_vars(Probe) /\ \A c \in Containers : WF_vars(Restart(c))

Spec == Init /\ [][Next]_vars /\ Fairness

-----------------------------------------------------------------------------
(***************************************************************************)
(* Types of the state.  Only a container docker was told to run runs, and  *)
(* a postgres that is past its start has its volume: none of the scripts   *)
(* takes it away meanwhile.                                                *)
(***************************************************************************)
TypeOK ==
    /\ wanted \subseteq Containers
    /\ postgres \in {"off", "starting", "loading", "ready"}
    /\ pgbouncer \in {"off", "starting", "ready"}
    /\ backend \in {"off", "waiting", "running"}
    /\ retries \in 0 .. MaxRetries /\ (backend = "waiting" => retries > 0)
    /\ volume \in {"none", "partial", "loaded"} /\ era \in 0 .. MaxOps
    /\ pc \in {"idle", "rm", "up"} /\ code \in -1 .. 1
    /\ began \in -1 .. MaxOps
    /\ postgres # "off" => "postgres" \in wanted
    /\ pgbouncer # "off" => "pgbouncer" \in wanted
    /\ backend # "off" => "backend" \in wanted
    /\ postgres \in {"loading", "ready"} => volume # "none"

(***************************************************************************)
(* When the operator leaves all containers up, the backend runs in the     *)
(* end, although its entry point gives up after ten probes and whatever    *)
(* crashed before: docker starts it again until pgbouncer answers.         *)
(***************************************************************************)
BackendRuns ==
    <>[](wanted = Containers) => <>[](backend = "running")

(***************************************************************************)
(* docker-new-database.sh ("Recreate the database?") exits with 0 only if  *)
(* the database it leaves is another one than it found, although other     *)
(* scripts may bring the containers up again in between.                   *)
(***************************************************************************)
NewDatabaseIsNew == code = 0 => era > began
=============================================================================
