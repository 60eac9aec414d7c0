----------------------------- MODULE DbInstall -----------------------------
(***************************************************************************)
(* The database installer: db/install.sh hands one psql script to psql,    *)
(* which starts in template1 and executes the statements one by one, each  *)
(* in a transaction of its own.  ON_ERROR_STOP is not set: psql goes on    *)
(* after a failed statement and exits with 0; only a failed \connect ends  *)
(* the script (and, under set -e, install.sh) with a failure.              *)
(*                                                                         *)
(* The server's workers and its helper are clients of the same database.   *)
(* They write rates into it and, losing a connection, reconnect.  A row is *)
(* told apart only by the run of the installer in whose time it was        *)
(* written.                                                                *)
(***************************************************************************)
EXTENDS Integers, Sequences

CONSTANTS Clients,      \* connections of the workers' and the helper's pools
          MaxRuns       \* bound on the runs of the installer

ASSUME DbInstallAssumption ==
    Clients # {} /\ MaxRuns \in Nat

Databases == {"template1", "web"}
Scripts == {"init", "install", "create", "database", "update"}

VARIABLES
    role,       \* does the user http exist?
    db,         \* the databases: exists, tables, seeded, rows, views
    conns,      \* clients connected to web
    script,     \* the psql script of the last run
    run,        \* runs so far
    pc,         \* statements still to execute, <<>> when psql has ended
    at,         \* the database psql is connected to
    code,       \* exit code of the last run; -1 while it executes
    inUse       \* ghost: the clients its DROP DATABASE found connected

vars == <<role, db, conns, script, run, pc, at, code, inUse>>

Absent == [exists |-> FALSE, tables |-> FALSE, seeded |-> FALSE,
           rows |-> {}, views |-> -1]
Empty == [Absent EXCEPT !.exists = TRUE]

-----------------------------------------------------------------------------
(***************************************************************************)
(* The scripts db/sql/<script>.psql, with what they include.               *)
(***************************************************************************)
db_psql == <<"terminate", "drop", "createdb", "owner">>

create_psql == <<"tables", "seed", "views">>

\* Mutant: init.psql and install.psql without \connect, as create.psql is.
NoConnect(s) ==
    CASE s = "init" -> <<"user">> \o db_psql \o create_psql
      [] s = "install" -> db_psql \o create_psql
      [] s = "create" -> create_psql
      [] s = "database" -> db_psql
      [] s = "update" -> <<"connect", "views">>

\* Mutant: update.psql copied from install.psql, and left so.
UpdateAsInstall(s) ==
    CASE s = "init" -> <<"user">> \o db_psql \o <<"connect">> \o create_psql
      [] s = "create" -> create_psql
      [] s = "database" -> db_psql
      [] OTHER -> db_psql \o <<"connect">> \o create_psql

Program(s) ==
    CASE s = "init" -> <<"user">> \o db_psql \o <<"connect">> \o create_psql
      [] s = "install" -> db_psql \o <<"connect">> \o create_psql
      [] s = "create" -> create_psql
      [] s = "database" -> db_psql
      [] s = "update" -> <<"connect", "views">>

-----------------------------------------------------------------------------
(***************************************************************************)
(* The clients.                                                            *)
(***************************************************************************)
Connect(c) ==
    /\ c \notin conns /\ role /\ db["web"].exists
    /\ conns' = conns \cup {c}
    /\ UNCHANGED <<role, db, script, run, pc, at, code, inUse>>

Disconnect(c) ==
    /\ c \in conns /\ conns' = conns \ {c}
    /\ UNCHANGED <<role, db, script, run, pc, at, code, inUse>>

Publish(c) ==
    /\ c \in conns /\ db["web"].seeded
    /\ db' = [db EXCEPT !["web"].rows = @ \cup {run}]
    /\ UNCHANGED <<role, conns, script, run, pc, at, code, inUse>>

-----------------------------------------------------------------------------
(***************************************************************************)
(* install.sh and psql.                                                    *)
(***************************************************************************)
Invoke(s) ==
    /\ pc = <<>> /\ run < MaxRuns
    /\ script' = s /\ run' = run + 1
    /\ pc' = Program(s) /\ at' = "template1" /\ code' = -1
    /\ inUse' = {}
    /\ UNCHANGED <<role, db, conns>>

\* Mutant: psql stays at its prompt after the script (no -f, no \q).
StaysOn(rest) == FALSE

Exits(rest) == rest = <<>>

\* psql goes on with the next statement; after the last one it exits with 0.
Step ==
    /\ pc' = Tail(pc)
    /\ code' = IF Exits(Tail(pc)) THEN 0 ELSE -1

Doing(s) == pc # <<>> /\ Head(pc) = s

CreateUser ==
    /\ Doing("user") /\ Step
    /\ role' = TRUE         \* an error when it exists
    /\ UNCHANGED <<db, conns, script, run, at, inUse>>

Terminate ==
    /\ Doing("terminate") /\ Step
    /\ conns' = {}
    /\ UNCHANGED <<role, db, script, run, at, inUse>>

\* An error, with nothing dropped, while anybody is connected to web.
Drop ==
    /\ Doing("drop") /\ Step
    /\ db' = IF conns = {} THEN [db EXCEPT !["web"] = Absent] ELSE db
    /\ inUse' = conns
    /\ UNCHANGED <<role, conns, script, run, at>>

\* An error when web exists.
CreateDb ==
    /\ Doing("createdb") /\ Step
    /\ db' = IF db["web"].exists THEN db ELSE [db EXCEPT !["web"] = Empty]
    /\ UNCHANGED <<role, conns, script, run, at, inUse>>

\* ALTER DATABASE ... OWNER and GRANT: errors without the user.
Owner ==
    /\ Doing("owner") /\ Step
    /\ UNCHANGED <<role, db, conns, script, run, at, inUse>>

\* \connect :dbname :username
Reconnect ==
    /\ Doing("connect")
    /\ IF role /\ db["web"].exists
       THEN Step /\ at' = "web"
       ELSE pc' = <<>> /\ code' = 1 /\ at' = at
    /\ UNCHANGED <<role, db, conns, script, run, inUse>>

\* CREATE TABLE: errors when the tables exist.
CreateTables ==
    /\ Doing("tables") /\ Step
    /\ db' = [db EXCEPT ![at].tables = TRUE]
    /\ UNCHANGED <<role, conns, script, run, at, inUse>>

\* The currencies, under fixed ids: errors when they exist.
Seed ==
    /\ Doing("seed") /\ Step
    /\ db' = [db EXCEPT ![at].seeded = @ \/ db[at].tables]
    /\ UNCHANGED <<role, conns, script, run, at, inUse>>

\* CREATE OR REPLACE of the views and routines: errors without the tables.
Views ==
    /\ Doing("views") /\ Step
    /\ db' = [db EXCEPT ![at].views = IF db[at].tables THEN run ELSE @]
    /\ UNCHANGED <<role, conns, script, run, at, inUse>>

-----------------------------------------------------------------------------
\* A host before the first installation, or one that has been in use.
Init ==
    /\ \/ /\ role = FALSE
          /\ db = [d \in Databases |->
                     IF d = "web" THEN Absent ELSE Empty]
       \/ /\ role = TRUE
          /\ db = [d \in Databases |->
                     IF d = "web"
                     THEN [Empty EXCEPT !.tables = TRUE, !.seeded = TRUE,
                                        !.rows = {0}, !.views = 0]
                     ELSE Empty]
    /\ conns \in {{}, IF role THEN Clients ELSE {}}
    /\ script = "update" /\ run = 0 /\ pc = <<>> /\ at = "template1"
    /\ code = 0 /\ inUse = {}

Psql ==
    \/ CreateUser \/ Terminate \/ Drop \/ CreateDb \/ Owner \/ Reconnect
    \/ CreateTables \/ Seed \/ Views

Next ==
    \/ \E s \in Scripts : Invoke(s)
    \/ Psql
    \/ \E c \in Clients : Connect(c) \/ Disconnect(c) \/ Publish(c)

Spec == Init /\ [][Next]_vars

-----------------------------------------------------------------------------
(***************************************************************************)
(* Types of the state; a database that does not exist holds nothing and    *)
(* has no clients, and the installer has an exit code once psql has ended. *)
(***************************************************************************)
TypeOK ==
    /\ role \in BOOLEAN /\ conns \subseteq Clients /\ inUse \subseteq Clients
    /\ script \in Scripts /\ run \in 0 .. MaxRuns
    /\ at \in Databases /\ code \in -1 .. 1
    /\ (code = -1) = (pc # <<>>)
    /\ conns # {} => role /\ db["web"].exists
    /\ \A d \in Databases :
        /\ db[d].rows \subseteq 0 .. MaxRuns /\ db[d].views \in -1 .. MaxRuns
        /\ ~db[d].exists => db[d] = Absent

Ended(scripts) == script \in scripts /\ run > 0 /\ code = 0

(***************************************************************************)
(* "WARNING: [*] All data in database will be lost" (db/install.sh:60):    *)
(* when install.sh exits with 0 after an option marked [*] that rebuilds   *)
(* the database (--init, --install, --database; --create touches another   *)
(* one), no row written before that run is left, and what the option says  *)
(* it creates is there.                                                    *)
(***************************************************************************)
DataLostAsWarned ==
    /\ Ended({"init", "install", "database"}) =>
        db["web"].exists /\ db["web"].rows \subseteq {run}
    /\ Ended({"init", "install"}) =>
        db["web"].tables /\ db["web"].seeded /\ db["web"].views = run

(***************************************************************************)
(* A client that is connected when DROP DATABASE runs is the only thing    *)
(* that defeats the warning: psql executes the statements whether the ones *)
(* before them failed or not, and clients may come and write at any other  *)
(* moment, before pg_terminate_backend and between CREATE DATABASE and the *)
(* end included.                                                           *)
(***************************************************************************)
LostUnlessInUse == inUse = {} => DataLostAsWarned

(***************************************************************************)
(* --update carries no [*]: run on a database in use, with its clients     *)
(* connected and writing, it loses no row, no table and no client.         *)
(***************************************************************************)
UpdateKeepsData ==
    [][script = "update" /\ pc # <<>> =>
        /\ db["web"].rows \subseteq db'["web"].rows
        /\ db["web"].tables => db'["web"].tables
        /\ \E c \in Clients : conns \ {c} \subseteq conns']_vars
=============================================================================
