------------------------------- MODULE Deploy -------------------------------
(***************************************************************************)
(* The script ./deploy (build, install, restart), run by one or by several *)
(* people or jobs at a time, and the systemd unit auto/unit.service it     *)
(* stops and starts.  Under set -e a command that fails ends the script    *)
(* with a failure where it stands.  A binary is told apart by the version  *)
(* of the sources it was built from; cmake --build is taken to compile     *)
(* whatever changed since it was compiled last, each file at a moment of   *)
(* its own between the beginning of the build and its end.                 *)
(***************************************************************************)
EXTENDS Integers

CONSTANTS Deploys,      \* the runs of ./deploy
          MaxVersion    \* bound on the changes of the sources

ASSUME DeployAssumption == MaxVersion \in Nat

Versions == 0 .. MaxVersion
Options == {"full", "update", "build"}      \* (none), --update, --build-only
Down == -1                                  \* the unit is not active

VARIABLES
    source,         \* version of the sources
    built,          \* version of the binary in BUILD_DIR
    installed,      \* version of /usr/sbin/apostol
    running,        \* version the unit runs, or Down
    enabled,        \* is the unit enabled?
    valid,          \* does apostol -t accept the configuration?
    option, pc,     \* of each run of ./deploy: its option, its next step
    read,           \* version of the sources when its build began
    code,           \* its exit code, -1 while it runs
    found, base,    \* ghosts: the unit and the sources when it began,
    alone           \* and whether no other run has overlapped it

host == <<source, built, installed, running, enabled, valid>>
ghosts == <<option, found, base, alone>>
vars == <<host, pc, code, read, ghosts>>

-----------------------------------------------------------------------------
(***************************************************************************)
(* The steps of a run, in the order of each branch of the script.          *)
(***************************************************************************)
\* Mutant: a full deploy does not stop the service first.
NoStop(o) ==
    CASE o = "full" -> <<"build", "link", "install", "start">>
      [] o = "update" -> <<"stop", "start">>
      [] o = "build" -> <<"build", "link">>

\* Mutant: the service is stopped after the installation.
StopLate(o) ==
    CASE o = "full" -> <<"build", "link", "install", "stop", "start">>
      [] o = "update" -> <<"stop", "start">>
      [] o = "build" -> <<"build", "link">>

StepsOf(o) ==
    CASE o = "full" -> <<"stop", "build", "link", "install", "start">>
      [] o = "update" -> <<"stop", "start">>
      [] o = "build" -> <<"build", "link">>

At(d, step) ==
    pc[d] \in DOMAIN StepsOf(option[d]) /\ StepsOf(option[d])[pc[d]] = step

\* The command succeeded: the next step, or the end of the script.
Continue(d) ==
    /\ pc' = [pc EXCEPT ![d] = @ + 1]
    /\ code' = IF pc[d] + 1 \in DOMAIN StepsOf(option[d])
               THEN code ELSE [code EXCEPT ![d] = 0]
    /\ UNCHANGED ghosts

\* Mutant: without set -e the script goes on after a failed command.
GoOn(d) ==
    /\ pc' = [pc EXCEPT ![d] = @ + 1]
    /\ code' = IF pc[d] + 1 \in DOMAIN StepsOf(option[d])
               THEN code ELSE [code EXCEPT ![d] = 0]
    /\ UNCHANGED ghosts

\* Mutant: the script ends, but reports success.
EndWell(d) ==
    /\ pc' = [pc EXCEPT ![d] = 0] /\ code' = [code EXCEPT ![d] = 0]
    /\ UNCHANGED ghosts

\* set -e
Abort(d) ==
    /\ pc' = [pc EXCEPT ![d] = 0] /\ code' = [code EXCEPT ![d] = 1]
    /\ UNCHANGED ghosts

Active == {d \in Deploys : pc[d] > 0 /\ code[d] = -1}

Begin(d, o) ==
    /\ code[d] = -1 /\ pc[d] = 0
    /\ option' = [option EXCEPT ![d] = o] /\ pc' = [pc EXCEPT ![d] = 1]
    /\ found' = [found EXCEPT ![d] = running]
    /\ base' = [base EXCEPT ![d] = source]
    /\ alone' = [e \in Deploys |->
                   IF e = d THEN Active = {} ELSE alone[e] /\ e \notin Active]
    /\ UNCHANGED <<host, code, read>>

\* systemctl is-active decides; systemctl stop may fail, and may have stopped
\* the service all the same.
service_stop(d) ==
    /\ At(d, "stop")
    /\ \/ running = Down /\ running' = running /\ Continue(d)
       \/ running # Down /\ running' = Down /\ Continue(d)
       \/ running # Down /\ running' \in {running, Down} /\ Abort(d)
    /\ UNCHANGED <<source, built, installed, enabled, valid, read>>

\* cmake --build takes its time: it begins to read the sources ...
build_project(d) ==
    /\ At(d, "build") /\ read' = [read EXCEPT ![d] = source] /\ Continue(d)
    /\ UNCHANGED host

\* ... and writes the binary, or fails.
Link(d) ==
    /\ At(d, "link")
    /\ \/ built' \in read[d] .. source /\ Continue(d)
       \/ built' = built /\ Abort(d)
    /\ UNCHANGED <<source, installed, running, enabled, valid, read>>

\* cmake --install fails without privileges, or half way.
install_project(d) ==
    /\ At(d, "install")
    /\ \/ installed' = built /\ Continue(d)
       \/ installed' \in {installed, built} /\ Abort(d)
    /\ UNCHANGED <<source, built, running, enabled, valid, read>>

\* clear_logs changes nothing modelled here.  systemctl is-enabled decides; to
\* start an active unit changes nothing; systemctl start may fail, and does
\* when ExecStartPre refuses the configuration.
service_start(d) ==
    /\ At(d, "start")
    /\ \/ ~enabled /\ running' = running /\ Continue(d)
       \/ enabled /\ running # Down /\ running' = running /\ Continue(d)
       \/ enabled /\ running = Down /\ valid /\ running' = installed
          /\ Continue(d)
       \/ enabled /\ running' = running /\ Abort(d)
    /\ UNCHANGED <<source, built, installed, enabled, valid, read>>

-----------------------------------------------------------------------------
(***************************************************************************)
(* What happens on the host beside the script.                             *)
(***************************************************************************)
Edit ==
    /\ source < MaxVersion /\ source' = source + 1
    /\ UNCHANGED <<built, installed, running, enabled, valid,
                   pc, code, read, ghosts>>

EditConfig ==
    /\ valid' = ~valid
    /\ UNCHANGED <<source, built, installed, running, enabled,
                   pc, code, read, ghosts>>

\* The service dies: the unit has no Restart=.
Crash ==
    /\ running # Down /\ running' = Down
    /\ UNCHANGED <<source, built, installed, enabled, valid,
                   pc, code, read, ghosts>>

Init ==
    /\ source = 0 /\ built = 0 /\ installed = 0
    /\ running \in {Down, 0} /\ enabled \in BOOLEAN /\ valid \in BOOLEAN
    /\ option = [d \in Deploys |-> "full"] /\ pc = [d \in Deploys |-> 0]
    /\ code = [d \in Deploys |-> -1] /\ read = [d \in Deploys |-> 0]
    /\ found = [d \in Deploys |-> Down] /\ base = [d \in Deploys |-> 0]
    /\ alone = [d \in Deploys |-> TRUE]

Next ==
    \/ Edit \/ EditConfig \/ Crash
    \/ \E d \in Deploys :
        \/ \E o \in Options : Begin(d, o)
        \/ service_stop(d) \/ build_project(d) \/ Link(d)
        \/ install_project(d) \/ service_start(d)

Spec == Init /\ [][Next]_vars

-----------------------------------------------------------------------------
(***************************************************************************)
(* Types of the state; a run exits with 0 exactly past its last step.      *)
(***************************************************************************)
TypeOK ==
    /\ {source, built, installed} \subseteq Versions
    /\ running \in Versions \cup {Down}
    /\ enabled \in BOOLEAN /\ valid \in BOOLEAN
    /\ option \in [Deploys -> Options] /\ pc \in [Deploys -> 0 .. 6]
    /\ code \in [Deploys -> -1 .. 1]
    /\ found \in [Deploys -> Versions \cup {Down}]
    /\ {base, read} \subseteq [Deploys -> Versions]
    /\ alone \in [Deploys -> BOOLEAN]
    /\ \A d \in Deploys :
        (code[d] = 0) = (pc[d] > 0 /\ pc[d] \notin DOMAIN StepsOf(option[d]))

(***************************************************************************)
(* A deploy that exits with 0, and that no other run overlapped, has       *)
(* installed what the sources were when it began, or later, whatever the   *)
(* runs before it left in BUILD_DIR.  Runs that overlap share BUILD_DIR: a *)
(* build that began before an edit may link after one that began later.    *)
(***************************************************************************)
DeployInstallsSources ==
    [][\A d \in Deploys :
        option[d] = "full" /\ code[d] = -1 /\ code'[d] = 0 /\ alone[d] =>
            installed' >= base[d]]_vars

(***************************************************************************)
(* "Deploy apostol - build, install, and restart the service" (deploy:3):  *)
(* when a deploy that no other run overlapped exits with 0, an enabled     *)
(* service runs, and it runs the installed binary.  A run that overlaps it *)
(* may start the service between its stop and its start: then the start of *)
(* the active unit does nothing, and the old binary goes on running.       *)
(***************************************************************************)
DeployRunsInstalled ==
    [][\A d \in Deploys :
        option[d] = "full" /\ code[d] = -1 /\ code'[d] = 0 /\ enabled
        /\ alone[d] => running' = installed']_vars

(***************************************************************************)
(* The binary is not replaced under a service that is running it, unless   *)
(* another run has overlapped the one that replaces it: the script stops   *)
(* the service before cmake --install.                                     *)
(***************************************************************************)
NotReplacedUnderService ==
    [][installed' # installed =>
         running = Down
         \/ \E d \in Deploys : At(d, "install") /\ ~alone[d]]_vars

(***************************************************************************)
(* "--update  Restart service only" (deploy:27): a service that was        *)
(* running when the option was given runs when the script exits with 0.    *)
(***************************************************************************)
UpdateRestarts ==
    [][\A d \in Deploys :
        option[d] = "update" /\ code[d] = -1 /\ code'[d] = 0
        /\ found[d] # Down => running' # Down]_vars
=============================================================================
