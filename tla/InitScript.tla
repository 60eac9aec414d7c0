----------------------------- MODULE InitScript -----------------------------
(***************************************************************************)
(* The init script auto/daemon and the master processes it starts, stops   *)
(* and upgrades through the files $PID and $PID.oldbin.  The script is     *)
(* sequential; the masters, which run on their own, and their reaction to  *)
(* the signals are taken from what the script expects of them (the sources *)
(* of the master are not in this repository): on USR2 a master renames its *)
(* pid file to .oldbin and starts a new master, which writes $PID; on QUIT *)
(* or TERM it exits, when it likes, and removes its pid file; KILL, or a   *)
(* crash, leaves the file behind.  A pid is never used twice.              *)
(*                                                                         *)
(* Every reading of a file by the script, by test or by start-stop-daemon, *)
(* is a step of its own: masters move between any two of them.             *)
(***************************************************************************)
EXTENDS Integers, FiniteSets

CONSTANTS MaxMasters,   \* bound on the masters ever started
          MaxRuns,      \* bound on the invocations of the script
          MaxPolls      \* polls of do_upgrade before it gives up (10)

ASSUME InitScriptAssumption ==
    MaxMasters \in Nat \ {0} /\ MaxRuns \in Nat /\ MaxPolls \in Nat

Masters == 1 .. MaxMasters
None == 0               \* no file, or an empty one
Commands == {"start", "stop", "restart", "reload", "configtest", "rotate",
             "upgrade"}
Signals == <<"QUIT", "TERM", "KILL">>    \* STOP_SCHEDULE

VARIABLES
    config,             \* is /etc/apostol's configuration valid?
    master,             \* "unborn", "starting", "up", "quitting", "killed", "gone"
    pidfile, oldbin,    \* contents of $PID and $PID.oldbin
    usr2,               \* masters with a USR2 they have not handled
    pc, cmd, runs,      \* the script: where it is, its $1, invocations so far
    stage, cnt,         \* position in STOP_SCHEDULE, polls of do_upgrade
    target,             \* the master the command signalled first
    ret, report,        \* do_*'s return value, log_end_msg's argument
    served, hung,       \* ghosts: was a master up when the command was given,
                        \* which masters were still there after KILL, and did
    leftover,           \* .oldbin hold one that was no longer up?
    crashed, edited     \* has a master crashed, or config been edited, since?

files == <<pidfile, oldbin>>
ghosts == <<served, hung, leftover>>
script == <<pc, cmd, runs, stage, cnt, target, ret, report, ghosts>>
accidents == <<crashed, edited>>
vars == <<config, master, files, usr2, script, accidents>>

Alive(m) == m # None /\ master[m] \in {"starting", "up", "quitting", "killed"}
Up == {m \in Masters : master[m] = "up"}
Unborn == {m \in Masters : master[m] = "unborn"}
Next1 == CHOOSE m \in Unborn : TRUE

-----------------------------------------------------------------------------
(***************************************************************************)
(* The masters.                                                            *)
(***************************************************************************)
WritePid(m) ==
    /\ master[m] = "starting"
    /\ master' = [master EXCEPT ![m] = "up"] /\ pidfile' = m
    /\ UNCHANGED <<config, oldbin, usr2, script, accidents>>

HandleUsr2(m) ==
    /\ master[m] = "up" /\ m \in usr2 /\ Unborn # {}
    /\ usr2' = usr2 \ {m}
    /\ oldbin' = m /\ pidfile' = IF pidfile = m THEN None ELSE pidfile
    /\ master' = [master EXCEPT ![Next1] =
                    IF config THEN "starting" ELSE "gone"]
    /\ UNCHANGED <<config, script, accidents>>

Exit(m) ==
    /\ master[m] = "quitting"
    /\ master' = [master EXCEPT ![m] = "gone"]
    /\ pidfile' = IF pidfile = m THEN None ELSE pidfile
    /\ oldbin' = IF oldbin = m THEN None ELSE oldbin
    /\ UNCHANGED <<config, usr2, script, accidents>>

\* KILL, or a crash; the pid file stays behind.
Die(m) ==
    /\ Alive(m)
    /\ master' = [master EXCEPT ![m] = "gone"]
    /\ crashed' = (crashed \/ master[m] # "killed")
    /\ UNCHANGED <<config, files, usr2, script, edited>>

EditConfig ==
    /\ config' = ~config /\ edited' = TRUE
    /\ UNCHANGED <<master, files, usr2, script, crashed>>

-----------------------------------------------------------------------------
(***************************************************************************)
(* The script.                                                             *)
(***************************************************************************)
Finish(r, code) ==
    /\ pc' = "idle" /\ ret' = r /\ report' = code
    /\ UNCHANGED <<cmd, runs, stage, cnt, target, ghosts>>

Goto(l) ==
    /\ pc' = l
    /\ UNCHANGED <<cmd, runs, stage, cnt, target, ret, report, ghosts>>

\* Mutant: restart does not test the configuration first.
Untested(c) ==
    CASE c = "restart" -> "stop"
      [] c = "reload" -> IF config THEN "reload" ELSE "refused"
      [] c = "configtest" -> IF config THEN "tested" ELSE "refused"
      [] OTHER -> c

FirstStep(c) ==
    CASE c = "restart" -> IF config THEN "stop" ELSE "refused"
      [] c = "reload" -> IF config THEN "reload" ELSE "refused"
      [] c = "configtest" -> IF config THEN "tested" ELSE "refused"
      [] OTHER -> c

Invoke(c) ==
    /\ pc = "idle" /\ runs < MaxRuns
    /\ pc' = FirstStep(c) /\ cmd' = c /\ runs' = runs + 1
    /\ stage' = 1 /\ cnt' = 0 /\ target' = None
    /\ ret' = -1 /\ report' = -1
    /\ served' = (Up # {}) /\ hung' = {m \in Masters : master[m] = "killed"}
    /\ leftover' = (oldbin # None /\ oldbin \notin Up)
    /\ crashed' = FALSE /\ edited' = FALSE
    /\ UNCHANGED <<config, master, files, usr2>>

\* restart, reload: a configuration error ends the script with a failure.
Refused ==
    /\ pc = "refused" /\ Finish(-1, 1)
    /\ UNCHANGED <<config, master, files, usr2, accidents>>

Tested ==
    /\ pc = "tested" /\ Finish(0, 0)
    /\ UNCHANGED <<config, master, files, usr2, accidents>>

\* do_reload returns 0 whether or not there was a master to signal.
do_reload ==
    /\ pc = "reload" /\ Finish(0, 0)
    /\ UNCHANGED <<config, master, files, usr2, accidents>>

\* do_rotate: the same, with USR1.
do_rotate ==
    /\ pc = "rotate" /\ Finish(0, 0)
    /\ UNCHANGED <<config, master, files, usr2, accidents>>

\* What start and restart report for do_start's result.
StartReport(r) == IF r = 0 \/ (cmd = "start" /\ r = 1) THEN 0 ELSE 1

do_start ==
    /\ pc = "start"
    /\ \/ /\ Alive(pidfile) /\ Finish(1, StartReport(1))
          /\ UNCHANGED master
       \/ /\ ~Alive(pidfile) /\ ~config /\ Finish(2, StartReport(2))
          /\ UNCHANGED master
       \/ /\ ~Alive(pidfile) /\ config /\ Unborn # {}
          /\ master' = [master EXCEPT ![Next1] = "starting"]
          /\ Finish(0, StartReport(0))
    /\ UNCHANGED <<config, files, usr2, accidents>>

\* The end of do_stop: restart goes on with do_start, unless it failed.
Stopped(r) ==
    IF cmd = "restart" /\ r \in {0, 1} THEN Goto("start")
    ELSE Finish(r, IF r \in {0, 1} THEN 0 ELSE 1)

Signalled(m, sig) ==
    [master EXCEPT ![m] = IF sig = "KILL" THEN "killed" ELSE "quitting"]

do_stop ==
    /\ pc = "stop"
    /\ \/ /\ ~Alive(pidfile) /\ Stopped(1)
          /\ UNCHANGED master
       \/ /\ Alive(pidfile)
          /\ master' = Signalled(pidfile, Signals[1])
          /\ pc' = "stopping" /\ target' = pidfile
          /\ UNCHANGED <<cmd, runs, stage, cnt, ret, report, ghosts>>
    /\ UNCHANGED <<config, files, usr2, accidents>>

\* Mutant: the schedule ends before KILL.
NoKill == 2

LastStage == 3

\* Five seconds pass and the process is still there: the next signal.
StopRetry ==
    /\ pc = "stopping" /\ Alive(target)
    /\ \/ /\ stage < LastStage
          /\ stage' = stage + 1
          /\ master' = Signalled(target, Signals[stage + 1])
          /\ UNCHANGED <<pc, cmd, runs, cnt, target, ret, report, ghosts>>
       \/ /\ stage = LastStage /\ Stopped(2)
          /\ UNCHANGED master
    /\ UNCHANGED <<config, files, usr2, accidents>>

StopDone ==
    /\ pc = "stopping" /\ ~Alive(target) /\ Stopped(0)
    /\ UNCHANGED <<config, master, files, usr2, accidents>>

\* do_upgrade; the upgrade command reports success for every result.
do_upgrade ==
    /\ pc = "upgrade"
    /\ \/ /\ ~Alive(pidfile) /\ Finish(1, 0)
          /\ UNCHANGED usr2
       \/ /\ Alive(pidfile)
          /\ usr2' = usr2 \cup {pidfile} /\ target' = pidfile
          /\ pc' = "upgrading"
          /\ UNCHANGED <<cmd, runs, stage, cnt, ret, report, ghosts>>
    /\ UNCHANGED <<config, master, files, accidents>>

\* Mutant: the new master's pid file is not waited for.
NotAwaited == TRUE

OldWritten == oldbin # None
NewWritten == pidfile # None

\* Mutant: do_upgrade polls for ever.
NeverGivesUp(n) == FALSE

GivesUp(n) == n > MaxPolls

\* One more second, and both files again, or the end.
Poll ==
    IF GivesUp(cnt + 1)
    THEN Finish(2, 0)
    ELSE /\ pc' = "upgrading" /\ cnt' = cnt + 1
         /\ UNCHANGED <<cmd, runs, stage, target, ret, report, ghosts>>

TestOld ==
    /\ pc = "upgrading" /\ IF OldWritten THEN Goto("testing") ELSE Poll
    /\ UNCHANGED <<config, master, files, usr2, accidents>>

TestNew ==
    /\ pc = "testing" /\ IF NewWritten THEN Goto("quitting") ELSE Poll
    /\ UNCHANGED <<config, master, files, usr2, accidents>>

\* start-stop-daemon reads $PID.oldbin again, whatever it holds by now.
QuitOld ==
    /\ pc = "quitting"
    /\ IF Alive(oldbin)
       THEN master' = Signalled(oldbin, "QUIT") /\ Finish(0, 0)
       ELSE UNCHANGED master /\ Finish(3, 0)
    /\ UNCHANGED <<config, files, usr2, accidents>>

-----------------------------------------------------------------------------
Init ==
    /\ config = TRUE
    /\ master = [m \in Masters |-> "unborn"]
    /\ pidfile = None /\ oldbin = None /\ usr2 = {}
    /\ pc = "idle" /\ cmd = "configtest" /\ runs = 0
    /\ stage = 1 /\ cnt = 0 /\ target = None
    /\ ret = -1 /\ report = -1 /\ served = FALSE /\ hung = {}
    /\ leftover = FALSE /\ crashed = FALSE /\ edited = FALSE

Script ==
    \/ Refused \/ Tested \/ do_reload \/ do_rotate \/ do_start \/ do_stop
    \/ StopRetry \/ StopDone \/ do_upgrade
    \/ TestOld \/ TestNew \/ QuitOld

Next ==
    \/ EditConfig \/ \E c \in Commands : Invoke(c)
    \/ Script
    \/ \E m \in Masters : WritePid(m) \/ HandleUsr2(m) \/ Exit(m) \/ Die(m)

Fairness ==
    /\ WF_vars(Script)
    /\ \A m \in Masters : WF_vars(Die(m) /\ master[m] = "killed")

Spec == Init /\ [][Next]_vars /\ Fairness

-----------------------------------------------------------------------------
(***************************************************************************)
(* Types of the state.                                                     *)
(***************************************************************************)
TypeOK ==
    /\ {config, served, leftover, crashed, edited} \subseteq BOOLEAN
    /\ master \in [Masters -> {"unborn", "starting", "up", "quitting",
                               "killed", "gone"}]
    /\ {pidfile, oldbin, target} \subseteq Masters \cup {None}
    /\ usr2 \subseteq Masters /\ hung \subseteq Masters
    /\ cmd \in Commands /\ runs \in 0 .. MaxRuns
    /\ stage \in 1 .. 3 /\ cnt \in 0 .. MaxPolls
    /\ ret \in -1 .. 3 /\ report \in -1 .. 1

Working == {m \in Masters : master[m] \in {"starting", "up"}}

(***************************************************************************)
(* restart on a host whose master is up leaves a master running, whatever  *)
(* the configuration, which is tested before the old master is stopped;    *)
(* except when a master crashes or the configuration is edited while it    *)
(* runs, or when the old master outlives all of STOP_SCHEDULE, where       *)
(* restart gives up (do_stop returned 2).                                  *)
(***************************************************************************)
RestartKeepsService ==
    (/\ cmd = "restart" /\ pc = "idle" /\ served /\ report # -1
     /\ ~(stage = LastStage /\ ret = 2))
    => Working # {} \/ crashed \/ edited

(***************************************************************************)
(* upgrade never takes the last master that is up, although it tests one   *)
(* file after the other and the QUIT goes to what .oldbin holds after      *)
(* that: by then two masters are up, and only one of them is told to quit. *)
(* It may take the last one when a master crashes; when $PID held a master *)
(* that had outlived the KILL of an earlier stop; and when .oldbin held a  *)
(* master that drains, or a dead one, from an earlier upgrade: the test    *)
(* passes at once, the master in $PID may then handle its USR2 and move to *)
(* .oldbin, and be told to quit before its successor is up.                *)
(***************************************************************************)
UpgradeKeepsService ==
    cmd = "upgrade" /\ served /\ target \notin hung /\ ~leftover
    => Up # {} \/ crashed

(***************************************************************************)
(* stop and restart get rid of the master they found, be it hung: the      *)
(* schedule ends with KILL.                                                *)
(***************************************************************************)
StopWins ==
    \A m \in Masters :
        (pc = "stopping" /\ target = m) ~> (master[m] = "gone")

(***************************************************************************)
(* "Everything is ready, gracefully stop the old master" (auto/daemon:116):*)
(* when do_upgrade returns 0, the master it sent USR2 no longer serves.    *)
(***************************************************************************)
UpgradeStopsOld ==
    cmd = "upgrade" /\ pc = "idle" /\ ret = 0 => master[target] # "up"
=============================================================================
