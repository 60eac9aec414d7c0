-------------------------- MODULE InitScriptProofs --------------------------
(***************************************************************************)
(* Proofs about InitScript, for any number of masters, of commands and of  *)
(* polls.                                                                  *)
(*                                                                         *)
(* The inductive invariant follows the master that is in $PID through the  *)
(* command under way: a master gets there by being up, and leaves Up only  *)
(* by a crash or by a stop, which watches the master it signalled.         *)
(***************************************************************************)
EXTENDS InitScript, TLAPS

\* What stands in the files, and the master a command signalled, has been up.
HasBeenUp(m) == m # None => master[m] \notin {"unborn", "starting"}

Files ==
    /\ HasBeenUp(pidfile) /\ HasBeenUp(oldbin) /\ HasBeenUp(target)
    /\ oldbin # None => pidfile # oldbin

\* do_upgrade has sent USR2: it polls for the files, and quits the old master.
Waiting == {"upgrading", "testing", "quitting"}

\* The part of the script each command is in.
Position ==
    /\ pc \in {"idle", "refused", "tested", "reload", "rotate", "start",
               "stop", "stopping", "upgrade"} \cup Waiting
    /\ pc \in {"stop", "stopping"} => cmd \in {"stop", "restart"}
    /\ pc = "start" => cmd \in {"start", "restart"}
    /\ pc \in {"tested", "reload", "rotate"} => cmd # "restart"
    /\ pc \in {"upgrade"} \cup Waiting => cmd = "upgrade"
    /\ pc = "upgrade" => target = None

\* A stop has its target, and only its target is in $PID without being up.
Stopping ==
    /\ pidfile # None /\ master[pidfile] = "quitting" =>
          pc = "stopping" /\ target = pidfile
    /\ pc = "stop" => stage = 1
    /\ pc = "stopping" =>
          /\ target # None
          /\ stage = LastStage => master[target] \in {"killed", "gone"}
          /\ Alive(pidfile) => pidfile = target \/ pidfile \in Up

\* A restart keeps the configuration it tested, and finds $PID free.
Restarting ==
    cmd = "restart" =>
        /\ pc \in {"stop", "stopping", "start"} => config \/ edited
        /\ pc = "start" /\ Alive(pidfile) => pidfile \in Up
        /\ pc = "refused" => (served => Up # {} \/ crashed)

\* An upgrade finds in $PID nothing, a master that is up, or one of hung; in
\* .oldbin nothing, a master that is up, or one that was there before it; and
\* what it quits, after both tests, is not the only master that is up.
Upgrading ==
    /\ pc = "upgrade" => \A m \in Masters : master[m] = "killed" => m \in hung
    /\ pc \in Waiting =>
          /\ target # None
          /\ pidfile # None =>
                \/ pidfile \in Up \/ crashed
                \/ pidfile = target /\ target \in hung
    /\ pc \in {"upgrade"} \cup Waiting /\ oldbin # None =>
          oldbin \in Up \/ crashed \/ leftover
    /\ pc = "testing" => oldbin \in Up \/ crashed \/ leftover
    /\ pc = "quitting" =>
          \/ \E m, n \in Up : m # n
          \/ crashed \/ leftover \/ target \in hung

ScriptInv ==
    /\ TypeOK /\ Files /\ Position /\ Stopping /\ Restarting /\ Upgrading
    /\ RestartKeepsService /\ UpgradeKeepsService

-----------------------------------------------------------------------------
(***************************************************************************)
(* The master to be started next is one that was not started yet; no       *)
(* master stands for an empty file.                                        *)
(***************************************************************************)
LEMMA NextIsUnborn == ASSUME Unborn # {} PROVE Next1 \in Unborn
BY DEF Next1

LEMMA NoneIsNoMaster == None \notin Masters
BY DEF None, Masters

(***************************************************************************)
(* The first state satisfies the inductive invariant.                      *)
(***************************************************************************)
LEMMA ScriptInit == Init => ScriptInv
<1> SUFFICES ASSUME Init PROVE ScriptInv
  OBVIOUS
<1> USE InitScriptAssumption DEF Init, None
<1>1. TypeOK
  <2>1. {config, served, leftover, crashed, edited} \subseteq BOOLEAN
    BY Zenon
  <2>2. QED BY <2>1 DEF TypeOK, Masters, Commands
<1>2. Files /\ Position BY DEF Files, HasBeenUp, Position, Waiting
<1>3. Stopping /\ Restarting /\ Upgrading
  BY DEF Stopping, Restarting, Upgrading, Waiting
<1>4. RestartKeepsService /\ UpgradeKeepsService
  BY DEF RestartKeepsService, UpgradeKeepsService
<1>5. QED BY <1>1, <1>2, <1>3, <1>4 DEF ScriptInv

(***************************************************************************)
(* What a master does at its own pace keeps it.                            *)
(***************************************************************************)
LEMMA MasterStep ==
    ASSUME ScriptInv, NEW m \in Masters,
           WritePid(m) \/ HandleUsr2(m) \/ Exit(m) \/ Die(m)
    PROVE  ScriptInv'
<1> USE InitScriptAssumption, NoneIsNoMaster
    DEF ScriptInv, TypeOK, Files, HasBeenUp, Position, Stopping, Restarting,
        Upgrading, RestartKeepsService, UpgradeKeepsService, Up, Alive,
        Working, LastStage, Waiting, script, files, accidents, ghosts
<1>1. CASE WritePid(m) BY <1>1 DEF WritePid
<1>2. CASE HandleUsr2(m)
  <2>1. Next1 \in Masters /\ master[Next1] = "unborn"
    BY <1>2, NextIsUnborn DEF HandleUsr2, Unborn
  <2>2. QED BY <1>2, <2>1 DEF HandleUsr2
<1>3. CASE Exit(m) BY <1>3 DEF Exit
<1>4. CASE Die(m)
  <2>1. /\ Alive(m) /\ master' = [master EXCEPT ![m] = "gone"]
        /\ UNCHANGED <<config, files, usr2, script, edited>>
    BY <1>4 DEF Die
  <2>2. CASE master[m] = "killed" /\ crashed' = crashed BY <2>1, <2>2
  <2>3. CASE crashed' = TRUE
    <3>1. TypeOK' BY <2>1, <2>3
    <3>2. QED BY <2>1, <2>3, <3>1
  <2>4. QED
    <3>1. crashed' = (crashed \/ master[m] # "killed") BY <1>4 DEF Die
    <3>2. QED BY <2>2, <2>3, <3>1, Zenon DEF ScriptInv, TypeOK
<1>5. QED BY <1>1, <1>2, <1>3, <1>4

(***************************************************************************)
(* Every step of the script keeps it.                                      *)
(***************************************************************************)
LEMMA ScriptStep == ASSUME ScriptInv, Script PROVE ScriptInv'
<1> USE InitScriptAssumption, NoneIsNoMaster
    DEF ScriptInv, TypeOK, Files, HasBeenUp, Position, Stopping, Restarting,
        Upgrading, RestartKeepsService, UpgradeKeepsService, Up, Alive,
        Working, LastStage, Waiting, script, files, accidents, ghosts, Finish, Goto
<1>1. CASE Refused BY <1>1 DEF Refused
<1>2. CASE Tested BY <1>2 DEF Tested
<1>3. CASE do_reload BY <1>3 DEF do_reload
<1>4. CASE do_rotate BY <1>4 DEF do_rotate
<1>5. CASE do_start
  <2>1. CASE Unborn # {} /\ master' = [master EXCEPT ![Next1] = "starting"]
    <3>1. Next1 \in Masters /\ master[Next1] = "unborn"
      BY <2>1, NextIsUnborn DEF Unborn
    <3>2. QED BY <1>5, <2>1, <3>1 DEF do_start, StartReport
  <2>2. CASE Alive(pidfile) /\ UNCHANGED master
    BY <1>5, <2>2 DEF do_start, StartReport
  <2>3. CASE ~Alive(pidfile) /\ ~config /\ UNCHANGED master
    BY <1>5, <2>3 DEF do_start, StartReport
  <2>4. QED BY <1>5, <2>1, <2>2, <2>3 DEF do_start
<1>6. CASE do_stop
  <2>1. CASE ~Alive(pidfile) BY <1>6, <2>1 DEF do_stop, Stopped
  <2>2. CASE Alive(pidfile)
    BY <1>6, <2>2 DEF do_stop, Signalled, Signals
  <2>3. QED BY <2>1, <2>2
<1>7. CASE StopRetry BY <1>7 DEF StopRetry, Stopped, Signalled, Signals
<1>8. CASE StopDone BY <1>8 DEF StopDone, Stopped
<1>9. CASE do_upgrade BY <1>9 DEF do_upgrade
<1>10. CASE TestOld
  <2>1. CASE OldWritten BY <1>10, <2>1 DEF TestOld, OldWritten
  <2>2. CASE ~OldWritten
    BY <1>10, <2>2 DEF TestOld, OldWritten, Poll, GivesUp
  <2>3. QED BY <2>1, <2>2
<1>11. CASE TestNew
  <2>1. CASE NewWritten BY <1>11, <2>1 DEF TestNew, NewWritten
  <2>2. CASE ~NewWritten
    BY <1>11, <2>2 DEF TestNew, NewWritten, Poll, GivesUp
  <2>3. QED BY <2>1, <2>2
<1>12. CASE QuitOld BY <1>12 DEF QuitOld, Signalled
<1>13. QED
  BY <1>1, <1>2, <1>3, <1>4, <1>5, <1>6, <1>7, <1>8, <1>9, <1>10, <1>11,
     <1>12 DEF Script

(***************************************************************************)
(* A new command, and an edit of the configuration, keep it.               *)
(***************************************************************************)
LEMMA CommandStep ==
    ASSUME ScriptInv, EditConfig \/ \E c \in Commands : Invoke(c)
    PROVE  ScriptInv'
<1> USE InitScriptAssumption, NoneIsNoMaster
    DEF ScriptInv, TypeOK, Files, HasBeenUp, Position, Stopping, Restarting,
        Upgrading, RestartKeepsService, UpgradeKeepsService, Up, Alive,
        Working, LastStage, Waiting, script, files, accidents, ghosts
<1>1. CASE EditConfig BY <1>1 DEF EditConfig
<1>2. ASSUME NEW c \in Commands, Invoke(c) PROVE ScriptInv'
  <2>1. served' \in BOOLEAN /\ (served' => Up # {})
    <3>1. served' = (Up # {}) BY <1>2 DEF Invoke
    <3>2. QED BY <3>1, Zenon
  <2>2. crashed' \in BOOLEAN /\ edited' \in BOOLEAN /\ leftover' \in BOOLEAN
        /\ (leftover' <=> oldbin # None /\ oldbin \notin Up)
    BY <1>2, Zenon DEF Invoke
  <2>3. pc' = FirstStep(c) /\ cmd' = c /\ runs' = runs + 1 /\ runs < MaxRuns
        /\ stage' = 1 /\ cnt' = 0 /\ target' = None /\ ret' = -1
        /\ report' = -1 /\ hung' = {m \in Masters : master[m] = "killed"}
        /\ pc = "idle" /\ UNCHANGED <<config, master, files, usr2>>
    BY <1>2 DEF Invoke
  <2>4. TypeOK' BY <2>1, <2>2, <2>3 DEF Commands
  <2>5. Files' /\ Position' BY <2>3 DEF FirstStep, Commands
  <2>6. Stopping' /\ Upgrading' BY <2>2, <2>3 DEF FirstStep, Commands
  <2>7. Restarting' BY <2>1, <2>3 DEF FirstStep, Commands
  <2>8. RestartKeepsService' /\ UpgradeKeepsService' BY <2>1, <2>3
  <2>9. QED BY <2>4, <2>5, <2>6, <2>7, <2>8
<1>3. QED BY <1>1, <1>2

(***************************************************************************)
(* The inductive invariant holds in every state.                           *)
(***************************************************************************)
THEOREM ScriptInvariant == Spec => []ScriptInv
<1>1. ScriptInv /\ [Next]_vars => ScriptInv'
  <2> SUFFICES ASSUME ScriptInv, [Next]_vars PROVE ScriptInv'
    OBVIOUS
  <2>1. CASE UNCHANGED vars
    BY <2>1 DEF vars, accidents, ghosts, Waiting, script, files, ScriptInv, TypeOK, Files, HasBeenUp,
       Position, Stopping, Restarting, Upgrading, RestartKeepsService,
       UpgradeKeepsService, Up, Alive, Working
  <2>2. QED BY <2>1, MasterStep, ScriptStep, CommandStep DEF Next
<1>2. QED BY <1>1, ScriptInit, PTL DEF Spec

(***************************************************************************)
(* Types of the state.                                                     *)
(***************************************************************************)
THEOREM TypeCorrect == Spec => []TypeOK
<1>1. ScriptInv => TypeOK BY DEF ScriptInv
<1>2. QED BY <1>1, ScriptInvariant, PTL

(***************************************************************************)
(* restart on a host whose master is up leaves a master running, unless a  *)
(* master crashes, the configuration is edited meanwhile, or the old       *)
(* master outlives the whole of STOP_SCHEDULE.                             *)
(***************************************************************************)
THEOREM RestartCorrect == Spec => []RestartKeepsService
<1>1. ScriptInv => RestartKeepsService BY DEF ScriptInv
<1>2. QED BY <1>1, ScriptInvariant, PTL

(***************************************************************************)
(* upgrade never takes the last master that is up, however the masters     *)
(* move between its tests and its QUIT, unless a master crashes, the one   *)
(* it signalled had outlived KILL before it, or .oldbin held one that was  *)
(* no longer up when the command was given.                                *)
(***************************************************************************)
THEOREM UpgradeCorrect == Spec => []UpgradeKeepsService
<1>1. ScriptInv => UpgradeKeepsService BY DEF ScriptInv
<1>2. QED BY <1>1, ScriptInvariant, PTL
=============================================================================
