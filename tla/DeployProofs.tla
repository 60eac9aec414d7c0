---------------------------- MODULE DeployProofs ----------------------------
(***************************************************************************)
(* Proofs about Deploy, for any number of runs of ./deploy and of changes  *)
(* of the sources.                                                         *)
(***************************************************************************)
EXTENDS Deploy, TLAPS

\* Sources only move forward: what a full run has read, linked and installed
\* while it is the only one.
Progress ==
    \A d \in Deploys :
        /\ base[d] <= source /\ read[d] <= source
        /\ option[d] = "full" /\ alone[d] /\ d \in Active =>
              /\ pc[d] >= 3 => base[d] <= read[d]
              /\ pc[d] >= 4 => base[d] <= built
              /\ pc[d] >= 5 => base[d] <= installed

\* A run that none has overlapped is the only one under way.
AloneMeans ==
    \A d \in Deploys : d \in Active /\ alone[d] => Active = {d}

\* A full run on its own keeps the service down from its stop to its start.
DownBetween ==
    \A d \in Deploys :
        option[d] = "full" /\ alone[d] /\ pc[d] \in 2 .. 5 => running = Down

Failed == \A d \in Deploys : code[d] = 1 => pc[d] = 0

DeployInv == TypeOK /\ Progress /\ AloneMeans /\ DownBetween /\ Failed

-----------------------------------------------------------------------------
(***************************************************************************)
(* The steps each option goes through, by their numbers.                   *)
(***************************************************************************)
LEMMA Steps ==
    /\ DOMAIN StepsOf("full") = 1 .. 5
    /\ DOMAIN StepsOf("update") = 1 .. 2
    /\ DOMAIN StepsOf("build") = 1 .. 2
    /\ StepsOf("full")[1] = "stop" /\ StepsOf("full")[2] = "build"
    /\ StepsOf("full")[3] = "link" /\ StepsOf("full")[4] = "install"
    /\ StepsOf("full")[5] = "start"
    /\ StepsOf("update")[1] = "stop" /\ StepsOf("update")[2] = "start"
    /\ StepsOf("build")[1] = "build" /\ StepsOf("build")[2] = "link"
BY DEF StepsOf

(***************************************************************************)
(* A run that is at a step of its option has not ended; it is at the step  *)
(* of that number, and what Continue does to pc and code.                  *)
(***************************************************************************)
LEMMA AtStep ==
    ASSUME TypeOK, Failed, NEW d \in Deploys, NEW s, At(d, s)
    PROVE  /\ d \in Active
           /\ s = "stop" => pc[d] = 1 /\ option[d] # "build"
           /\ s = "build" => \/ pc[d] = 2 /\ option[d] = "full"
                             \/ pc[d] = 1 /\ option[d] = "build"
           /\ s = "link" => \/ pc[d] = 3 /\ option[d] = "full"
                            \/ pc[d] = 2 /\ option[d] = "build"
           /\ s = "install" => pc[d] = 4 /\ option[d] = "full"
           /\ s = "start" => \/ pc[d] = 5 /\ option[d] = "full"
                             \/ pc[d] = 2 /\ option[d] = "update"
           /\ pc[d] \in 1 .. 5
<1>1. option[d] \in {"full", "update", "build"} BY DEF TypeOK, Options
<1>2. pc[d] \in 1 .. 5 /\ pc[d] \in DOMAIN StepsOf(option[d])
  BY <1>1, Steps DEF At
<1>3. d \in Active BY <1>2 DEF Active, TypeOK, Failed
<1>4. StepsOf(option[d])[pc[d]] = s BY DEF At
<1>5. CASE option[d] = "full"
  <2>1. pc[d] \in {1, 2, 3, 4, 5} BY <1>2
  <2>2. QED BY <1>2, <1>3, <1>4, <1>5, <2>1, Steps
<1>6. CASE option[d] = "update"
  <2>1. pc[d] \in {1, 2} BY <1>2, <1>6, Steps
  <2>2. QED BY <1>2, <1>3, <1>4, <1>6, <2>1, Steps
<1>7. CASE option[d] = "build"
  <2>1. pc[d] \in {1, 2} BY <1>2, <1>7, Steps
  <2>2. QED BY <1>2, <1>3, <1>4, <1>7, <2>1, Steps
<1>8. QED BY <1>1, <1>5, <1>6, <1>7

\* What TypeOK says of the runs of the script.
RunsOK ==
    /\ pc \in [Deploys -> 0 .. 6] /\ code \in [Deploys -> -1 .. 1]
    /\ \A d \in Deploys :
        (code[d] = 0) = (pc[d] > 0 /\ pc[d] \notin DOMAIN StepsOf(option[d]))

(***************************************************************************)
(* A run that continues or aborts goes one step on or ends, and leaves the *)
(* others where they are; no run becomes active.                           *)
(***************************************************************************)
LEMMA Moves ==
    ASSUME DeployInv, NEW d \in Deploys, NEW s, At(d, s),
           Continue(d) \/ Abort(d)
    PROVE  /\ RunsOK' /\ Failed' /\ AloneMeans' /\ UNCHANGED ghosts
           /\ \A e \in Deploys \ {d} : pc'[e] = pc[e] /\ code'[e] = code[e]
           /\ pc'[d] \in {0, pc[d] + 1} /\ (Abort(d) => pc'[d] = 0)
           /\ code'[d] = 0 => pc[d] + 1 \notin DOMAIN StepsOf(option[d])
<1> USE DEF DeployInv, TypeOK, Options
<1>1. d \in Active /\ pc[d] \in 1 .. 5 /\ code[d] = -1
  BY AtStep DEF Active
<1>2. UNCHANGED ghosts BY DEF Continue, Abort
<1>3. UNCHANGED <<option, alone>> BY <1>2 DEF ghosts
<1>4. CASE Abort(d)
  <2>1. /\ pc' = [pc EXCEPT ![d] = 0] /\ code' = [code EXCEPT ![d] = 1]
        /\ pc'[d] = 0 /\ code'[d] = 1
    BY <1>4 DEF Abort
  <2>2. RunsOK' BY <1>3, <2>1 DEF RunsOK
  <2>3. Failed' /\ Active' \subseteq Active BY <2>1 DEF Failed, Active
  <2>4. AloneMeans' BY <1>3, <2>3 DEF AloneMeans
  <2>5. QED BY <1>2, <2>1, <2>2, <2>3, <2>4
<1>5. CASE Continue(d) /\ pc[d] + 1 \in DOMAIN StepsOf(option[d])
  <2>1. /\ pc' = [pc EXCEPT ![d] = pc[d] + 1] /\ code' = code
        /\ pc'[d] = pc[d] + 1
    BY <1>5 DEF Continue
  <2>2. RunsOK' BY <1>1, <1>3, <1>5, <2>1 DEF RunsOK
  <2>3. Failed' /\ Active' \subseteq Active
    BY <1>1, <2>1 DEF Failed, Active
  <2>4. AloneMeans' BY <1>3, <2>3 DEF AloneMeans
  <2>5. ~Abort(d) \/ pc'[d] = 0 BY DEF Abort
  <2>6. QED BY <1>1, <1>2, <2>1, <2>2, <2>3, <2>4, <2>5
<1>6. CASE Continue(d) /\ pc[d] + 1 \notin DOMAIN StepsOf(option[d])
  <2>1. /\ pc' = [pc EXCEPT ![d] = pc[d] + 1] /\ pc'[d] = pc[d] + 1
        /\ code' = [code EXCEPT ![d] = 0] /\ code'[d] = 0
    BY <1>6 DEF Continue
  <2>2. RunsOK' BY <1>1, <1>3, <1>6, <2>1 DEF RunsOK
  <2>3. Failed' /\ Active' \subseteq Active
    BY <1>1, <2>1 DEF Failed, Active
  <2>4. AloneMeans' BY <1>3, <2>3 DEF AloneMeans
  <2>5. ~Abort(d) \/ pc'[d] = 0 BY DEF Abort
  <2>6. QED BY <1>2, <1>6, <2>1, <2>2, <2>3, <2>4, <2>5
<1>7. QED BY <1>4, <1>5, <1>6

(***************************************************************************)
(* While one run moves, a run that none has overlapped is that run: so no  *)
(* other step changes what it has read, linked and installed.              *)
(***************************************************************************)
LEMMA OnlyRun ==
    ASSUME DeployInv, NEW d \in Deploys, NEW s, At(d, s),
           Continue(d) \/ Abort(d), NEW e \in Deploys
    PROVE  e \in Active' /\ alone'[e] => e = d /\ Continue(d)
<1> USE DEF DeployInv
<1>1. d \in Active BY AtStep
<1>2. Active' \subseteq Active
  BY <1>1, AtStep, Moves DEF Active, TypeOK
<1>3. alone' = alone BY Moves DEF ghosts
<1>4. Abort(d) => d \notin Active' BY Moves DEF Active
<1>5. QED BY <1>1, <1>2, <1>3, <1>4 DEF AloneMeans

(***************************************************************************)
(* The first state satisfies the inductive invariant.                      *)
(***************************************************************************)
LEMMA DeployInit == Init => DeployInv
<1> SUFFICES ASSUME Init PROVE DeployInv
  OBVIOUS
<1> USE DeployAssumption DEF Init, Versions, Down
<1>1. TypeOK BY DEF TypeOK, Options
<1>2. Progress /\ Failed BY DEF Progress, Failed, Active
<1>3. AloneMeans /\ DownBetween BY DEF AloneMeans, DownBetween, Active
<1>4. QED BY <1>1, <1>2, <1>3 DEF DeployInv

(***************************************************************************)
(* A run that begins.                                                      *)
(***************************************************************************)
LEMMA BeginStep ==
    ASSUME DeployInv, NEW d \in Deploys, NEW o \in Options, Begin(d, o)
    PROVE  DeployInv'
<1> USE DEF DeployInv, Begin
<1>1. \A e \in Deploys \ {d} :
         /\ option'[e] = option[e] /\ pc'[e] = pc[e] /\ base'[e] = base[e]
         /\ alone'[e] = (alone[e] /\ e \notin Active)
  BY DEF TypeOK
<1>2. /\ option'[d] = o /\ pc'[d] = 1 /\ base'[d] = source
      /\ alone'[d] = (Active = {})
  BY DEF TypeOK
<1>3. UNCHANGED <<source, built, installed, running, enabled, valid, code,
                read>>
  BY DEF host
<1>4. Active' = Active \cup {d} BY <1>1, <1>2, <1>3 DEF Active, TypeOK
<1>5. TypeOK'
  <2>1. 1 \in DOMAIN StepsOf(o) BY Steps DEF Options
  <2>2. alone' \in [Deploys -> BOOLEAN] OBVIOUS
  <2>3. QED BY <1>1, <1>2, <1>3, <2>1, <2>2 DEF TypeOK
<1>6. Progress' BY <1>1, <1>2, <1>3, <1>4, DeployAssumption
     DEF Progress, TypeOK, Versions
<1>7. AloneMeans' BY <1>1, <1>2, <1>4 DEF AloneMeans
<1>8. DownBetween'
  <2>1. ASSUME NEW e \in Deploys \ {d}, alone'[e] PROVE alone[e]
    BY <1>1, <2>1
  <2>2. QED BY <1>1, <1>2, <1>3, <2>1 DEF DownBetween
<1>9. Failed' BY <1>1, <1>2, <1>3 DEF Failed
<1>10. QED BY <1>5, <1>6, <1>7, <1>8, <1>9

(***************************************************************************)
(* A step of a run.                                                        *)
(***************************************************************************)
LEMMA RunStep ==
    ASSUME DeployInv, NEW d \in Deploys,
           \/ service_stop(d) \/ build_project(d) \/ Link(d)
           \/ install_project(d) \/ service_start(d)
    PROVE  DeployInv'
<1> USE DeployAssumption DEF DeployInv, ghosts, Versions
<1>1. ASSUME Progress', DownBetween', read' \in [Deploys -> Versions],
             {source', built', installed'} \subseteq Versions,
             running' \in Versions \cup {Down},
             UNCHANGED <<enabled, valid>>,
             RunsOK', Failed', AloneMeans', UNCHANGED ghosts
      PROVE  DeployInv'
  BY <1>1 DEF TypeOK, RunsOK
<1>2. CASE service_stop(d)
  <2>1. /\ At(d, "stop") /\ (Continue(d) \/ Abort(d))
        /\ running' = Down \/ (running' = running /\ Abort(d))
        /\ UNCHANGED <<source, built, installed, enabled, valid, read>>
    BY <1>2 DEF service_stop
  <2>2. pc[d] = 1 /\ pc[d] \in 1 .. 5 BY <2>1, AtStep
  <2>3. Progress' BY <2>1, <2>2, Moves, OnlyRun DEF Progress, TypeOK
  <2>4. DownBetween' BY <2>1, Moves DEF DownBetween
  <2>5. QED BY <1>1, <2>1, <2>3, <2>4, Moves DEF TypeOK
<1>3. CASE build_project(d)
  <2>1. /\ At(d, "build") /\ (Continue(d) \/ Abort(d))
        /\ read' = [read EXCEPT ![d] = source]
        /\ UNCHANGED <<source, built, installed, running, enabled, valid>>
    BY <1>3 DEF build_project, host
  <2>2. /\ \/ pc[d] = 2 /\ option[d] = "full"
           \/ pc[d] = 1 /\ option[d] = "build"
        /\ pc[d] \in 1 .. 5
    BY <2>1, AtStep
  <2>3. Progress'
    <3>1. UNCHANGED <<option, base, alone>> BY <2>1, Moves
    <3>2. ASSUME NEW e \in Deploys
          PROVE  base'[e] <= source' /\ read'[e] <= source'
      BY <2>1, <3>1 DEF Progress, TypeOK
    <3>3. ASSUME NEW e \in Deploys, option'[e] = "full", alone'[e],
                 e \in Active'
          PROVE  pc'[e] = 3 /\ base'[e] <= read'[e]
      <4>1. e = d /\ Continue(d) BY <2>1, <3>3, OnlyRun
      <4>2. pc[d] = 2 BY <2>2, <3>1, <3>3, <4>1
      <4>3. pc'[d] = 3 BY <4>1, <4>2 DEF Continue, TypeOK
      <4>4. QED BY <2>1, <3>1, <4>1, <4>3 DEF Progress, TypeOK
    <3>4. QED BY <3>2, <3>3 DEF Progress
  <2>4. DownBetween' BY <2>1, <2>2, Moves DEF DownBetween, TypeOK
  <2>5. QED BY <1>1, <2>1, <2>3, <2>4, Moves DEF TypeOK
<1>4. CASE Link(d)
  <2>1. /\ At(d, "link") /\ (Continue(d) \/ Abort(d))
        /\ built' \in read[d] .. source \/ (built' = built /\ Abort(d))
        /\ UNCHANGED <<source, installed, running, enabled, valid, read>>
    BY <1>4 DEF Link
  <2>2. /\ \/ pc[d] = 3 /\ option[d] = "full"
           \/ pc[d] = 2 /\ option[d] = "build"
        /\ pc[d] \in 1 .. 5
    BY <2>1, AtStep
  <2>3. Progress'
    <3>1. UNCHANGED <<option, base, alone>> BY <2>1, Moves
    <3>2. ASSUME NEW e \in Deploys, option'[e] = "full", alone'[e],
                 e \in Active'
          PROVE  pc'[e] = 4 /\ base'[e] <= read'[e] /\ base'[e] <= built'
      <4>1. e = d /\ Continue(d) BY <2>1, <3>2, OnlyRun
      <4>2. pc[d] = 3 /\ option[d] = "full" /\ alone[d] /\ d \in Active
        BY <2>1, <2>2, <3>1, <3>2, <4>1, AtStep
      <4>3. base[d] <= read[d] BY <4>2 DEF Progress
      <4>4. pc'[d] = 4 BY <4>1, <4>2 DEF Continue, TypeOK
      <4>5. built' \in read[d] .. source
        <5>1. ~Abort(d) BY <4>1, <4>2, <4>4 DEF Abort, TypeOK
        <5>2. QED BY <2>1, <5>1
      <4>6. base[d] <= built' BY <4>3, <4>5 DEF TypeOK
      <4>7. QED BY <2>1, <3>1, <4>1, <4>3, <4>4, <4>6
    <3>3. QED BY <2>1, <3>1, <3>2 DEF Progress
  <2>4. DownBetween' BY <2>1, <2>2, Moves DEF DownBetween, TypeOK
  <2>5. built' \in Versions BY <2>1 DEF TypeOK
  <2>6. QED BY <1>1, <2>1, <2>3, <2>4, <2>5, Moves DEF TypeOK
<1>5. CASE install_project(d)
  <2>1. /\ At(d, "install") /\ (Continue(d) \/ Abort(d))
        /\ installed' = built \/ (installed' = installed /\ Abort(d))
        /\ UNCHANGED <<source, built, running, enabled, valid, read>>
    BY <1>5 DEF install_project
  <2>2. pc[d] = 4 /\ option[d] = "full" BY <2>1, AtStep
  <2>3. Progress'
    <3>1. UNCHANGED <<option, base, alone>> BY <2>1, Moves
    <3>2. ASSUME NEW e \in Deploys, option'[e] = "full", alone'[e],
                 e \in Active'
          PROVE  /\ base'[e] <= read'[e] /\ base'[e] <= built'
                 /\ base'[e] <= installed'
      <4>1. e = d /\ Continue(d) BY <2>1, <3>2, OnlyRun
      <4>2. d \in Active /\ alone[d] BY <2>1, <3>1, <3>2, <4>1, AtStep
      <4>3. base[d] <= read[d] /\ base[d] <= built
        BY <2>2, <4>2 DEF Progress
      <4>4. pc'[d] # 0 BY <2>2, <4>1 DEF Continue, TypeOK
      <4>5. ~Abort(d) BY <4>4 DEF Abort, TypeOK
      <4>6. QED BY <2>1, <3>1, <4>1, <4>3, <4>5
    <3>3. QED BY <2>1, <3>1, <3>2 DEF Progress
  <2>4. DownBetween' BY <2>1, <2>2, Moves DEF DownBetween, TypeOK
  <2>5. QED BY <1>1, <2>1, <2>3, <2>4, Moves DEF TypeOK
<1>6. CASE service_start(d)
  <2>1. /\ At(d, "start") /\ (Continue(d) \/ Abort(d))
        /\ running' \in {running, installed}
        /\ UNCHANGED <<source, built, installed, enabled, valid, read>>
    BY <1>6 DEF service_start
  <2>2. /\ \/ pc[d] = 5 /\ option[d] = "full"
           \/ pc[d] = 2 /\ option[d] = "update"
        /\ d \in Active
    BY <2>1, AtStep
  <2>3. Progress' BY <2>1, <2>2, Moves, OnlyRun DEF Progress, TypeOK
  <2>4. DownBetween'
    <3>1. ASSUME NEW e \in Deploys, option[e] = "full", alone[e],
                 pc'[e] \in 2 .. 5
          PROVE  running' = Down
      <4>1. e # d BY <2>1, <2>2, <3>1, Moves DEF TypeOK
      <4>2. pc[e] \in 2 .. 5 BY <2>1, <3>1, <4>1, Moves
      <4>3. code[e] # 0 BY <3>1, <4>2, Steps DEF TypeOK
      <4>4. code[e] = -1 BY <4>2, <4>3 DEF TypeOK, Failed
      <4>5. e \in Active BY <4>2, <4>4 DEF Active
      <4>6. QED BY <2>2, <3>1, <4>1, <4>5 DEF AloneMeans
    <3>2. UNCHANGED <<option, alone>> BY <2>1, Moves
    <3>3. QED BY <3>1, <3>2 DEF DownBetween
  <2>5. QED BY <1>1, <2>1, <2>3, <2>4, Moves DEF TypeOK
<1>7. QED BY <1>2, <1>3, <1>4, <1>5, <1>6

(***************************************************************************)
(* The inductive invariant holds in every state.                           *)
(***************************************************************************)
THEOREM DeployInvariant == Spec => []DeployInv
<1>1. DeployInv /\ [Next]_vars => DeployInv'
  <2> SUFFICES ASSUME DeployInv, [Next]_vars PROVE DeployInv'
    OBVIOUS
  <2> USE DEF host, ghosts
  <2>1. CASE Edit
    BY <2>1, DeployAssumption DEF Edit, DeployInv, TypeOK, Versions, Progress,
       AloneMeans, DownBetween, Failed, Active
  <2>2. CASE EditConfig
    BY <2>2 DEF EditConfig, DeployInv, TypeOK, Progress, AloneMeans,
       DownBetween, Failed, Active
  <2>3. CASE Crash
    BY <2>3 DEF Crash, DeployInv, TypeOK, Progress, AloneMeans, DownBetween,
       Failed, Active
  <2>4. CASE UNCHANGED vars
    BY <2>4 DEF vars, DeployInv, TypeOK, Progress, AloneMeans, DownBetween,
       Failed, Active
  <2>5. QED BY <2>1, <2>2, <2>3, <2>4, BeginStep, RunStep DEF Next
<1>2. QED BY <1>1, DeployInit, PTL DEF Spec

(***************************************************************************)
(* Types of the state; a run exits with 0 exactly past its last step.      *)
(***************************************************************************)
THEOREM TypeCorrect == Spec => []TypeOK
<1>1. DeployInv => TypeOK BY DEF DeployInv
<1>2. QED BY <1>1, DeployInvariant, PTL

(***************************************************************************)
(* A run that exits with 0 in this step was at the last of its steps: a    *)
(* full one at the start of the service.                                   *)
(***************************************************************************)
LEMMA SuccessIsStart ==
    ASSUME DeployInv, Next, NEW d \in Deploys, option[d] = "full",
           code[d] = -1, code'[d] = 0
    PROVE  service_start(d) /\ pc[d] = 5 /\ Continue(d)
<1> USE DEF DeployInv, TypeOK, host, ghosts
<1>1. PICK e \in Deploys : \/ service_stop(e) \/ build_project(e) \/ Link(e)
                           \/ install_project(e) \/ service_start(e)
  BY DEF Next, Edit, EditConfig, Crash, Begin
<1>2. PICK s : At(e, s) /\ (Continue(e) \/ Abort(e))
  BY <1>1
     DEF service_stop, build_project, Link, install_project, service_start
<1>3. e = d BY <1>2, Moves
<1>4. Continue(d) /\ pc[d] + 1 \notin 1 .. 5
  BY <1>2, <1>3, Moves, Steps DEF Abort
<1>5. pc[d] = 5 BY <1>2, <1>3, <1>4, AtStep
<1>6. QED
  BY <1>1, <1>3, <1>4, <1>5, AtStep
     DEF service_stop, build_project, Link, install_project

(***************************************************************************)
(* A deploy that exits with 0, and that no other run overlapped, has       *)
(* installed the sources it began with, or later ones, whatever earlier    *)
(* runs have left in BUILD_DIR.                                            *)
(***************************************************************************)
THEOREM DeployInstalls == Spec => DeployInstallsSources
<1>1. ASSUME DeployInv, [Next]_vars, NEW d \in Deploys, option[d] = "full",
             code[d] = -1, code'[d] = 0, alone[d]
      PROVE  installed' >= base[d]
  <2>1. Next BY <1>1 DEF vars
  <2>2. service_start(d) /\ pc[d] = 5 BY <1>1, <2>1, SuccessIsStart
  <2>3. installed' = installed BY <2>2 DEF service_start
  <2>4. installed \in Nat /\ base[d] \in Nat
    BY <1>1, DeployAssumption DEF DeployInv, TypeOK, Versions
  <2>5. base[d] <= installed
    BY <1>1, <2>2 DEF DeployInv, Progress, Active
  <2>6. QED BY <2>3, <2>4, <2>5
<1>2. DeployInv /\ [Next]_vars =>
        [\A d \in Deploys :
            option[d] = "full" /\ code[d] = -1 /\ code'[d] = 0 /\ alone[d] =>
                installed' >= base[d]]_vars
  BY <1>1
<1>3. QED
  BY <1>2, DeployInvariant, PTL DEF Spec, DeployInstallsSources

(***************************************************************************)
(* A deploy that no other run overlapped leaves an enabled service running *)
(* the installed binary.                                                   *)
(***************************************************************************)
THEOREM DeployRuns == Spec => DeployRunsInstalled
<1>1. ASSUME DeployInv, [Next]_vars, NEW d \in Deploys, option[d] = "full",
             code[d] = -1, code'[d] = 0, enabled, alone[d]
      PROVE  running' = installed'
  <2>1. Next BY <1>1 DEF vars
  <2>2. service_start(d) /\ pc[d] = 5 /\ Continue(d)
    BY <1>1, <2>1, SuccessIsStart
  <2>3. running = Down BY <1>1, <2>2 DEF DeployInv, DownBetween
  <2>4. ~Abort(d) BY <1>1 DEF Abort, DeployInv, TypeOK
  <2>5. QED BY <1>1, <2>2, <2>3, <2>4 DEF service_start
<1>2. DeployInv /\ [Next]_vars =>
        [\A d \in Deploys :
            option[d] = "full" /\ code[d] = -1 /\ code'[d] = 0 /\ enabled
            /\ alone[d] => running' = installed']_vars
  BY <1>1
<1>3. QED BY <1>2, DeployInvariant, PTL DEF Spec, DeployRunsInstalled

(***************************************************************************)
(* The binary is not replaced under the service, unless runs overlap.      *)
(***************************************************************************)
THEOREM ReplacedOnlyWhenDown == Spec => NotReplacedUnderService
<1>1. ASSUME DeployInv, [Next]_vars, installed' # installed
      PROVE  running = Down
             \/ \E d \in Deploys : At(d, "install") /\ ~alone[d]
  <2>1. PICK d \in Deploys : install_project(d)
    BY <1>1 DEF Next, vars, host, Edit, EditConfig, Crash, Begin, service_stop,
       build_project, Link, service_start
  <2>2. At(d, "install") BY <2>1 DEF install_project
  <2>3. pc[d] = 4 /\ option[d] = "full" BY <1>1, <2>2, AtStep DEF DeployInv
  <2>4. QED BY <1>1, <2>2, <2>3 DEF DeployInv, DownBetween
<1>2. DeployInv /\ [Next]_vars =>
        [installed' # installed =>
            running = Down
            \/ \E d \in Deploys : At(d, "install") /\ ~alone[d]]_vars
  BY <1>1
<1>3. QED BY <1>2, DeployInvariant, PTL DEF Spec, NotReplacedUnderService
=============================================================================
