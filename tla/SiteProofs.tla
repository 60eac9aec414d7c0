----------------------------- MODULE SiteProofs -----------------------------
(***************************************************************************)
(* Proofs about Site and the environment it runs in, for any number of     *)
(* probes, scripts, crashes and configurations.                            *)
(*                                                                         *)
(* The era of the database is at most the number of scripts begun, with    *)
(* one more to come while docker-new-database.sh is before docker volume   *)
(* rm; and once that script is past it, the era is newer than the one it   *)
(* began with.  That, with the types, is inductive.                        *)
(***************************************************************************)
EXTENDS Site, TLAPS

(***************************************************************************)
(* What the site adds leaves the environment as it is.                     *)
(***************************************************************************)
LEMMA SiteImplementsEnvironment == SiteSpec => Init /\ [][Next]_vars
<1>1. SiteInit => Init BY DEF SiteInit
<1>2. [SiteNext]_siteVars => [Next]_vars
  BY DEF SiteNext, siteVars, Environment, StartProcess, OpenPage, BrowsePage
<1>3. QED BY <1>1, <1>2, PTL DEF SiteSpec

-----------------------------------------------------------------------------
EraBound == (IF pc = "rm" THEN era + 1 ELSE era) <= ops

NewerPast == pc = "up" => era > began

EnvInv ==
    /\ TypeOK /\ ops \in 0 .. MaxOps
    /\ EraBound /\ NewerPast /\ NewDatabaseIsNew
    /\ (pc # "idle" => code = -1) /\ (pc = "rm" => began = era)

(***************************************************************************)
(* The first state satisfies the inductive invariant.                      *)
(***************************************************************************)
LEMMA EnvInit == Init => EnvInv
BY ComposeAssumption
   DEF Init, EnvInv, TypeOK, EraBound, NewerPast, NewDatabaseIsNew, Containers

(***************************************************************************)
(* Every step of the containers and of the scripts keeps it.               *)
(***************************************************************************)
LEMMA EnvStep == EnvInv /\ [Next]_vars => EnvInv'
<1> SUFFICES ASSUME EnvInv, [Next]_vars PROVE EnvInv'
  OBVIOUS
<1> USE ComposeAssumption
    DEF EnvInv, TypeOK, EraBound, NewerPast, NewDatabaseIsNew, Containers,
        vars, containers, recreate
<1>1. CASE Load BY <1>1 DEF Load
<1>2. CASE Loaded BY <1>2 DEF Loaded
<1>3. CASE Open BY <1>3 DEF Open
<1>4. CASE Listen BY <1>4 DEF Listen
<1>5. CASE Probe BY <1>5 DEF Probe, ArithmeticFails
<1>6. ASSUME NEW c \in Containers, Restart(c) PROVE EnvInv'
  BY <1>6 DEF Restart
<1>7. CASE Crash BY <1>7 DEF Crash
<1>8. CASE docker_up BY <1>8 DEF docker_up
<1>9. CASE docker_down BY <1>9 DEF docker_down, Stopped
<1>10. CASE new_database BY <1>10 DEF new_database, Stopped
<1>11. CASE RemoveVolume BY <1>11 DEF RemoveVolume, Abort
<1>12. CASE UpPostgres BY <1>12 DEF UpPostgres
<1>13. CASE UNCHANGED vars BY <1>13
<1>14. QED
  BY <1>1, <1>2, <1>3, <1>4, <1>5, <1>6, <1>7, <1>8, <1>9, <1>10, <1>11,
     <1>12, <1>13 DEF Next

(***************************************************************************)
(* The inductive invariant holds in every state of the site.               *)
(***************************************************************************)
THEOREM EnvironmentInvariant == SiteSpec => []EnvInv
BY EnvInit, EnvStep, SiteImplementsEnvironment, PTL

(***************************************************************************)
(* The environment keeps its types; no container runs unless wanted, and   *)
(* no script removes the volume of a postgres that is past its start.      *)
(***************************************************************************)
THEOREM EnvironmentTypes == SiteSpec => []TypeOK
<1>1. EnvInv => TypeOK BY DEF EnvInv
<1>2. QED BY <1>1, EnvironmentInvariant, PTL

(***************************************************************************)
(* docker-new-database.sh succeeds only with a database that was not there *)
(* before, whatever other scripts do meanwhile.                            *)
(***************************************************************************)
THEOREM RecreatedIsNew == SiteSpec => []NewDatabaseIsNew
<1>1. EnvInv => NewDatabaseIsNew BY DEF EnvInv
<1>2. QED BY <1>1, EnvironmentInvariant, PTL

=============================================================================
