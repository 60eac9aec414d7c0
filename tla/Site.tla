-------------------------------- MODULE Site --------------------------------
(***************************************************************************)
(* The Docker environment with what runs in its backend: the processes of  *)
(* apostol start when the entry point has reached its last line, and go    *)
(* when the container does; a reader's browser loads the documentation     *)
(* from them, one request at a time, while containers crash and scripts    *)
(* bring the environment up and down.                                      *)
(***************************************************************************)
EXTENDS Compose, Sequences

CONSTANT Settings
VARIABLES settings, up, modules, page, next, globals, url

App == INSTANCE Application
Doc == INSTANCE DocPage WITH served <- App!Served

processVars == <<settings, up, modules>>
pageVars == <<page, next, globals, url>>
siteVars == <<vars, processVars, pageVars>>

ASSUME SiteAssumption == Settings \subseteq App!Configurations

-----------------------------------------------------------------------------
SiteInit ==
    /\ Init
    /\ settings \in Settings
    /\ up = {} /\ modules = [p \in App!Processes |-> <<>>]
    /\ Doc!Closed

EndWithBackend ==
    IF backend' = "running" THEN UNCHANGED processVars ELSE App!Gone

Environment == Next /\ EndWithBackend /\ UNCHANGED pageVars

StartProcess(p) ==
    backend = "running" /\ App!Start(p) /\ UNCHANGED <<vars, pageVars>>

OpenPage == Doc!Open /\ UNCHANGED <<vars, processVars>>
BrowsePage == Doc!Browse /\ UNCHANGED <<vars, processVars>>

SiteNext ==
    \/ Environment
    \/ \E p \in App!Processes : StartProcess(p)
    \/ OpenPage \/ BrowsePage

\* The processes start when forked, and a browser goes on with a page.
SiteFairness ==
    /\ Fairness
    /\ \A p \in App!Processes : WF_siteVars(StartProcess(p))
    /\ WF_siteVars(BrowsePage)

SiteSpec == SiteInit /\ [][SiteNext]_siteVars /\ SiteFairness

-----------------------------------------------------------------------------
LeftUp == <>[](wanted = Containers)

(***************************************************************************)
(* When the operator leaves the environment up, every module that is       *)
(* enabled works in the end, those that need a database with no conninfo   *)
(* but the worker's; PGFetch needs the helper process.  Whether a process  *)
(* has a pool is asked once, when its modules are registered, and the      *)
(* processes start anew each time the container does.                      *)
(***************************************************************************)
CanWork ==
    settings.enabled \
        ((IF settings.helper THEN {} ELSE {"PGFetch"})
         \cup IF "worker" \in settings.conninfo THEN {}
                                              ELSE {"PGFetch", "PGHTTP"})

ConfiguredModulesWork == LeftUp => <>[](CanWork \subseteq App!Working)

(***************************************************************************)
(* A reader who opens the page again and again while the environment is    *)
(* left up gets to see the definition of this server, and no other, again  *)
(* and again: a page whose requests met a container that crashed fails,    *)
(* and one of the next does not.                                           *)
(***************************************************************************)
DocumentationShown ==
    LeftUp /\ "WebServer" \in settings.enabled /\ WF_siteVars(OpenPage) =>
        []<>(page = "shown" /\ url = Doc!ApiYaml)
=============================================================================
