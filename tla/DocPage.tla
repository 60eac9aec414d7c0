------------------------------ MODULE DocPage ------------------------------
(***************************************************************************)
(* The page the web server serves at its root: www/index.html, a Swagger   *)
(* UI.  Its scripts are fetched and run in their order; a script that      *)
(* assigns window.onload replaces the handler assigned before; the handler *)
(* runs when all scripts have been fetched or have failed, and needs the   *)
(* globals that swagger-ui-bundle.js and swagger-ui-standalone-preset.js   *)
(* define.                                                                 *)
(*                                                                         *)
(* www/swagger-initializer.js is the script of the Swagger UI distribution *)
(* that does what the last script of index.html does, with another         *)
(* definition.  It is installed with the page, which does not load it.     *)
(***************************************************************************)
EXTENDS Naturals, Sequences

VARIABLES served,    \* the files the site answers requests with
          page,      \* "closed", "loading", "fetching", "shown", "failed"
          next,      \* the script to fetch next
          globals,   \* what the scripts that were fetched have defined
          url        \* the definition that is fetched or shown

-----------------------------------------------------------------------------
Bundle == "/swagger-ui-bundle.js"
Preset == "/swagger-ui-standalone-preset.js"
Initializer == "/swagger-initializer.js"
Inline == "inline"

ApiYaml == "/api.yaml"
PetStore == "https://petstore.swagger.io/v2/swagger.json"
NoUrl == "none"

\* window.onload = function() { window.ui = SwaggerUIBundle({...}) }
Handler(definition) == [url |-> definition, needs |-> {Bundle, Preset}]

swagger_initializer == Handler(PetStore)

\* The scripts that assign window.onload, and what they assign.
OnLoad == [s \in {Inline, Initializer} |->
             IF s = Inline THEN Handler(ApiYaml) ELSE swagger_initializer]

\* Mutant: the page also loads the script of the distribution.
WithInitializer == <<Bundle, Preset, Inline, Initializer>>

Scripts == <<Bundle, Preset, Inline>>

\* The handler that is left when all scripts have run.
Assigning == {i \in DOMAIN Scripts : Scripts[i] \in DOMAIN OnLoad}
LastHandler ==
    OnLoad[Scripts[CHOOSE i \in Assigning : \A j \in Assigning : j <= i]]

-----------------------------------------------------------------------------
Closed == /\ page = "closed" /\ next = 1 /\ globals = {} /\ url = NoUrl

Leaves(to, definition) ==
    page' = to /\ next' = 1 /\ globals' = {} /\ url' = definition

Open ==
    /\ page \in {"closed", "shown", "failed"}
    /\ Leaves(IF "/" \in served THEN "loading" ELSE "failed", NoUrl)

\* A script that cannot be fetched is left out; one in the page needs none.
FetchScript ==
    /\ page = "loading" /\ next <= Len(Scripts)
    /\ next' = next + 1
    /\ globals' = globals \cup
          IF Scripts[next] \in {Bundle, Preset} /\ Scripts[next] \in served
          THEN {Scripts[next]} ELSE {}
    /\ UNCHANGED <<page, url>>

\* The load event; a global that is missing is a ReferenceError.
Load ==
    /\ page = "loading" /\ next > Len(Scripts)
    /\ IF LastHandler.needs \subseteq globals
       THEN Leaves("fetching", LastHandler.url)
       ELSE Leaves("failed", NoUrl)

\* SwaggerUIBundle fetches the definition and renders it.
FetchDefinition ==
    /\ page = "fetching"
    /\ \/ (url = ApiYaml => url \in served) /\ Leaves("shown", url)
       \/ (url = ApiYaml => url \notin served) /\ Leaves("failed", NoUrl)

Browse == FetchScript \/ Load \/ FetchDefinition
=============================================================================
