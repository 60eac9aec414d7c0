------------------------------ MODULE MCDeploy ------------------------------
(***************************************************************************)
(* Instances of Deploy: one run of the script, or two at the same time,    *)
(* over two changes of the sources.                                        *)
(***************************************************************************)
EXTENDS Deploy

CONSTANTS d1, d2

OneDeploy == {d1}
TwoDeploys == {d1, d2}
=============================================================================
