------------------------------ MODULE LocalYarn ------------------------------
(***************************************************************************)
(* The parties that the modules about LOCAL_YARN_V1 have in common.        *)
(***************************************************************************)
CONSTANTS
    Runner,    \* the PowerShell processes that may run a lifecycle script
    App,       \* the jobs that are ever launched and their YARN applications
    None       \* no runner, application or session

ASSUME NoneAssumption == None \notin Runner /\ None \notin App
=============================================================================
