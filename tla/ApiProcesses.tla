---------------------------- MODULE ApiProcesses ----------------------------
(* What the modules of the API's front have in common: the tenants, and the  *)
(* processes that serve the API.                                             *)
CONSTANTS Tenants, Replicas
=============================================================================
