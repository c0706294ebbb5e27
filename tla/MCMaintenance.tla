---------------------------- MODULE MCMaintenance ----------------------------
(* Model values for checking Maintenance.                                  *)
EXTENDS Maintenance
=============================================================================
