----------------------------- MODULE MCMonitor ------------------------------
(***************************************************************************)
(* The instance TLC checks is set in the configuration: an entry node that *)
(* can run out of disk or stop answering, and two sightings to confirm.    *)
(***************************************************************************)
EXTENDS Monitor
=============================================================================
