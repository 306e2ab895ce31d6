-------------------------- MODULE MCRefreshScheduler --------------------------
(***************************************************************************)
(* Instances of RefreshScheduler for TLC.                                  *)
(***************************************************************************)
EXTENDS RefreshScheduler

\* Deployments 1 and 2 are two apps of one device.
SharedDevice == [d \in Deployments |-> 1]
===============================================================================
