-------------------------- MODULE MC_PrivateTracking --------------------------
(***************************************************************************)
(* The instances of Tracking, with kernels of both kinds.                  *)
(***************************************************************************)
EXTENDS MC_Tracking, PrivateTracking
=============================================================================
