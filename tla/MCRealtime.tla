------------------------------ MODULE MCRealtime ------------------------------
(***************************************************************************)
(* Bounded instance of Realtime.                                           *)
(***************************************************************************)
EXTENDS Realtime, TLC
=============================================================================
