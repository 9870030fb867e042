--------------------------- MODULE MCMatchLifecycle ---------------------------
(***************************************************************************)
(* A small match of MatchLifecycle for TLC.                                *)
(***************************************************************************)
EXTENDS MatchLifecycle

AllKinds == {"manual", "auto", "arena"}
OneAgent == {"ada"}
OneHuman == {"hal"}
=============================================================================
