---------------------------- MODULE MCMerakiBoot ----------------------------
(* A small instance of MerakiBoot for TLC.                                  *)
EXTENDS MerakiBoot
=============================================================================
