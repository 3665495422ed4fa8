-------------------------- MODULE MCCollectorDriver --------------------------
(* Three collectors, one of them a zombie.                                  *)
EXTENDS CollectorDriver
=============================================================================
