-------------------------- MODULE MCServiceHealth --------------------------
(* The instances of ServiceHealth that TLC checks: the constants come from *)
(* the configurations.                                                     *)
EXTENDS ServiceHealth
=============================================================================
