------------------------------ MODULE MCWsBridge -------------------------------
(* Values of the constants of WsBridge for TLC.                             *)
EXTENDS WsBridge

CONSTANTS m1, m2
================================================================================
