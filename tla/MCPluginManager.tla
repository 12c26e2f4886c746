---------------------------- MODULE MCPluginManager ----------------------------
(* Values of the constants of PluginManager for TLC.                        *)
EXTENDS PluginManager, TLC

CONSTANTS r1, r2, r3, r4

\* Every slot may be asked for everything.
AnyCall   == [r \in Reqs |-> Ops]
\* Starts and stops only.
StartStop == [r \in Reqs |-> {"start", "stop"}]
\* One client starts; the others stop.
OneStarter == [r \in Reqs |-> IF r = r1 THEN {"start", "stop"} ELSE {"stop"}]
\* Everything but uninstall.
NoUninstall == [r \in Reqs |-> Ops \ {"uninstall"}]
StartStopUninstall == [r \in Reqs |-> {"start", "stop", "uninstall"}]

Symmetric == Permutations(Reqs) \cup Permutations(Instances)
================================================================================
