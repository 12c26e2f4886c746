--------------------------- MODULE MCUninstallHistory ---------------------------
(* The calls of MCHostApi, with the history of uninstalls.                  *)
EXTENDS MCHostApi, UninstallHistory
================================================================================
