---------------------------- MODULE UninstallHistory ----------------------------
(***************************************************************************)
(* HostApi with a history of what an uninstall may miss: the keys of the   *)
(* requests that had passed their permission check when the grants were    *)
(* deleted, and whatever a failing delete leaves.                          *)
(***************************************************************************)
EXTENDS HostApi

VARIABLE spared   \* tables and keys that may have a row after the uninstall

\* Requests that will write a record.
Upserting == {s \in Reqs : pc[s] \in {"find", "write", "load", "run", "store"}}
InFlight == {<<call[s].table, call[s].key>> : s \in Upserting}

Wiping == \E r \in Reqs : pc[r] \in {"wipe_records", "wipe_registry"}

\* Rows of the table whose delete is made by this step and fails.
Left == {row \in records' : \E r \in Reqs :
           WipeRecords(r) /\ row.table = WipeOrder[next[r]]}

Spare ==
  spared' =
    CASE ~Wiping' -> {}
      [] Wiping' /\ ~Wiping -> IF grants' = {} THEN InFlight ELSE Tables \X Keys
      [] OTHER -> spared \cup {<<row.table, row.key>> : row \in Left}

HistoryInit == HostInit /\ spared = {}
HistorySpec == HistoryInit /\ [][HostNext /\ Spare]_<<hvars, spared>>

(* When the registry row goes, everything else about the plugin is gone,    *)
(* even if an earlier uninstall was dropped halfway.  Nothing survives but  *)
(* the rows of requests that were past their permission check when the      *)
(* grants were deleted (they may be written after their table was cleared)  *)
(* and what a failing delete left: uninstall_plugin deletes the grants      *)
(* first, so that no request can start meanwhile.                           *)
UninstallClears ==
  [][version # NoVersion /\ version' = NoVersion =>
       /\ \A row \in records' : <<row.table, row.key>> \in spared
       /\ grants' # {} => spared = Tables \X Keys]_<<hvars, spared>>
================================================================================
