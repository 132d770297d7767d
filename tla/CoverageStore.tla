---------------------------- MODULE CoverageStore ----------------------------
(***************************************************************************)
(* What the coverage database of smatcher is for: covered entries are      *)
(* merged into it and never lost (bkc/coverage/smatcher/smatcher,          *)
(* "Load DB, so we merge the coverage").                                   *)
(***************************************************************************)
CONSTANT Entries

VARIABLE saved

StoreInit == saved = {}
Merge == \E S \in SUBSET Entries : saved' = saved \cup S
StoreSpec == StoreInit /\ [][Merge]_saved
=============================================================================
