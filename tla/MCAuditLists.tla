---------------------------- MODULE MCAuditLists -----------------------------
(***************************************************************************)
(* AuditLists for TLC.  Two ids for reads of one MSR, native and           *)
(* paravirtualised; the same native read at another spot; a spectre        *)
(* warning, which has no id.                                               *)
(***************************************************************************)
EXTENDS AuditLists

MCWarnings ==
    { [id |-> "1", spot |-> "a", kind |-> "native_read_msr"],
      [id |-> "1", spot |-> "b", kind |-> "native_read_msr"],
      [id |-> "2", spot |-> "a", kind |-> "paravirt_read_msr"],
      [id |-> "no id", spot |-> "a", kind |-> "other"] }
=============================================================================
