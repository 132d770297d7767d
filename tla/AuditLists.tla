----------------------------- MODULE AuditLists ------------------------------
(***************************************************************************)
(* The way of a smatch report into an audit list: the report is filtered   *)
(* (AuditFilter), and what was written is given the reviews of an earlier  *)
(* list (AuditTransfer).  Both scripts are run by hand, one after the      *)
(* other, the second on the output file of the first.                      *)
(***************************************************************************)
EXTENDS AuditFilter

CONSTANTS
    MaxOld,   \* bound: entries of the annotated list
    MaxBoth   \* bound: results of the report and entries of the list together

VARIABLES
    old,   \* the annotated list
    n, a,  \* the new result being looked up, the entry it is compared with
    list   \* the list to be audited

allVars == <<vars, old, n, a, list>>

\* A result as transfer_results.py takes it apart.
Parsed(r) == [site |-> r[1], id |-> r[2].id, spot |-> r[2].spot, kind |-> r[2].kind]

\* The file that the filter wrote, split at its semicolons.
Filtered == [k \in DOMAIN out |-> Parsed(report[out[k]])]

\* Paths are not anchored in the search for a text: drivers/net/tap.c has that
\* of net/tap.c at its end.
Occurs(r, s) == [s EXCEPT !.site = r.site] = r /\ (s.site = r.site \/ s.site = "allowed driver")

Parsings == {Parsed(r) : r \in Results}

Transfer == INSTANCE AuditTransfer WITH
    Reviewed <- {Parsed(r) : r \in {"core", "allowed driver"} \X Warnings},
    InText <- {p \in Parsings \X Parsings : Occurs(p[1], p[2])},
    new <- Filtered, out <- list

ASSUME ListsAssumption ==
    /\ MaxOld \in Nat /\ MaxBoth \in Nat
    /\ \A w \in Warnings : /\ DOMAIN w = {"id", "spot", "kind"}
                            /\ w.kind \in Transfer!Kinds

ListsInit ==
    /\ Init
    /\ Transfer!Init
    /\ Len(report) + Len(old) <= MaxBoth

Filtering ==
    /\ Next
    /\ UNCHANGED <<old, n, a, list>>

\* transfer_results.py is started when the filter is done.
Transferring ==
    /\ next > Len(report)
    /\ UNCHANGED vars
    /\ Transfer!Next

ListsNext == Filtering \/ Transferring

ListsSpec == ListsInit /\ [][ListsNext]_allVars

-----------------------------------------------------------------------------
(* Properties.                                                             *)

\* The reviews of the earlier list are kept, and reach no other results than
\* those that they speak for (see AuditTransfer).
ReviewsKept == Transfer!ReviewsKept

\* What a reviewer is shown at the end has the text of every result of the report
\* that bears an id and is of a part of the kernel to be audited, whatever its
\* duplicates, its place in the report and the earlier reviews
\* (process_smatch_output.py:54-79, transfer_results.py:50-133).
AuditComplete ==
    next > Len(report) /\ n > Len(Filtered) =>
        \A i \in DOMAIN report :
            Relevant(report[i]) /\ report[i][2].id # Transfer!NoId =>
                \E k \in DOMAIN list : Occurs(Parsed(report[i]), list[k].result)
=============================================================================
