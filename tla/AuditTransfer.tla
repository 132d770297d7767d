---------------------------- MODULE AuditTransfer ----------------------------
(***************************************************************************)
(* bkc/audit/transfer_results.py: every result of a new smatch report gets *)
(* the status and comment that an earlier review gave to it.  For each new *)
(* result the annotated list is searched from its start; the first entry   *)
(* that qualifies decides.                                                 *)
(***************************************************************************)
EXTENDS Naturals, Sequences

CONSTANTS
    Reviewed,  \* the results that an annotated list may hold
    InText,    \* pairs of results: the text of the first occurs in that of the second
    MaxOld     \* bound: entries of the annotated list

\* A result has the site it is from (a path and a function), the id smatch
\* prints in braces, if any, the spot (a line and a variable) and the kind:
\* the way it reads an MSR, or neither.
NoId     == "no id"
Kinds    == {"native_read_msr", "paravirt_read_msr", "other"}
Statuses == {"", "excluded", "trusted"}
Entries  == [result : Reviewed, status : Statuses]

VARIABLES
    old,   \* result_list_analyzed
    new,   \* result_list_new
    n,     \* the new result being looked up
    a,     \* the entry it is compared with next
    out    \* the output: each result with the status it was given, and as a
           \* history which of the new results it was written for

vars == <<old, new, n, a, out>>

Init ==
    /\ old \in UNION {[1 .. k -> Entries] : k \in 0 .. MaxOld}
    /\ n = 1 /\ a = 1
    /\ out = <<>>

-----------------------------------------------------------------------------
\* The text of the new result occurs in the entry.
Verbatim(r, e) == <<r, e.result>> \in InText

\* The native read of an MSR is matched with the paravirtualised read that the
\* reference results have, by line and variable.
MsrPair(r, e) == r.kind = "native_read_msr" /\ e.result.kind = "paravirt_read_msr"

\* The status of entry e is given to result r.  All results of a function take
\* that of an excluded one.
Transfers(r, e) ==
    /\ e.result.id # NoId
    /\ e.result.site = r.site
    /\ \/ e.result.id = r.id
       \/ MsrPair(r, e) /\ e.result.spot = r.spot
       \/ ~MsrPair(r, e) /\ e.status = "excluded"

Looking == n <= Len(new) /\ new[n].id # NoId

\* The result is written and the search ends.  (Seeded fault: the next search
\* does not begin at the first entry again.)
EmitOn(result, status) ==
    /\ out' = Append(out, [of |-> n, result |-> result, status |-> status])
    /\ n' = n + 1
    /\ a' = a
Emit(result, status) ==
    /\ out' = Append(out, [of |-> n, result |-> result, status |-> status])
    /\ n' = n + 1
    /\ a' = 1

\* A new result without an id is not written.
SkipResult ==
    /\ n <= Len(new)
    /\ new[n].id = NoId
    /\ n' = n + 1 /\ a' = 1
    /\ UNCHANGED <<old, new, out>>

NextEntry ==
    /\ Looking
    /\ a <= Len(old)
    /\ ~Verbatim(new[n], old[a]) /\ ~Transfers(new[n], old[a])
    /\ a' = a + 1
    /\ UNCHANGED <<old, new, n, out>>

\* An entry that has the text of the result is written as it is, any other
\* gives its status to the new result.
Take ==
    /\ Looking
    /\ a <= Len(old)
    /\ \/ /\ Verbatim(new[n], old[a])
          /\ Emit(old[a].result, old[a].status)
       \/ /\ ~Verbatim(new[n], old[a]) /\ Transfers(new[n], old[a])
          /\ Emit(new[n], old[a].status)
    /\ UNCHANGED <<old, new>>

\* No entry qualifies.  (Seeded fault: the result is not written.)
GiveUpSilently == n' = n + 1 /\ a' = 1 /\ UNCHANGED out
GiveUp == Emit(new[n], "")

NotFound ==
    /\ Looking
    /\ a > Len(old)
    /\ GiveUp
    /\ UNCHANGED <<old, new>>

Next == SkipResult \/ NextEntry \/ Take \/ NotFound

-----------------------------------------------------------------------------
(* Properties.                                                             *)

\* Entry e is a review of result r itself.
Own(r, e) == Verbatim(r, e) \/ (e.result.site = r.site /\ e.result.id = r.id)

\* It is of another result, but speaks for r: of the paravirtualised form of the
\* same MSR read, or of code of the same function that is excluded.
Foreign(r, e) ==
    /\ e.result.site = r.site
    /\ e.status = "excluded" \/ (MsrPair(r, e) /\ e.result.spot = r.spot)

\* What was written for a result stands as it was reviewed.
Settled(x) ==
    LET r     == new[x.of]
        by(i) == old[i].status = x.status /\ (Own(r, old[i]) \/ Foreign(r, old[i]))
    IN  /\ \A j \in DOMAIN old : Own(r, old[j]) =>
              x.status = old[j].status \/ \E i \in 1 .. j - 1 : by(i)
        /\ x.status # "" => \E i \in DOMAIN old : by(i)

\* The review of a result is not lost wherever its entry is in the list: its
\* status is given, unless an entry before it decides that speaks for the
\* result too, one of excluded code of the function above all; and no result
\* has a status that no such entry has (transfer_results.py:65-133).
ReviewsKept == \A k \in DOMAIN out : Settled(out[k])
=============================================================================
