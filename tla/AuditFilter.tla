----------------------------- MODULE AuditFilter -----------------------------
(***************************************************************************)
(* bkc/audit/process_smatch_output.py: the filter that makes an audit list *)
(* of a raw smatch report.  The report is split at its semicolons, so that *)
(* every result but the first begins with the newline that ends the result *)
(* before it; the tests for a subsystem ask for that newline, and two      *)
(* results are duplicates when they agree in it too.                       *)
(***************************************************************************)
EXTENDS Naturals, Sequences, FiniteSets

CONSTANTS
    Warnings,    \* what a result says, apart from where
    MaxResults   \* bound: results in a report

ASSUME FilterAssumption == Warnings # {} /\ MaxResults \in Nat

\* Where a result is from.  Excluded are sound/, samples/ and the drivers but
\* for the allowed ones, of which the PCI controllers are none; results of
\* headers come up under relative paths again.
Places == {"core", "excluded", "allowed driver", "../"}

Results == Places \X Warnings

VARIABLES
    report,  \* the results of the report, in order
    next,    \* the result the loop looks at next
    seen,    \* results_seen: texts, i.e. a result and whether a newline leads it
    out      \* what was written: positions in the report

vars == <<report, next, seen, out>>

Init ==
    /\ report \in UNION {[1 .. n -> Results] : n \in 0 .. MaxResults}
    /\ next = 1
    /\ seen = {}
    /\ out = <<>>

-----------------------------------------------------------------------------
Text(i) == <<report[i], i > 1>>
Place(i) == report[i][1]

\* The tests of the result at position i ask for the newline before it.
Excluded(i) == Place(i) = "excluded" /\ i > 1

\* (Seeded fault: results are not recorded.)
RecordedNot(i) == seen
Recorded(i) == seen \cup {Text(i)}

Looks == next <= Len(report) /\ next' = next + 1 /\ UNCHANGED report

\* A duplicate, or a relative path.
Drop ==
    /\ Looks
    /\ Text(next) \in seen \/ Place(next) = "../"
    /\ UNCHANGED <<seen, out>>

Exclude ==
    /\ Looks
    /\ Text(next) \notin seen /\ Place(next) # "../"
    /\ seen' = Recorded(next)
    /\ Excluded(next)
    /\ UNCHANGED out

Write ==
    /\ Looks
    /\ Text(next) \notin seen /\ Place(next) # "../"
    /\ seen' = Recorded(next)
    /\ ~Excluded(next)
    /\ out' = Append(out, next)

Next == Drop \/ Exclude \/ Write

Spec == Init /\ [][Next]_vars

-----------------------------------------------------------------------------
(* Properties.                                                             *)

Relevant(r) == r[1] \in {"core", "allowed driver"}
Written == {report[out[k]] : k \in DOMAIN out}

\* The list has every relevant result of the report that was looked at, and
\* from the second one on nothing else, nothing twice and in order: a result is
\* not lost with a duplicate that was dropped or not written, and the newline
\* that the first one lacks costs no relevant result
\* (process_smatch_output.py:54-79).
FilterExact ==
    /\ \A i \in 1 .. next - 1 : Relevant(report[i]) => report[i] \in Written
    /\ \A k \in DOMAIN out :
        out[k] > 1 => /\ Relevant(report[out[k]])
                      /\ \A l \in 1 .. k - 1 : /\ out[l] < out[k]
                                               /\ out[l] > 1 => report[out[l]] # report[out[k]]
=============================================================================
