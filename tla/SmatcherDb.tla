----------------------------- MODULE SmatcherDb ------------------------------
(***************************************************************************)
(* start() of bkc/coverage/smatcher: a smatcher process finds the entries  *)
(* of the audit lists that the line coverage of its inputs reaches, and    *)
(* with --load and --save reads and merges the database of all earlier     *)
(* coverage, one file shared by every process of the user.  The file is    *)
(* read, truncated and written in three steps without a lock, so that two  *)
(* processes may interleave and a process may be killed in between.        *)
(*                                                                         *)
(* An entry is a place of an audit list together with the class the list   *)
(* gives it; the lists of two inputs may class one place differently.  The *)
(* summary is of functions, each of which has several places.              *)
(***************************************************************************)
EXTENDS FiniteSets

CONSTANTS
    Procs,      \* processes of smatcher that are started
    Items,      \* the kAFL workdirs they are given
    Places,     \* places (lines) in audit lists
    Function    \* the function of each place

ASSUME SmatcherAssumption == IsFiniteSet(Procs)

None    == "none"
Classes == {"concern", "safe"}
Entries == Places \X Classes
Funcs(S) == {Function[e[1]] : e \in S}

VARIABLES
    db,       \* entries in the file
    file,     \* the file: "absent", "torn" (cannot be unpickled) or "whole"
    tangled,  \* the file was truncated while another process was writing it
    stage,    \* of each process: its next step
    options,  \* of each process: the options among "load", "save" it was given
    owner,    \* of each workdir: the process it is given to
    list,     \* of each workdir: the class its audit list gives to each place
    hit,      \* of each workdir: the places its lists of covered lines hold
    covered,  \* of each process: the entries it takes for covered
    fresh,    \* history: processes that merged the file as it still is
    raced     \* history: a file was truncated by a process that was not fresh,
              \* or left torn by one that was killed

disk   == <<db, file, tangled>>
inputs == <<options, owner, list, hit>>
history == <<fresh, raced>>
vars   == <<disk, stage, inputs, covered, history>>

Init ==
    /\ db = {} /\ file = "absent" /\ tangled = FALSE
    /\ stage = [p \in Procs |-> "new"]
    /\ options \in [Procs -> SUBSET {"load", "save"}]
    /\ owner \in [Items -> Procs]
    /\ list \in [Items -> [Places -> Classes \cup {None}]]
    /\ hit \in [Items -> SUBSET Places]
    /\ covered = [p \in Procs |-> {}]
    /\ fresh = {} /\ raced = FALSE

Over == {"new", "exit", "failed"}

\* The inputs of process p, the entries of a workdir's list, and smatch_set.
Given(p) == {i \in Items : owner[i] = p}
Entry(i) == {e \in Entries : list[i][e[1]] = e[2]}
Listed(p) == UNION {Entry(i) : i \in Given(p)}

\* A step of process p from stage `from' to stage `to'.
Step(p, from, to) ==
    /\ stage[p] = from
    /\ stage' = [stage EXCEPT ![p] = to]

-----------------------------------------------------------------------------
Start(p) ==
    /\ Step(p, "new", IF "load" \in options[p] THEN "load" ELSE "match")
    /\ UNCHANGED <<disk, inputs, covered, history>>

\* pickle.load of the file, which must be there and whole.
Load(p) ==
    /\ Step(p, "load", IF file = "whole" THEN "match" ELSE "failed")
    /\ covered' = IF file = "whole" THEN [covered EXCEPT ![p] = @ \cup db] ELSE covered
    /\ UNCHANGED <<disk, inputs, history>>

\* The entries of each list that the coverage of the same workdir reaches.  A
\* workdir without coverage or list adds nothing, or ends the process.
\* (Seeded fault: the coverage of all workdirs and every list.)
ReachedMixed(p) == {e \in Listed(p) : \E i \in Given(p) : e[1] \in hit[i]}
Reached(p) == UNION {{e \in Entry(i) : e[1] \in hit[i]} : i \in Given(p)}

Match(p) ==
    /\ Step(p, "match", IF "save" \in options[p] THEN "merge" ELSE "report")
    /\ covered' = [covered EXCEPT ![p] = @ \cup Reached(p)]
    /\ UNCHANGED <<disk, inputs, history>>

\* The file is merged if it exists; a torn one cannot be read.
\* (Seeded fault: what is in the file is not merged.)
MergedNot(p) == covered[p]
Merged(p) == IF file = "whole" THEN covered[p] \cup db ELSE covered[p]

Merge(p) ==
    /\ Step(p, "merge", IF file = "torn" THEN "failed" ELSE "truncate")
    /\ covered' = [covered EXCEPT ![p] = Merged(p)]
    /\ fresh' = fresh \cup {p}
    /\ UNCHANGED <<disk, inputs, raced>>

Writers == {p \in Procs : stage[p] = "dump"}

\* open("wb+") ...
Truncate(p) ==
    /\ Step(p, "truncate", "dump")
    /\ db' = {} /\ file' = "torn"
    /\ tangled' = (Writers # {})
    /\ fresh' = fresh \cap {p}
    /\ raced' = (raced \/ p \notin fresh)
    /\ UNCHANGED <<inputs, covered>>

\* ... and pickle.dump; the bytes of two that write at a time may mix.
Dump(p) ==
    /\ Step(p, "dump", "report")
    /\ \/ db' = covered[p] /\ file' = "whole"
       \/ tangled /\ db' = {} /\ file' = "torn"
    /\ UNCHANGED <<tangled, inputs, covered, history>>

\* The summary: the sign of each function of the lists ...
NotCovered(p) == Listed(p) \ covered[p]
Sign(p, f) ==
    IF f \notin Funcs(covered[p]) THEN "-"
    ELSE IF f \in Funcs(NotCovered(p)) THEN "/" ELSE "+"

\* ... and, with --reachability, the functions that lack coverage, those with
\* a concern first.
OpenConcerns(p) == Funcs({e \in NotCovered(p) : e[2] = "concern"})
OpenSafe(p) == Funcs({e \in NotCovered(p) : e[2] = "safe"}) \ OpenConcerns(p)

Report(p) ==
    /\ Step(p, "report", "exit")
    /\ UNCHANGED <<disk, inputs, covered, history>>

Crash(p) ==
    /\ stage[p] \notin Over
    /\ stage' = [stage EXCEPT ![p] = "failed"]
    /\ raced' = (raced \/ stage[p] = "dump")
    /\ UNCHANGED <<disk, inputs, covered, fresh>>

Next ==
    \E p \in Procs :
        \/ Start(p) \/ Load(p) \/ Match(p) \/ Merge(p) \/ Truncate(p) \/ Dump(p)
        \/ Report(p) \/ Crash(p)

Spec == Init /\ [][Next]_vars

-----------------------------------------------------------------------------
(* Properties.                                                             *)

\* What the summary says of a function is true of the workdirs, however
\* processes interleave and are killed, although entries are compared with the
\* class that each list gives them: the workdirs of some process reach every
\* entry of a function signed +, those of the process itself none of one signed
\* -, and not all of one signed /; and a concern that no process reaches is
\* neither passed over nor shown as safe (smatcher/__init__.py:158-298).
SignsJustified ==
    LET true(p) == {e \in Entries : \E i \in Given(p) : list[i][e[1]] = e[2] /\ e[1] \in hit[i]}
        known   == UNION {true(p) : p \in Procs}
    IN  /\ db \subseteq known
        /\ \A p \in Procs, f \in Funcs(Entries) :
              LET mine == {e \in Listed(p) : Function[e[1]] = f}
              IN  stage[p] = "exit" /\ mine # {} =>
                    /\ Sign(p, f) = "+" => mine \subseteq known
                    /\ Sign(p, f) = "-" => mine \cap true(p) = {}
                    /\ Sign(p, f) = "/" => /\ ~(mine \subseteq true(p))
                                          /\ f \in Funcs(known)
                    /\ (\E e \in mine \ known : e[2] = "concern") =>
                            f \in OpenConcerns(p) \ OpenSafe(p)

\* What the database holds; a process that writes stands for what it writes.
Saved == IF file = "torn" THEN UNION {covered[p] : p \in Writers} ELSE db

Store == INSTANCE CoverageStore WITH saved <- Saved

\* The database loses nothing, in any interleaving, until a process writes what
\* it merged before another one truncated the file, or is killed while it
\* writes (smatcher/__init__.py:183-189).
LossOnlyByRace ==
    [][~raced' => Store!Merge]_vars
=============================================================================
