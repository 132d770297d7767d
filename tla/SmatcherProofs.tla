--------------------------- MODULE SmatcherProofs ----------------------------
(***************************************************************************)
(* Proofs about SmatcherDb, for all sets of processes, workdirs and places *)
(* and every function a place may be of.                                   *)
(***************************************************************************)
EXTENDS SmatcherDb, TLAPS

Stages == {"new", "load", "match", "merge", "truncate", "dump", "report", "exit", "failed"}

TypeOK ==
    /\ db \subseteq Entries /\ file \in {"absent", "torn", "whole"} /\ tangled \in BOOLEAN
    /\ stage \in [Procs -> Stages]
    /\ options \in [Procs -> SUBSET {"load", "save"}]
    /\ owner \in [Items -> Procs]
    /\ list \in [Items -> [Places -> Classes \cup {None}]]
    /\ hit \in [Items -> SUBSET Places]
    /\ covered \in [Procs -> SUBSET Entries]
    /\ fresh \subseteq Procs /\ raced \in BOOLEAN

-----------------------------------------------------------------------------
(* The inductive invariant.                                                *)

(* What the workdirs of all processes reach.                               *)
Known == UNION {Reached(p) : p \in Procs}

(* A process knows what its own workdirs reach, and nothing that none      *)
(* reach; neither does the file.                                           *)
Justified ==
    /\ db \subseteq Known
    /\ \A p \in Procs :
          /\ covered[p] \subseteq Known
          /\ stage[p] \notin {"new", "load", "match", "failed"} => Reached(p) \subseteq covered[p]

(* As long as no file was truncated in a race, one process at a time       *)
(* writes, the file is torn while it does, and a process about to truncate *)
(* the file it merged holds all that is in it.                             *)
InTurn ==
    /\ file # "whole" => db = {}
    /\ ~raced =>
        /\ file = "torn" <=> Writers # {}
        /\ \A p, q \in Writers : p = q
        /\ Writers # {} => ~tangled
        /\ \A p \in fresh : stage[p] = "truncate" => file # "torn" /\ db \subseteq covered[p]

SmatcherInv == TypeOK /\ Justified /\ InTurn

-----------------------------------------------------------------------------
(* The inputs of a process do not change, so that what they reach does not *)
(* either.                                                                 *)
LEMMA InputsStay ==
    ASSUME UNCHANGED inputs
    PROVE  (\A p \in Procs : Reached(p)' = Reached(p)) /\ Known' = Known
BY DEF inputs, Known, Reached, Given, Entry

(* The database is empty at first and no process has started.              *)
LEMMA InitSmatcher == Init => SmatcherInv
<1> SUFFICES ASSUME Init
             PROVE  SmatcherInv
  OBVIOUS
<1>1. TypeOK
  BY DEF Init, TypeOK, Stages
<1>2. Justified /\ InTurn
  BY DEF Init, Justified, InTurn, Writers
<1>3. QED
  BY <1>1, <1>2 DEF SmatcherInv

OneStep(p) ==
    \/ Start(p) \/ Load(p) \/ Match(p) \/ Merge(p) \/ Truncate(p) \/ Dump(p)
    \/ Report(p) \/ Crash(p)

(* A step moves one process and changes at most what this one knows.       *)
LEMMA StepFrame ==
    ASSUME SmatcherInv, NEW p \in Procs, OneStep(p)
    PROVE  /\ TypeOK' /\ UNCHANGED inputs
           /\ \A q \in Procs \ {p} : stage'[q] = stage[q] /\ covered'[q] = covered[q]
           /\ Reached(p) \subseteq Entries
<1>1. TypeOK /\ Reached(p) \subseteq Entries
  BY DEF SmatcherInv, Reached, Entry
<1> USE <1>1 DEF TypeOK, Stages, inputs, disk, history, Step
<1>2. CASE Start(p) \/ Report(p)
  BY <1>2 DEF Start, Report
<1>3. CASE Load(p)
  BY <1>3 DEF Load
<1>4. CASE Match(p)
  BY <1>4 DEF Match
<1>5. CASE Merge(p)
  BY <1>5 DEF Merge, Merged
<1>6. CASE Truncate(p)
  BY <1>6 DEF Truncate
<1>7. CASE Dump(p)
  BY <1>7 DEF Dump
<1>8. CASE Crash(p)
  BY <1>8 DEF Crash
<1>9. QED
  BY <1>2, <1>3, <1>4, <1>5, <1>6, <1>7, <1>8 DEF OneStep

(* What a process prints as covered, it has read from its traces or from   *)
(* the database, which holds only what a process once read.                *)
LEMMA StepJustified ==
    ASSUME SmatcherInv, NEW p \in Procs, OneStep(p)
    PROVE  Justified'
<1>1. /\ Justified /\ TypeOK /\ Known' = Known
      /\ \A q \in Procs : Reached(q)' = Reached(q) /\ Reached(q) \subseteq Known
      /\ \A q \in Procs \ {p} : stage'[q] = stage[q] /\ covered'[q] = covered[q]
  BY StepFrame, InputsStay DEF SmatcherInv, Known
<1>2. db' \subseteq Known
  <2>1. db' = db \/ db' = {} \/ db' = covered[p]
    BY DEF OneStep, Start, Load, Match, Merge, Truncate, Dump, Report, Crash, disk
  <2>2. QED
    BY <1>1, <2>1 DEF Justified
<1>3. /\ covered'[p] \subseteq Known
      /\ stage'[p] \notin {"new", "load", "match", "failed"} => Reached(p) \subseteq covered'[p]
  <2> USE <1>1 DEF Justified, TypeOK, Step, disk
  <2>1. CASE Start(p) \/ Truncate(p) \/ Dump(p) \/ Report(p) \/ Crash(p)
    BY <2>1 DEF Start, Truncate, Dump, Report, Crash
  <2>2. CASE Load(p)
    BY <2>2 DEF Load
  <2>3. CASE Match(p)
    BY <2>3 DEF Match
  <2>4. CASE Merge(p)
    BY <2>4 DEF Merge, Merged
  <2>5. QED
    BY <2>1, <2>2, <2>3, <2>4 DEF OneStep
<1>4. QED
  BY <1>1, <1>2, <1>3 DEF Justified

(* While no race and no kill has happened, the next write of the database  *)
(* contains the last.                                                      *)
LEMMA StepInTurn ==
    ASSUME SmatcherInv, NEW p \in Procs, OneStep(p)
    PROVE  InTurn'
<1>1. /\ InTurn /\ TypeOK /\ TypeOK'
      /\ \A q \in Procs \ {p} : stage'[q] = stage[q] /\ covered'[q] = covered[q]
  BY StepFrame DEF SmatcherInv
<1>2. \A q \in Procs : q \in Writers <=> stage[q] = "dump"
  BY DEF Writers
<1>3. \A q \in Procs : q \in Writers' <=> stage'[q] = "dump"
  BY DEF Writers
<1>4. Writers \subseteq Procs /\ Writers' \subseteq Procs
  BY DEF Writers
<1>5. CASE Start(p) \/ Report(p) \/ Load(p) \/ Match(p)
  <2>1. /\ UNCHANGED <<db, file, tangled, fresh, raced>>
        /\ stage[p] \notin {"dump", "truncate"} /\ stage'[p] \notin {"dump", "truncate"}
    BY <1>1, <1>5 DEF Start, Report, Load, Match, Step, disk, history, TypeOK
  <2>2. Writers' = Writers
    BY <1>1, <1>2, <1>3, <1>4, <2>1
  <2>3. \A q \in fresh : stage'[q] = "truncate" => stage[q] = "truncate" /\ covered'[q] = covered[q]
    BY <1>1, <2>1 DEF TypeOK
  <2>4. QED
    BY <1>1, <2>1, <2>2, <2>3 DEF InTurn
<1>6. CASE Merge(p)
  <2>1. /\ UNCHANGED <<db, file, tangled, raced>> /\ fresh' = fresh \cup {p}
        /\ stage[p] = "merge" /\ stage'[p] = (IF file = "torn" THEN "failed" ELSE "truncate")
        /\ covered'[p] = IF file = "whole" THEN covered[p] \cup db ELSE covered[p]
    BY <1>1, <1>6 DEF Merge, Merged, Step, disk, TypeOK
  <2>2. Writers' = Writers
    BY <1>1, <1>2, <1>3, <1>4, <2>1
  <2>3. stage'[p] = "truncate" => file # "torn" /\ db \subseteq covered'[p]
    BY <1>1, <2>1 DEF InTurn
  <2>4. \A q \in fresh \ {p} : stage'[q] = stage[q] /\ covered'[q] = covered[q]
    BY <1>1 DEF TypeOK
  <2>5. QED
    BY <1>1, <2>1, <2>2, <2>3, <2>4 DEF InTurn
<1>7. CASE Truncate(p)
  <2>1. /\ db' = {} /\ file' = "torn" /\ tangled' = (Writers # {}) /\ fresh' = fresh \cap {p}
        /\ raced' = (raced \/ p \notin fresh)
        /\ stage[p] = "truncate" /\ stage'[p] = "dump"
    BY <1>1, <1>7 DEF Truncate, Step, TypeOK
  <2>2. Writers' = Writers \cup {p}
    BY <1>1, <1>2, <1>3, <1>4, <2>1
  <2>3. ~raced' => Writers = {}
    BY <1>1, <2>1 DEF InTurn
  <2>4. QED
    BY <2>1, <2>2, <2>3 DEF InTurn
<1>8. CASE Dump(p)
  <2>1. /\ stage[p] = "dump" /\ stage'[p] = "report" /\ UNCHANGED <<tangled, covered, fresh, raced>>
        /\ \/ file' = "whole"
           \/ tangled /\ db' = {} /\ file' = "torn"
    BY <1>1, <1>8 DEF Dump, Step, TypeOK, history
  <2>2. ~raced => Writers = {p} /\ ~tangled /\ file = "torn"
    BY <1>1, <1>2, <2>1 DEF InTurn
  <2>3. ~raced => Writers' = {}
    BY <1>1, <1>2, <1>3, <1>4, <2>1, <2>2
  <2>4. ~raced => \A q \in fresh' : stage'[q] # "truncate"
    BY <1>1, <2>1, <2>2 DEF InTurn, TypeOK
  <2>5. QED
    BY <2>1, <2>2, <2>3, <2>4 DEF InTurn
<1>9. CASE Crash(p)
  <2>1. /\ UNCHANGED <<db, file, tangled, covered, fresh>> /\ stage'[p] = "failed"
        /\ raced' = (raced \/ stage[p] = "dump")
    BY <1>1, <1>9 DEF Crash, disk, TypeOK
  <2>2. ~raced' => ~raced /\ Writers' = Writers
    BY <1>1, <1>2, <1>3, <1>4, <2>1
  <2>3. \A q \in fresh : stage'[q] = "truncate" => stage[q] = "truncate"
    BY <1>1, <2>1 DEF TypeOK
  <2>4. QED
    BY <1>1, <2>1, <2>2, <2>3 DEF InTurn
<1>10. QED
  BY <1>5, <1>6, <1>7, <1>8, <1>9 DEF OneStep

(* Every step preserves the invariant.                                     *)
LEMMA SmatcherStep == SmatcherInv /\ [Next]_vars => SmatcherInv'
<1> SUFFICES ASSUME SmatcherInv, [Next]_vars
             PROVE  SmatcherInv'
  OBVIOUS
<1>1. ASSUME NEW p \in Procs, OneStep(p)
      PROVE  SmatcherInv'
  BY <1>1, StepFrame, StepJustified, StepInTurn DEF SmatcherInv
<1>2. CASE UNCHANGED vars
  <2>1. UNCHANGED <<disk, stage, inputs, covered, history>>
    BY <1>2 DEF vars
  <2>2. Known' = Known /\ (\A p \in Procs : Reached(p)' = Reached(p)) /\ Writers' = Writers
    BY <2>1, InputsStay DEF Writers
  <2>3. TypeOK'
    BY <2>1 DEF SmatcherInv, TypeOK, disk, inputs, history
  <2>4. Justified' /\ InTurn'
    BY <2>1, <2>2 DEF SmatcherInv, Justified, InTurn, disk, history
  <2>5. QED
    BY <2>3, <2>4 DEF SmatcherInv
<1>3. QED
  BY <1>1, <1>2 DEF Next, OneStep

(* Whatever the processes do to the file, the entries in it are justified, *)
(* and until a race they take turns.                                       *)
THEOREM SmatcherInvAlways == Spec => []SmatcherInv
BY InitSmatcher, SmatcherStep, PTL DEF Spec

-----------------------------------------------------------------------------
(* What the summary says of a function is true of the workdirs, however    *)
(* processes interleave (smatcher/__init__.py:158-298).                    *)
THEOREM SpecSignsJustified == Spec => []SignsJustified
<1> DEFINE true(p) == {e \in Entries : \E i \in Given(p) : list[i][e[1]] = e[2] /\ e[1] \in hit[i]}
           known   == UNION {true(p) : p \in Procs}
           Holds(p, f, mine, K) ==
             /\ Sign(p, f) = "+" => mine \subseteq K
             /\ Sign(p, f) = "-" => mine \cap true(p) = {}
             /\ Sign(p, f) = "/" => /\ ~(mine \subseteq true(p))
                                   /\ f \in Funcs(K)
             /\ (\E e \in mine \ K : e[2] = "concern") => f \in OpenConcerns(p) \ OpenSafe(p)
<1>1. ASSUME SmatcherInv
      PROVE  SignsJustified
  <2>1. TypeOK /\ Justified
    BY <1>1 DEF SmatcherInv
  <2>2. \A p \in Procs : true(p) = Reached(p)
    BY DEF Reached, Entry
  <2>3. UNION {true(p) : p \in Procs} = Known
    BY <2>2 DEF Known
  <2>4. known = Known
    BY <2>3
  <2>5. db \subseteq known
    BY <2>1, <2>4 DEF Justified
  <2>6. ASSUME NEW p \in Procs, NEW f \in Funcs(Entries), stage[p] = "exit"
        PROVE  Holds(p, f, {e \in Listed(p) : Function[e[1]] = f}, known)
    <3> DEFINE mine == {e \in Listed(p) : Function[e[1]] = f}
    <3>1. true(p) \subseteq covered[p] /\ covered[p] \subseteq known
      BY <2>1, <2>2, <2>4, <2>6 DEF Justified
    <3>2. Sign(p, f) = "+" => mine \subseteq covered[p]
      BY DEF Sign, Funcs, NotCovered
    <3>3. Sign(p, f) = "-" => mine \cap covered[p] = {}
      BY DEF Sign, Funcs
    <3>4. Sign(p, f) = "/" => ~(mine \subseteq covered[p]) /\ f \in Funcs(covered[p])
      BY DEF Sign, Funcs, NotCovered
    <3> HIDE DEF known, true
    <3>5. f \in Funcs(covered[p]) => f \in Funcs(known)
      BY <3>1 DEF Funcs
    <3>6. ASSUME NEW e \in mine \ known, e[2] = "concern"
          PROVE  f \in OpenConcerns(p) \ OpenSafe(p)
      BY <3>1, <3>6 DEF OpenConcerns, OpenSafe, NotCovered, Funcs
    <3> HIDE DEF mine
    <3>7. Holds(p, f, mine, known)
      BY <3>1, <3>2, <3>3, <3>4, <3>5, <3>6
    <3>8. QED
      BY <3>7 DEF mine
  <2>7. QED
    BY <2>5, <2>6 DEF SignsJustified
<1>2. QED
  BY <1>1, SmatcherInvAlways, PTL

(* The database loses nothing in a step that leaves it without a race:     *)
(* such a step merges entries into it, or none                             *)
(* (smatcher/__init__.py:183-189).                                         *)
THEOREM SpecLossOnlyByRace == Spec => LossOnlyByRace
<1>1. ASSUME SmatcherInv, NEW p \in Procs, OneStep(p), ~raced'
      PROVE  Saved \subseteq Saved' /\ Saved' \subseteq Entries
  <2>1. /\ InTurn /\ TypeOK /\ TypeOK' /\ Writers \subseteq Procs /\ Writers' \subseteq Procs
        /\ \A q \in Procs \ {p} : stage'[q] = stage[q] /\ covered'[q] = covered[q]
        /\ \A q \in Procs : q \in Writers <=> stage[q] = "dump"
        /\ \A q \in Procs : q \in Writers' <=> stage'[q] = "dump"
    BY <1>1, StepFrame DEF SmatcherInv, Writers
  <2>2. Saved' \subseteq Entries
    BY <2>1 DEF Saved, TypeOK
  <2>3. CASE Start(p) \/ Report(p) \/ Load(p) \/ Match(p) \/ Merge(p) \/ Crash(p)
    <3>1. /\ UNCHANGED <<db, file>> /\ p \notin Writers /\ p \notin Writers'
      BY <1>1, <2>1, <2>3 DEF Start, Report, Load, Match, Merge, Crash, Step, disk, TypeOK
    <3>2. Writers' = Writers /\ \A q \in Writers : covered'[q] = covered[q]
      BY <2>1, <3>1
    <3>3. QED
      BY <2>2, <3>1, <3>2 DEF Saved
  <2>4. CASE Truncate(p)
    <3>1. /\ file' = "torn" /\ p \in fresh /\ ~raced /\ UNCHANGED covered
          /\ stage[p] = "truncate" /\ p \in Writers'
      BY <1>1, <2>1, <2>4 DEF Truncate, Step, TypeOK
    <3>2. file # "torn" /\ db \subseteq covered[p]
      BY <2>1, <3>1 DEF InTurn
    <3>3. QED
      BY <2>2, <3>1, <3>2 DEF Saved
  <2>5. CASE Dump(p)
    <3>1. p \in Writers /\ ~raced /\ UNCHANGED <<covered, tangled>>
      BY <1>1, <2>1, <2>5 DEF Dump, Step, TypeOK, history
    <3>2. Writers = {p} /\ ~tangled /\ file = "torn"
      BY <2>1, <3>1 DEF InTurn
    <3>3. db' = covered[p] /\ file' = "whole"
      BY <2>5, <3>2 DEF Dump
    <3>4. QED
      BY <2>2, <3>2, <3>3 DEF Saved
  <2>6. QED
    BY <1>1, <2>3, <2>4, <2>5 DEF OneStep
<1>2. SmatcherInv /\ [Next]_vars => [~raced' => Store!Merge]_vars
  <2> SUFFICES ASSUME SmatcherInv, Next, ~raced'
               PROVE  Store!Merge
    OBVIOUS
  <2>1. Saved \subseteq Saved' /\ Saved' \subseteq Entries
    BY <1>1 DEF Next, OneStep
  <2>2. Saved' = Saved \cup Saved'
    BY <2>1
  <2>3. QED
    BY <2>1, <2>2 DEF Store!Merge
<1>3. QED
  BY <1>2, SmatcherInvAlways, PTL DEF Spec, LossOnlyByRace
=============================================================================
