---------------------------- MODULE WorkdirProofs ----------------------------
(***************************************************************************)
(* Proofs about Launcher and Workdir, for all sets of workdirs, numbers of *)
(* builds and of traces.                                                   *)
(***************************************************************************)
EXTENDS Workdir, TLAPS

Commands == {"idle", "clear", "copy", "config", "launch"}

LauncherTypes ==
    /\ built \in 1 .. MaxRev /\ hasConf \in BOOLEAN
    /\ stored \in [Workdirs -> 0 .. MaxRev] /\ corpus \in [Workdirs -> 0 .. MaxRev]
    /\ cmd \in Commands /\ root \in Roots /\ dir \in Workdirs

-----------------------------------------------------------------------------
(* The workdirs, as `fuzz.sh run' changes them.                            *)

(* A run that is past the removal has a workdir without results; past the  *)
(* copy, one with the kernel that it launches.                             *)
Prepared ==
    /\ cmd \in {"copy", "config", "launch"} => corpus[dir] = None
    /\ cmd \in {"config", "launch"} => stored[dir] = KernelAt(root)

LauncherInv == LauncherTypes /\ Prepared /\ StoredIsFuzzed

(* The assumptions on the constants, in the form the proofs use.           *)
LEMMA Assumed ==
    /\ (CHOOSE w \in Workdirs : TRUE) \in Workdirs
    /\ MaxRev \in Nat \ {0} /\ MaxTraces \in Nat \ {0} /\ Watched \in Workdirs
BY LauncherAssumption, WorkdirAssumption

(* What a folder is, and where its kernel and its workdir are.             *)
LEMMA Folders ==
    ASSUME LauncherTypes, NEW r \in Roots, NEW e \in Workdirs
    PROVE  /\ r # Target => r[2] \in Workdirs /\ KernelAt(r) = stored[r[2]]
           /\ r[1] = "workdir" => r # Target /\ WorkDirOf(r, e) = r[2]
           /\ KernelAt(r) \in 0 .. MaxRev
           /\ WorkDirOf(r, e) \in Workdirs
           /\ Target \in Roots
<1>1. r = Target \/ r \in {"workdir", "copy"} \X Workdirs
  BY DEF Roots
<1>2. r # Target => r[2] \in Workdirs
  BY <1>1
<1>3. Target[1] # "workdir"
  BY DEF Target
<1>4. KernelAt(r) \in 0 .. MaxRev
  BY <1>2, Assumed DEF KernelAt, LauncherTypes
<1>5. QED
  BY <1>2, <1>3, <1>4 DEF KernelAt, WorkDirOf, Roots

(* At first nothing is stored and no command runs.                         *)
LEMMA InitLauncher == Init => LauncherInv
<1> SUFFICES ASSUME Init
             PROVE  LauncherInv
  OBVIOUS
<1>1. LauncherTypes
  BY Assumed DEF Init, LauncherTypes, Commands, Roots, None
<1>2. QED
  BY <1>1 DEF Init, LauncherInv, Prepared, StoredIsFuzzed

(* Every step of the launcher preserves its invariant.                     *)
LEMMA LauncherStep == LauncherInv /\ [Next]_vars => LauncherInv'
<1> SUFFICES ASSUME LauncherInv, [Next]_vars
             PROVE  LauncherInv'
  OBVIOUS
<1>1. LauncherTypes /\ Prepared /\ StoredIsFuzzed
  BY DEF LauncherInv
<1>2. /\ Target \in Roots /\ KernelAt(root) \in 0 .. MaxRev /\ 0 \in 0 .. MaxRev
      /\ root # Target => root[2] \in Workdirs /\ KernelAt(root) = stored[root[2]]
  BY <1>1, Folders, Assumed DEF LauncherTypes
<1>3. ASSUME NEW r \in Roots, NEW e \in Workdirs, Run(r, e)
      PROVE  LauncherInv'
  <2>1. LauncherTypes'
    BY <1>1, <1>3, Folders DEF Run, LauncherTypes, Commands
  <2>2. QED
    BY <1>1, <1>3, <2>1 DEF Run, LauncherInv, Prepared, StoredIsFuzzed
<1>4. CASE Clear
  <2>1. LauncherTypes' /\ cmd' = "copy" /\ corpus'[dir] = None /\ dir' = dir
    BY <1>1, <1>2, <1>4 DEF Clear, Then, Cleared, Erases, args, LauncherTypes, Commands, None
  <2>2. \A w \in Workdirs : corpus'[w] # None => corpus'[w] = corpus[w] /\ stored'[w] = stored[w]
    BY <1>1, <1>4 DEF Clear, Cleared, LauncherTypes
  <2>3. QED
    BY <1>1, <2>1, <2>2 DEF LauncherInv, Prepared, StoredIsFuzzed
<1>5. CASE CopyKernel
  <2>1. /\ cmd = "copy" /\ cmd' = "config" /\ UNCHANGED <<built, hasConf, corpus, root, dir>>
        /\ stored' = [stored EXCEPT ![dir] = KernelAt(root)]
        /\ root # Target => root[2] # dir
    BY <1>5 DEF CopyKernel, Then, args
  <2>2. LauncherTypes'
    BY <1>1, <1>2, <2>1 DEF LauncherTypes, Commands
  <2>3. stored'[dir] = KernelAt(root)'
    BY <1>1, <1>2, <2>1 DEF KernelAt, LauncherTypes
  <2>4. QED
    BY <1>1, <2>1, <2>2, <2>3 DEF LauncherInv, Prepared, StoredIsFuzzed, LauncherTypes
<1>6. CASE CopyConfig
  <2>1. cmd = "config" /\ cmd' = "launch" /\ UNCHANGED <<built, hasConf, stored, corpus, root, dir>>
    BY <1>6 DEF CopyConfig, Then, args
  <2>2. QED
    BY <1>1, <2>1 DEF LauncherInv, LauncherTypes, Commands, Prepared, KernelAt, StoredIsFuzzed
<1>7. CASE Launch
  <2>1. /\ cmd = "launch" /\ Gone /\ UNCHANGED <<built, hasConf, stored>>
        /\ corpus' = [corpus EXCEPT ![dir] = KernelAt(root)]
    BY <1>7 DEF Launch
  <2>2. LauncherTypes'
    BY <1>1, <1>2, <2>1, Assumed DEF LauncherTypes, Gone, Commands
  <2>3. StoredIsFuzzed'
    BY <1>1, <2>1 DEF StoredIsFuzzed, Prepared, LauncherTypes
  <2>4. QED
    BY <2>1, <2>2, <2>3 DEF LauncherInv, Prepared, Gone
<1>8. CASE Stop \/ StopInClear
  <2>1. /\ Gone /\ UNCHANGED <<built, hasConf>>
        /\ \A w \in Workdirs : /\ corpus'[w] \in {corpus[w], None}
                               /\ stored'[w] \in {stored[w], None}
        /\ corpus' \in [Workdirs -> 0 .. MaxRev] /\ stored' \in [Workdirs -> 0 .. MaxRev]
    BY <1>1, <1>2, <1>8 DEF Stop, StopInClear, LauncherTypes, None
  <2>2. LauncherTypes'
    BY <1>1, <1>2, <2>1, Assumed DEF LauncherTypes, Gone, Commands
  <2>3. QED
    BY <1>1, <2>1, <2>2 DEF LauncherInv, Prepared, Gone, StoredIsFuzzed
<1>9. CASE Rebuild
  <2>1. LauncherTypes'
    BY <1>1, <1>9, Assumed DEF Rebuild, LauncherTypes, args
  <2>2. QED
    BY <1>1, <1>9, <2>1 DEF Rebuild, LauncherInv, Prepared, StoredIsFuzzed
<1>10. CASE UNCHANGED vars
  BY <1>1, <1>10 DEF vars, args, LauncherInv, LauncherTypes, Prepared, KernelAt, StoredIsFuzzed
<1>11. QED
  BY <1>3, <1>4, <1>5, <1>6, <1>7, <1>8, <1>9, <1>10 DEF Next

(* A workdir never holds results of one kernel and a copy of another, when *)
(* `fuzz.sh run' is all that changes it (fuzz.sh:153-184).                 *)
THEOREM LauncherStoredIsFuzzed == Spec => []StoredIsFuzzed
<1>1. LauncherInv => StoredIsFuzzed
  BY DEF LauncherInv
<1>2. QED
  BY <1>1, InitLauncher, LauncherStep, PTL DEF Spec

-----------------------------------------------------------------------------
(* The traces of a workdir and the lists made of them.                     *)

Lists == {addrs, lines, match, cover}
ListTypes == [from : 0 .. MaxTraces, all : BOOLEAN, whole : BOOLEAN]
TraceTypes ==
    /\ traces \in 0 .. MaxTraces
    /\ step \in {"idle", "fast", "lines", "dumped", "match", "end"}
    /\ ghidra \in BOOLEAN /\ fast \in BOOLEAN /\ ended \in BOOLEAN /\ spoiled \in BOOLEAN
    /\ tracedBy \in [1 .. MaxTraces -> 0 .. MaxRev] /\ partial \in BOOLEAN

(* A list that there may be after t traces: none, or of one of these.      *)
Proper(x, t) ==
    /\ x \in ListTypes
    /\ x = Traces!None \/ x.from \in 1 .. t
ProperLists == \A x \in Lists : Proper(x, traces)

(* What a decoding may rely on, and what there is when it ended.           *)
Complete ==
    IF fast THEN traces # 0 /\ cover = Traces!Made(TRUE, TRUE)
            ELSE match = lines /\ lines # Traces!None /\ (~spoiled => Traces!Fresh(lines))
Decoded ==
    /\ step = "fast" => fast
    /\ step \in {"lines", "dumped", "match"} => ~fast
    /\ step = "lines" /\ ~spoiled /\ Traces!Reused # Traces!None => Traces!Fresh(Traces!Reused)
    /\ step = "dumped" => traces # 0
    /\ step = "dumped" /\ ~spoiled /\ addrs # Traces!None => Traces!Fresh(addrs)
    /\ step = "match" => lines # Traces!None /\ (~spoiled => Traces!Fresh(lines))
    /\ step = "end" \/ ended => Complete
    /\ step # "idle" => ~ended

(* The traces of a workdir go when its corpus goes.                        *)
NoneLeft == corpus[Watched] = None /\ ~partial => traces = 0

TraceInv == TraceTypes /\ ProperLists /\ Decoded
WorkdirInv == LauncherInv /\ TraceInv /\ NoneLeft /\ ListsMatchKernel

(* The absent list is a list, made after no traces.                        *)
LEMMA NoneFacts == Traces!None \in ListTypes /\ Traces!None.from = 0
<1>1. MaxTraces \in Nat
  BY Assumed
<1>2. QED
  BY <1>1 DEF Traces!None, ListTypes

(* No list is proper, and so is one made after t traces.                   *)
LEMMA ProperFacts ==
    ASSUME NEW t \in 0 .. MaxTraces
    PROVE  /\ Proper(Traces!None, t)
           /\ \A x \in ListTypes : x.from = t /\ t # 0 => x # Traces!None /\ Proper(x, t)
<1>1. MaxTraces \in Nat
  BY Assumed
<1>2. QED
  BY <1>1, NoneFacts DEF Proper

(* A list that is made now is of the traces that exist now.                *)
LEMMA MadeOf ==
    ASSUME TraceTypes
    PROVE  /\ \A x \in {Traces!Made(TRUE, TRUE), Traces!Made(FALSE, TRUE), Traces!Made(FALSE, FALSE)} :
                 x \in ListTypes /\ x.from = traces
           /\ Traces!Made(TRUE, TRUE).whole /\ Traces!Made(FALSE, TRUE).whole
BY Assumed DEF Traces!Made, TraceTypes, ListTypes

(* At first the watched workdir has neither traces nor lists.              *)
LEMMA InitWorkdir == WorkdirInit => WorkdirInv
<1> SUFFICES ASSUME WorkdirInit
             PROVE  WorkdirInv
  OBVIOUS
<1>1. LauncherInv
  BY InitLauncher DEF WorkdirInit
<1>2. /\ traces = 0 /\ step = "idle" /\ ~ended /\ spoiled = FALSE /\ ghidra = FALSE /\ fast = FALSE
      /\ partial = FALSE /\ ended = FALSE
      /\ tracedBy = [t \in 1 .. MaxTraces |-> None] /\ \A x \in Lists : x = Traces!None
  BY DEF WorkdirInit, Traces!Init, Lists
<1>3. TraceTypes
  <2>1. tracedBy \in [1 .. MaxTraces -> 0 .. MaxRev] /\ traces \in 0 .. MaxTraces
    BY <1>2, Assumed DEF None
  <2>2. QED
    BY <1>2, <2>1 DEF TraceTypes
<1>4. ProperLists /\ Decoded /\ NoneLeft
  BY <1>2, <1>3, ProperFacts DEF TraceTypes, ProperLists, Decoded, NoneLeft
<1>5. ListsMatchKernel
  BY <1>2, <1>3, NoneFacts DEF TraceTypes, ListsMatchKernel, Lists
<1>6. QED
  BY <1>1, <1>3, <1>4, <1>5 DEF WorkdirInv, TraceInv

(* The steps of a decoding keep what is known of the traces; a list that   *)
(* they make is of the current traces, or of those of another list.        *)
LEMMA DecodingKeeps ==
    ASSUME TraceInv, Traces!Decoding, UNCHANGED <<tracedBy, partial>>
    PROVE  /\ TraceInv' /\ UNCHANGED traces
           /\ \A x \in Lists' : x.from = traces \/ \E y \in Lists : x.from = y.from
<1>1. TraceTypes /\ ProperLists /\ Decoded /\ traces \in 0 .. MaxTraces
  BY DEF TraceInv, TraceTypes
<1>2. ASSUME UNCHANGED traces,
             \A x \in Lists' :
                \/ x \in Lists
                \/ /\ traces # 0
                   /\ x \in {Traces!Made(TRUE, TRUE), Traces!Made(FALSE, TRUE), Traces!Made(FALSE, FALSE)}
      PROVE  /\ ProperLists'
             /\ \A x \in Lists' : x.from = traces \/ \E y \in Lists : x.from = y.from
  <2> SUFFICES ASSUME NEW x \in Lists'
               PROVE  /\ Proper(x, traces')
                      /\ x.from = traces \/ \E y \in Lists : x.from = y.from
    BY DEF ProperLists
  <2>1. CASE x \in Lists
    <3>1. Proper(x, traces)
      BY <1>1, <2>1 DEF ProperLists
    <3>2. QED
      BY <1>2, <2>1, <3>1 DEF Proper
  <2>2. CASE x \notin Lists
    <3>1. traces # 0 /\ x \in ListTypes /\ x.from = traces
      BY <1>1, <1>2, <2>2, MadeOf
    <3>2. QED
      BY <1>1, <1>2, <3>1, ProperFacts
  <2>3. QED
    BY <2>1, <2>2
<1> USE <1>1 DEF TraceInv, TraceTypes, Decoded, Traces!Step, Traces!HasTraces,
       Traces!Fresh, Traces!Reused
<1>3. CASE Traces!FastMatch
  <2>1. /\ step = "fast" /\ step' = "end" /\ traces # 0 /\ cover' = Traces!Made(TRUE, TRUE)
        /\ UNCHANGED <<traces, addrs, lines, match, ghidra, fast, ended, spoiled>>
    BY <1>3 DEF Traces!FastMatch, Traces!opts
  <2>2. Traces!Made(TRUE, TRUE)' = Traces!Made(TRUE, TRUE)
    BY <2>1 DEF Traces!Made
  <2>3. Complete'
    BY <2>1, <2>2 DEF Complete
  <2>4. QED
    BY <1>2, <2>1, <2>3 DEF Lists
<1>4. CASE Traces!SkipLines
  BY <1>2, <1>4 DEF Traces!SkipLines, Traces!HaveLines, Traces!files, Traces!opts, Lists
<1>5. CASE Traces!NoTraces
  BY <1>2, <1>5 DEF Traces!NoTraces, Traces!Quit, Traces!files, Lists
<1>6. CASE Traces!Dump
  <2>1. /\ step = "lines" /\ step' = "dumped" /\ traces # 0 /\ lines = Traces!None
        /\ UNCHANGED <<traces, lines, match, cover, ghidra, fast, ended, spoiled>>
        /\ addrs' = addrs \/ (addrs = Traces!None /\ addrs' = Traces!Made(TRUE, TRUE))
    BY <1>6 DEF Traces!Dump, Traces!HaveLines, Traces!opts
  <2>2. ~spoiled /\ addrs' # Traces!None => Traces!Fresh(addrs)'
    <3>1. CASE addrs' = addrs
      BY <2>1, <3>1
    <3>2. CASE addrs' = Traces!Made(TRUE, TRUE)
      <4>1. addrs'.from = traces /\ addrs'.whole
        BY <3>2, MadeOf
      <4>2. QED
        BY <2>1, <4>1
    <3>3. QED
      BY <2>1, <3>1, <3>2
  <2>3. \A x \in Lists' : x \in Lists \/ (x = Traces!Made(TRUE, TRUE) /\ traces # 0)
    BY <2>1 DEF Lists
  <2>4. ProperLists' /\ \A x \in Lists' : x.from = traces \/ \E y \in Lists : x.from = y.from
    BY <1>2, <2>1, <2>3
  <2>5. QED
    BY <2>1, <2>2, <2>4
<1>7. CASE Traces!Decode
  <2> DEFINE source == IF addrs # Traces!None THEN addrs ELSE Traces!Made(FALSE, TRUE)
  <2>1. /\ step = "dumped" /\ step' = "match" /\ traces # 0
        /\ UNCHANGED <<traces, addrs, match, cover, ghidra, fast, ended>>
        /\ \/ lines' = source /\ UNCHANGED spoiled
           \/ lines' = [source EXCEPT !.whole = FALSE] /\ spoiled' = TRUE
    BY <1>7 DEF Traces!Decode, Traces!Cut, Traces!opts
  <2>2. /\ source \in ListTypes /\ source.from \in 1 .. traces
        /\ Proper(source, traces)
        /\ ~spoiled => Traces!Fresh(source)
        /\ source.from = traces \/ source \in Lists
    <3>1. CASE addrs # Traces!None
      <4>1. source = addrs /\ addrs \in Lists
        BY <3>1 DEF Lists
      <4>2. Proper(addrs, traces)
        BY <4>1 DEF ProperLists
      <4>3. ~spoiled => Traces!Fresh(addrs)
        BY <2>1, <3>1
      <4>4. QED
        BY <3>1, <4>1, <4>2, <4>3 DEF Proper
    <3>2. CASE addrs = Traces!None
      <4>1. source = Traces!Made(FALSE, TRUE) /\ traces \in 1 .. traces
        BY <2>1, <3>2
      <4>2. source \in ListTypes /\ source.from = traces /\ source.whole
        BY <4>1, MadeOf
      <4>3. QED
        BY <4>1, <4>2 DEF Proper
    <3>3. QED
      BY <3>1, <3>2
  <2> HIDE DEF source
  <2>3. /\ lines' \in ListTypes /\ lines'.from = source.from
        /\ ~spoiled' => lines' = source /\ ~spoiled
    BY <2>1, <2>2 DEF ListTypes
  <2>4. /\ lines' # Traces!None /\ Proper(lines', traces)
        /\ ~spoiled' => Traces!Fresh(lines)'
    <3>1. lines' # Traces!None /\ Proper(lines', traces)
      BY <2>2, <2>3, NoneFacts DEF Proper
    <3>2. QED
      BY <2>1, <2>2, <2>3, <3>1 DEF Traces!Fresh
  <2>5. ProperLists'
    <3>1. \A x : Proper(x, traces) => Proper(x, traces')
      BY <2>1 DEF Proper
    <3>2. QED
      BY <2>1, <2>4, <3>1 DEF ProperLists, Lists
  <2>6. \A x \in Lists' : x.from = traces \/ \E y \in Lists : x.from = y.from
    BY <2>1, <2>2, <2>3 DEF Lists
  <2>7. QED
    BY <2>1, <2>4, <2>5, <2>6
<1>8. CASE Traces!MatchLines
  BY <1>2, <1>8 DEF Traces!MatchLines, Traces!Matches, Traces!opts, Complete, Lists
<1>9. CASE Traces!End
  <2>1. /\ step = "end" /\ step' = "idle" /\ ghidra' = FALSE /\ ended' = TRUE
        /\ UNCHANGED <<traces, addrs, lines, match, cover, fast, spoiled>>
    BY <1>9 DEF Traces!End, Traces!Quit, Traces!files
  <2>2. Complete'
    BY <2>1 DEF Complete, Traces!Made
  <2>3. QED
    BY <1>2, <2>1, <2>2 DEF Lists
<1>10. CASE Traces!Stop
  <2>1. /\ step # "idle" /\ step' = "idle" /\ ghidra' = FALSE /\ spoiled' = FALSE
        /\ UNCHANGED <<fast, ended, traces>>
    BY <1>10 DEF Traces!Stop, Traces!Quit, Traces!files
  <2>2. \/ UNCHANGED <<addrs, lines, match, cover>>
        \/ /\ traces # 0
           /\ \A x \in Lists' : x \in Lists \/ x = Traces!Made(FALSE, FALSE)
    BY <1>10 DEF Traces!Stop, Traces!files, Lists
  <2>3. \A x \in Lists' : x \in Lists \/ (x = Traces!Made(FALSE, FALSE) /\ traces # 0)
    BY <2>2 DEF Lists
  <2>4. QED
    BY <1>2, <2>1, <2>3
<1>11. QED
  BY <1>3, <1>4, <1>5, <1>6, <1>7, <1>8, <1>9, <1>10 DEF Traces!Decoding

(* Whether the trace t, when there is one, is of the kernel stored in the  *)
(* workdir.                                                                *)
Current(t) == t # 0 /\ tracedBy[t] # None => tracedBy[t] = stored[Watched]

(* ListsMatchKernel with the kernel of each list named.                    *)
LEMMA Matching ==
    ListsMatchKernel <=> (~partial => Current(traces) /\ \A x \in Lists : Current(x.from))
BY DEF ListsMatchKernel, Current, Lists

(* After the removal there is no list.                                     *)
LEMMA NoLists ==
    ASSUME TraceInv, traces = 0
    PROVE  Current(traces) /\ \A x \in Lists : x = Traces!None /\ Current(x.from)
<1>1. \A x \in Lists : x = Traces!None
  BY DEF TraceInv, ProperLists, Proper
<1>2. QED
  BY <1>1, NoneFacts DEF Current

(* A run gives a workdir another kernel only when it has no corpus, and so *)
(* no traces.                                                              *)
LEMMA RunKeeps == ASSUME WorkdirInv, RunStep PROVE WorkdirInv'
<1>1. /\ LauncherInv /\ LauncherTypes /\ Prepared /\ TraceInv /\ NoneLeft /\ ListsMatchKernel
      /\ Next /\ UNCHANGED <<traces, addrs, lines, match, cover, step, ghidra, fast, ended, spoiled>>
      /\ UNCHANGED <<tracedBy, partial>>
  BY DEF WorkdirInv, LauncherInv, RunStep, Next, traceVars
<1>2. LauncherInv'
  BY <1>1, LauncherStep
<1>3. TraceInv'
  BY <1>1 DEF TraceInv, TraceTypes, ProperLists, Proper, Lists, Decoded, Complete, Traces!Made,
               Traces!Fresh, Traces!Reused
<1>4. /\ corpus'[Watched] = None => corpus[Watched] = None
      /\ stored'[Watched] # stored[Watched] => corpus[Watched] = None
  <2>1. Watched \in Workdirs
    BY Assumed
  <2>2. CASE (\E r \in Roots, e \in Workdirs : Run(r, e)) \/ CopyConfig \/ Stop \/ Rebuild
    BY <2>2 DEF Run, CopyConfig, Stop, Rebuild
  <2>3. CASE CopyKernel \/ Launch
    BY <1>1, <2>1, <2>3 DEF CopyKernel, Launch, Then, Prepared, LauncherTypes
  <2>4. CASE Clear /\ ~(dir = Watched /\ Erases(dir))
    BY <1>1, <2>1, <2>4 DEF Clear, Cleared, LauncherTypes
  <2>5. CASE StopInClear /\ dir # Watched
    BY <1>1, <2>1, <2>5 DEF StopInClear, LauncherTypes
  <2>6. QED
    BY <2>2, <2>3, <2>4, <2>5 DEF RunStep
<1>5. NoneLeft'
  BY <1>1, <1>4 DEF NoneLeft
<1>6. ListsMatchKernel'
  <2>1. CASE stored'[Watched] = stored[Watched]
    BY <1>1, <2>1 DEF ListsMatchKernel
  <2>2. CASE stored'[Watched] # stored[Watched] /\ ~partial
    <3>1. traces = 0 /\ \A x \in Lists : x = Traces!None
      BY <1>1, <1>4, <2>2, NoLists DEF NoneLeft
    <3>2. traces' = 0 /\ \A x \in Lists' : x.from = 0
      BY <1>1, <3>1, NoneFacts DEF Lists
    <3>3. QED
      BY <3>2, Matching DEF ListsMatchKernel, Lists
  <2>3. QED
    BY <1>1, <2>1, <2>2 DEF ListsMatchKernel
<1>7. QED
  BY <1>2, <1>3, <1>5, <1>6 DEF WorkdirInv

(* Nothing is known of the traces once they are removed.                   *)
LEMMA EraseKeeps ==
    ASSUME TraceInv, Traces!Erase, step = "idle", UNCHANGED tracedBy, partial' \in BOOLEAN
    PROVE  TraceInv' /\ traces' = 0 /\ ListsMatchKernel'
<1>1. /\ traces' = 0 /\ \A x \in Lists' : x = Traces!None
      /\ step' = "idle" /\ UNCHANGED <<ghidra, fast>> /\ ended' = FALSE /\ spoiled' = FALSE
  BY DEF Traces!Erase, Traces!opts, Lists
<1>2. TraceTypes'
  <2>1. traces' \in 0 .. MaxTraces
    BY <1>1, Assumed
  <2>2. QED
    BY <1>1, <2>1 DEF TraceInv, TraceTypes
<1>3. ProperLists' /\ Decoded'
  BY <1>1, NoneFacts DEF ProperLists, Proper, Decoded
<1>4. \A x \in Lists' : x.from = 0
  BY <1>1, NoneFacts
<1>5. QED
  BY <1>1, <1>2, <1>3, <1>4 DEF TraceInv, ListsMatchKernel, Lists

(* rm -rf, whole or stopped in the middle, preserves the invariant.        *)
LEMMA RemoveKeeps == ASSUME WorkdirInv, Remove \/ RemoveInPart PROVE WorkdirInv'
<1>1. /\ LauncherInv /\ TraceInv /\ step = "idle" /\ Next /\ UNCHANGED tracedBy
      /\ partial' \in BOOLEAN
  BY DEF WorkdirInv, Remove, RemoveInPart, Next
<1>2. LauncherInv'
  BY <1>1, LauncherStep
<1>3. CASE Remove
  BY <1>1, <1>2, <1>3, EraseKeeps DEF Remove, Removed, WorkdirInv, NoneLeft
<1>4. CASE RemoveInPart
  <2>1. partial' = TRUE
    BY <1>4 DEF RemoveInPart
  <2>2. TraceInv'
    <3>1. CASE Removed
      BY <1>1, <3>1, EraseKeeps DEF Removed
    <3>2. CASE UNCHANGED traceVars
      BY <1>1, <2>1, <3>2 DEF traceVars, TraceInv, TraceTypes, ProperLists, Proper, Lists, Decoded,
                             Complete, Traces!Made, Traces!Fresh, Traces!Reused
    <3>3. QED
      BY <1>4, <3>1, <3>2 DEF RemoveInPart
  <2>3. NoneLeft' /\ ListsMatchKernel'
    BY <2>1 DEF NoneLeft, ListsMatchKernel
  <2>4. QED
    BY <1>2, <2>2, <2>3 DEF WorkdirInv
<1>5. QED
  BY <1>3, <1>4

(* The kernel of a trace run that was given the workdir is the one stored  *)
(* there.                                                                  *)
LEMMA CovKeeps ==
    ASSUME WorkdirInv, NEW r \in Roots, NEW e \in Workdirs, Cov(r, e)
    PROVE  WorkdirInv'
<1>1. /\ LauncherInv /\ LauncherTypes /\ TraceInv /\ ListsMatchKernel
      /\ WorkDirOf(r, e) = Watched /\ corpus[Watched] # None
      /\ UNCHANGED <<vars, partial>>
      /\ step = "idle" /\ traces < MaxTraces /\ traces' = traces + 1 /\ ended' = FALSE /\ spoiled' = FALSE
      /\ UNCHANGED <<addrs, lines, match, cover, step, ghidra, fast>>
      /\ tracedBy' = [tracedBy EXCEPT ![traces'] = IF r[1] = "workdir" THEN KernelAt(r) ELSE None]
  BY DEF WorkdirInv, LauncherInv, Cov, Traces!Cov, Traces!opts
<1>2. LauncherInv' /\ stored' = stored /\ corpus' = corpus
  BY <1>1, LauncherStep DEF vars
<1>3. /\ KernelAt(r) \in 0 .. MaxRev
      /\ r[1] = "workdir" => KernelAt(r) = stored[Watched]
  BY <1>1, Folders
<1>4. TraceTypes /\ ProperLists /\ Decoded /\ traces' \in 1 .. MaxTraces /\ traces \in 0 .. MaxTraces
  BY <1>1, Assumed DEF TraceInv, TraceTypes
<1>5. TraceTypes'
  <2>1. None \in 0 .. MaxRev
    BY Assumed DEF None
  <2>2. tracedBy' \in [1 .. MaxTraces -> 0 .. MaxRev] /\ traces' \in 0 .. MaxTraces
    BY <1>1, <1>3, <1>4, <2>1 DEF TraceTypes
  <2>3. QED
    BY <1>1, <1>4, <2>2 DEF TraceTypes
<1>6. ProperLists'
  <2>1. \A x : Proper(x, traces) => Proper(x, traces')
    BY <1>1, <1>4 DEF Proper
  <2>2. QED
    BY <1>1, <1>4, <2>1 DEF ProperLists, Lists
<1>7. Decoded'
  BY <1>1, <1>4 DEF Decoded
<1>8. NoneLeft'
  BY <1>1, <1>2 DEF NoneLeft
<1>9. ListsMatchKernel'
  <2>1. Current(traces)'
    BY <1>1, <1>2, <1>3, <1>4 DEF Current, TraceTypes
  <2>2. ASSUME NEW x \in Lists, ~partial
        PROVE  Current(x.from)'
    <3>1. Current(x.from) /\ x.from \in 0 .. traces
      <4>1. Current(x.from)
        BY <1>1, <2>2, Matching
      <4>2. x = Traces!None \/ x.from \in 1 .. traces
        BY <1>4, <2>2 DEF ProperLists, Proper
      <4>3. QED
        BY <1>4, <4>1, <4>2, NoneFacts
    <3>2. x.from # traces'
      BY <1>1, <1>4, <3>1
    <3>3. x.from # 0 => tracedBy'[x.from] = tracedBy[x.from]
      BY <1>1, <1>4, <3>1, <3>2 DEF TraceTypes
    <3>4. QED
      BY <1>2, <3>1, <3>3 DEF Current
  <2>3. QED
    BY <1>1, <2>1, <2>2 DEF ListsMatchKernel, Current, Lists
<1>10. QED
  BY <1>2, <1>5, <1>6, <1>7, <1>8, <1>9 DEF WorkdirInv, TraceInv

(* The start of smatch preserves the invariant: no list changes before its *)
(* first step.                                                             *)
LEMMA SmatchKeeps ==
    ASSUME WorkdirInv, NEW r \in Roots, NEW e \in Workdirs, Smatch(r, e)
    PROVE  WorkdirInv'
<1>1. /\ LauncherInv /\ TraceInv /\ NoneLeft /\ ListsMatchKernel
      /\ UNCHANGED <<vars, tracedBy, partial>>
      /\ step = "idle" /\ ghidra' \in BOOLEAN /\ fast' \in BOOLEAN /\ ended' = FALSE
      /\ step' = (IF fast' THEN "fast" ELSE "lines")
      /\ spoiled' = (~fast' /\ Traces!Reused # Traces!None /\ ~Traces!Fresh(Traces!Reused))
      /\ UNCHANGED <<traces, addrs, lines, match, cover>>
  BY DEF WorkdirInv, Smatch, Traces!Smatch, Traces!files
<1>2. LauncherInv' /\ stored' = stored /\ corpus' = corpus
  BY <1>1, LauncherStep DEF vars
<1>3. TraceInv'
  BY <1>1 DEF TraceInv, TraceTypes, ProperLists, Proper, Lists, Decoded, Traces!Fresh, Traces!Reused
<1>4. NoneLeft' /\ ListsMatchKernel'
  BY <1>1, <1>2 DEF NoneLeft, ListsMatchKernel
<1>5. QED
  BY <1>2, <1>3, <1>4 DEF WorkdirInv

(* The decoding that smatch does preserves the invariant.                  *)
LEMMA SmatchStepKeeps == ASSUME WorkdirInv, SmatchStep PROVE WorkdirInv'
<1>1. /\ LauncherInv /\ TraceInv /\ NoneLeft /\ ListsMatchKernel
      /\ Traces!Decoding /\ UNCHANGED <<vars, tracedBy, partial>>
  BY DEF WorkdirInv, SmatchStep
<1>2. LauncherInv' /\ stored' = stored /\ corpus' = corpus
  BY <1>1, LauncherStep DEF vars
<1>3. /\ TraceInv' /\ UNCHANGED traces
      /\ \A x \in Lists' : x.from = traces \/ \E y \in Lists : x.from = y.from
  BY <1>1, DecodingKeeps
<1>4. NoneLeft'
  BY <1>1, <1>2, <1>3 DEF NoneLeft
<1>5. ListsMatchKernel'
  <2>1. \A t : Current(t) => Current(t)'
    BY <1>1, <1>2 DEF Current
  <2>2. QED
    BY <1>1, <1>3, <2>1, Matching DEF ListsMatchKernel, Current, Lists
<1>6. QED
  BY <1>2, <1>3, <1>4, <1>5 DEF WorkdirInv

(* Every step preserves the invariant.                                     *)
LEMMA WorkdirStep == WorkdirInv /\ [WorkdirNext]_allVars => WorkdirInv'
<1> SUFFICES ASSUME WorkdirInv, [WorkdirNext]_allVars
             PROVE  WorkdirInv'
  OBVIOUS
<1>1. CASE WorkdirNext
  BY <1>1, RunKeeps, RemoveKeeps, CovKeeps, SmatchKeeps, SmatchStepKeeps DEF WorkdirNext
<1>2. CASE UNCHANGED allVars
  <2>1. /\ UNCHANGED <<vars, tracedBy, partial>>
        /\ UNCHANGED <<traces, addrs, lines, match, cover, step, ghidra, fast, ended, spoiled>>
    BY <1>2 DEF allVars, traceVars
  <2>2. LauncherInv' /\ stored' = stored /\ corpus' = corpus
    BY <2>1, LauncherStep DEF WorkdirInv, vars
  <2>3. TraceInv'
    BY <2>1 DEF WorkdirInv, TraceInv, TraceTypes, ProperLists, Proper, Lists, Decoded, Complete,
               Traces!Made, Traces!Fresh, Traces!Reused
  <2>4. NoneLeft' /\ ListsMatchKernel'
    BY <2>1, <2>2 DEF WorkdirInv, NoneLeft, ListsMatchKernel
  <2>5. QED
    BY <2>2, <2>3, <2>4 DEF WorkdirInv
<1>3. QED
  BY <1>1, <1>2

(* The kernel, the corpus, the traces and the lists of a workdir are       *)
(* related as WorkdirInv says, whatever commands are given and wherever    *)
(* they are stopped.                                                       *)
THEOREM WorkdirInvAlways == WorkdirSpec => []WorkdirInv
BY InitWorkdir, WorkdirStep, PTL DEF WorkdirSpec

(* A workdir never holds results of one kernel and a copy of another, also *)
(* when it is traced in between (fuzz.sh:153-184).                         *)
THEOREM SpecStoredIsFuzzed == WorkdirSpec => []StoredIsFuzzed
<1>1. WorkdirInv => StoredIsFuzzed
  BY DEF WorkdirInv, LauncherInv
<1>2. QED
  BY <1>1, WorkdirInvAlways, PTL

(* The traces of a workdir and the lists made of them are of the kernel    *)
(* now stored in it, while no removal was cut short (fuzz.sh:128-133,      *)
(* 153-158, 352-360).                                                      *)
THEOREM SpecListsMatchKernel == WorkdirSpec => []ListsMatchKernel
<1>1. WorkdirInv => ListsMatchKernel
  BY DEF WorkdirInv
<1>2. QED
  BY <1>1, WorkdirInvAlways, PTL

(* Once a smatch has ended smatcher reads a whole list of the current      *)
(* traces, unless the smatch went on from what older traces or a decoding  *)
(* that was cut short left, or lists are not combined and a linecov.lst    *)
(* comes first (fuzz.sh:351-364, gen_addr2line.sh:57-91,                   *)
(* smatcher/__init__.py:134-146).                                          *)
THEOREM SpecDecodeTrusted == WorkdirSpec => []DecodeTrusted
<1>1. ASSUME WorkdirInv, ended, ~spoiled, NEW combine \in BOOLEAN, fast \/ combine \/ cover = Traces!None
      PROVE  \E x \in Traces!Scanned(combine) : Traces!Fresh(x) /\ (fast => x.all)
  <2>1. Complete /\ TraceTypes
    BY <1>1 DEF WorkdirInv, TraceInv, Decoded
  <2>2. CASE fast
    <3>1. cover = Traces!Made(TRUE, TRUE) /\ cover # Traces!None
      BY <2>1, <2>2, MadeOf, ProperFacts DEF Complete, TraceTypes
    <3>2. Traces!Fresh(cover) /\ cover.all
      BY <3>1 DEF Traces!Made, Traces!Fresh
    <3>3. cover \in Traces!Scanned(combine)
      BY <3>1 DEF Traces!Scanned
    <3>4. QED
      BY <3>2, <3>3
  <2>3. CASE ~fast
    <3>1. match = lines /\ lines # Traces!None /\ Traces!Fresh(lines)
      BY <1>1, <2>1, <2>3 DEF Complete
    <3>2. lines \in Traces!Scanned(combine)
      BY <1>1, <2>3, <3>1 DEF Traces!Scanned
    <3>3. QED
      BY <2>3, <3>1, <3>2
  <2>4. QED
    BY <2>2, <2>3
<1>2. WorkdirInv => DecodeTrusted
  BY <1>1 DEF DecodeTrusted, Traces!DecodeTrusted
<1>3. QED
  BY <1>2, WorkdirInvAlways, PTL
=============================================================================
