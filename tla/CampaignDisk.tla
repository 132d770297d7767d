---------------------------- MODULE CampaignDisk ----------------------------
(***************************************************************************)
(* What bkc/kafl/pipeline.py leaves on disk and what a later run of it     *)
(* trusts: the harness directories written by init_harness.py, the shared  *)
(* target/ of a harness, into which every build task of that harness       *)
(* copies, and the workdirs, with the kernel that `fuzz.sh run' stores in  *)
(* them, the lists of covered lines, and what stats.py and smatcher make   *)
(* of them at the end.  The user starts the pipeline again and again, with *)
(* or without --rebuild and --refuzz; in between the kernel tree may       *)
(* change; a run may be killed, and a task may fail, at any point.         *)
(*                                                                         *)
(* The tasks of a phase run in any order and overlap freely: the limit the *)
(* thread pool sets is the subject of Pipeline.                            *)
(***************************************************************************)
EXTENDS Integers, Sequences, FiniteSets

CONSTANTS
    Harnesses,  \* the harnesses init_harness.py knows
    Files,      \* bound: a target has files 1 .. Files, copied in this order
    MaxDirs,    \* bound: workdirs per harness
    MaxRev,     \* bound: revisions of the kernel tree
    MaxRuns     \* bound: runs of the pipeline

ASSUME DiskAssumption ==
    /\ Harnesses # {} /\ IsFiniteSet(Harnesses)
    /\ Files \in Nat \ {0} /\ MaxDirs \in Nat \ {0}
    /\ MaxRev \in Nat \ {0} /\ MaxRuns \in Nat \ {0}

\* A workdir of a harness; an entry of the pipeline is known by its workdir.
Workdirs == Harnesses \X (1 .. MaxDirs)
Owner(w) == w[1]

Absent   == 0     \* the file does not exist
Torn     == -1    \* the file exists, its copy was not completed
Kernels  == [1 .. Files -> -1 .. MaxRev]
NoKernel == [f \in 1 .. Files |-> Absent]
Builds   == (1 .. MaxRuns) \X Workdirs
Whole(k) == \E r \in 1 .. MaxRev : \A f \in 1 .. Files : k[f] = r

\* What init_harness.py creates for a harness, in this order; kafl.yaml is empty
\* until its options are written.
\* (Seeded fault: the file that discovery looks for is written first.)
ConfigOrderYamlFirst == <<"dir", "kafl.yaml", "options", "linux", "sharedir">>
ConfigOrder == <<"dir", "linux", "sharedir", "kafl.yaml", "options">>

VARIABLES
    rev,      \* revision of the kernel tree and of the harness config
    runs,     \* runs started so far
    phase,    \* phase of the current run, "off" between two runs
    wanted,   \* harnesses that match --harness in the current run
    rebuild,  \* --rebuild of the current run
    refuzz,   \* --refuzz of the current run
    env,      \* the environment is complete: fuzz.sh gets past its checks
    config,   \* for each harness, how much of ConfigOrder exists
    target,   \* contents of each <harness>/target/
    state,    \* of each workdir: "absent", "empty", "corpus" once kAFL runs in
              \* it; then "workers" if it has the files task_fuzz looks for
              \* (stats, worker_stats_0), "csv" if it has the one stats.py looks
              \* for (stats.csv), "stats" if it has all of them
    copy,     \* contents of each <workdir>/target/
    ran,      \* the kernel each workdir was fuzzed with
    traced,   \* the kernel each workdir was last traced with
    lists,    \* each workdir has some list of covered lines
    job,      \* of each entry of the run: what its current task is doing
    pos,      \* of each build task: the file it copies next
    triage,   \* the triage of the run: "no", "todo", "over", "failed", or
              \* "crashed" on a workdir that stats.py cannot read
    by,       \* history: of each file of a target, the builds whose bytes it may hold
    raced,    \* history: harnesses of which two builds copied at the same time
    broken,   \* history: harnesses of which a build did not finish its copies
    emptied,  \* history: init_harness.py stopped before it wrote to a kafl.yaml
    cut       \* history: some run or kAFL stopped while kAFL was at work

args    == <<wanted, rebuild, refuzz, env>>
folder  == <<state, copy, ran, traced, lists>>
work    == <<job, pos, triage>>
copied  == <<by, raced, broken>>
history == <<copied, emptied, cut>>
vars == <<rev, runs, phase, args, config, target, folder, work, history>>

Results == {"workers", "stats"}

Entries == {w \in Workdirs : job[w] # "none"}
Has(h, f) == \E i \in 1 .. config[h] : ConfigOrder[i] = f

Init ==
    /\ rev = 1 /\ runs = 0
    /\ by = [h \in Harnesses |-> [f \in 1 .. Files |-> {}]]
    /\ raced = {} /\ broken = {} /\ emptied = FALSE /\ cut = FALSE
    /\ phase = "off" /\ wanted = {} /\ rebuild = FALSE /\ refuzz = FALSE /\ env = TRUE
    /\ config = [h \in Harnesses |-> 0]
    /\ target = [h \in Harnesses |-> NoKernel]
    /\ state = [w \in Workdirs |-> "absent"]
    /\ copy = [w \in Workdirs |-> NoKernel]
    /\ ran = [w \in Workdirs |-> NoKernel]
    /\ traced = [w \in Workdirs |-> NoKernel]
    /\ lists = [w \in Workdirs |-> FALSE]
    /\ triage = "no"
    /\ job = [w \in Workdirs |-> "none"]
    /\ pos = [w \in Workdirs |-> 1]

-----------------------------------------------------------------------------
(* Runs of the pipeline.                                                   *)

UpdateSources ==
    /\ phase = "off"
    /\ rev < MaxRev
    /\ rev' = rev + 1
    /\ UNCHANGED <<runs, phase, args, config, target, folder, work, history>>

\* The campaign root is initialised when it does not exist, i.e. when not even
\* the directory of one harness does.  KAFL_ROOT may be missing from the
\* environment, which only fuzz.sh looks at.
Begin ==
    /\ phase = "off"
    /\ runs < MaxRuns
    /\ runs' = runs + 1
    /\ wanted' \in (SUBSET Harnesses) \ {{}}
    /\ rebuild' \in BOOLEAN /\ refuzz' \in BOOLEAN /\ env' \in BOOLEAN
    /\ phase' = IF \A h \in Harnesses : config[h] = 0 THEN "init" ELSE "scan"
    /\ UNCHANGED <<rev, config, target, folder, work, history>>

\* A build has begun to write the target, and is not over.
Copying(w) == job[w] = "write" \/ (job[w] = "copy" /\ pos[w] > 1)

\* The process is gone, with its tasks and its arguments.
Gone ==
    /\ phase' = "off" /\ wanted' = {} /\ rebuild' = FALSE /\ refuzz' = FALSE /\ env' = TRUE
    /\ job' = [w \in Workdirs |-> "none"] /\ triage' = "no"
    /\ pos' = [w \in Workdirs |-> 1]

\* The run and its children are killed, or its init helper fails.
Kill ==
    /\ phase # "off"
    /\ Gone
    /\ broken' = broken \cup {Owner(w) : w \in {v \in Workdirs : Copying(v)}}
    /\ emptied' = (emptied \/ \E h \in Harnesses : Has(h, "kafl.yaml") /\ ~Has(h, "options"))
    /\ cut' = (cut \/ phase = "fuzz")
    /\ UNCHANGED <<rev, runs, config, target, folder, by, raced>>

\* The exception of a task ends the run once the tasks at work are over; fuzz
\* jobs not yet submitted never run.
Abort ==
    LET jobs == {job[w] : w \in Entries}
    IN  /\ "failed" \in jobs \/ triage \in {"failed", "crashed"}
        /\ jobs \subseteq {"failed", "over"} \cup (IF phase = "fuzz" THEN {"todo"} ELSE {})
        /\ triage # "todo"
        /\ Gone
        /\ UNCHANGED <<rev, runs, config, target, folder, history>>

-----------------------------------------------------------------------------
(* init_harness.py and the discovery of harnesses and workdirs.            *)

\* The next file of a harness; a harness is begun when no other is unfinished.
Configure(h) ==
    /\ phase = "init"
    /\ h \in wanted
    /\ config[h] < Len(ConfigOrder)
    /\ \A g \in wanted \ {h} : config[g] \in {0, Len(ConfigOrder)}
    /\ config' = [config EXCEPT ![h] = @ + 1]
    /\ UNCHANGED <<rev, runs, phase, args, target, folder, work, history>>

InitDone ==
    /\ phase = "init"
    /\ \A h \in wanted : config[h] = Len(ConfigOrder)
    /\ phase' = "scan"
    /\ UNCHANGED <<rev, runs, args, config, target, folder, work, history>>

\* glob('**/kafl.yaml') and glob('workdir_*'): the existing workdirs of a
\* harness, or a new one.
Discover ==
    LET found    == {h \in wanted : Has(h, "kafl.yaml")}
        dirs(h)  == {w \in Workdirs : Owner(w) = h /\ state[w] # "absent"}
        free(h)  == {d \in 1 .. MaxDirs : state[<<h, d>>] = "absent"}
        renew    == {h \in found : refuzz \/ dirs(h) = {}}
        fresh    == {<<h, CHOOSE d \in free(h) : TRUE>> : h \in renew}
        entries  == fresh \cup UNION {dirs(h) : h \in found \ renew}
    IN  /\ phase = "scan"
        /\ found # {}
        /\ \A h \in renew : free(h) # {}
        /\ phase' = "build"
        /\ state' = [w \in Workdirs |-> IF w \in fresh THEN "empty" ELSE state[w]]
        /\ job' = [w \in Workdirs |-> IF w \in entries THEN "todo" ELSE "none"]
        /\ UNCHANGED <<rev, runs, args, config, target, copy, ran, traced, lists,
                       pos, triage, history>>

\* No matching harnesses found in campaign root.
NothingFound ==
    /\ phase = "scan"
    /\ \A h \in wanted : ~Has(h, "kafl.yaml")
    /\ Gone
    /\ UNCHANGED <<rev, runs, config, target, folder, history>>

-----------------------------------------------------------------------------
(* The phases.  A phase is over when every one of its tasks has returned.  *)
(* (Seeded fault: when one has.)                                           *)

OverSome == \E w \in Entries : job[w] = "over"
Over == \A w \in Entries : job[w] = "over"

\* The triage is submitted along with the traces.
NextPhase ==
    /\ phase \in {"build", "fuzz", "trace"}
    /\ Over
    /\ triage \in {"no", "over"}
    /\ phase' = CASE phase = "build" -> "fuzz"
                  [] phase = "fuzz"  -> "trace"
                  [] phase = "trace" -> "match"
    /\ triage' = IF phase = "fuzz" THEN "todo" ELSE "no"
    /\ job' = [w \in Workdirs |-> IF w \in Entries THEN "todo" ELSE "none"]
    /\ pos' = [w \in Workdirs |-> 1]
    /\ UNCHANGED <<rev, runs, args, config, target, folder, history>>

\* task_smatcher: smatcher exits with an error when a workdir has no list.
Smatcher ==
    /\ phase = "match"
    /\ \/ phase' = "end" /\ (\A w \in Entries : lists[w]) /\ UNCHANGED <<args, work>>
       \/ Gone
    /\ UNCHANGED <<rev, runs, config, target, folder, history>>

Finished ==
    /\ phase = "end"
    /\ Gone
    /\ UNCHANGED <<rev, runs, config, target, folder, history>>

\* A step of the task of entry w: from one of the stages `from' to stage `to'.
Task(w, ph, from, to) ==
    /\ phase = ph
    /\ job[w] \in from
    /\ job' = [job EXCEPT ![w] = to]
    /\ UNCHANGED <<rev, runs, phase, args, config, triage>>

-----------------------------------------------------------------------------
(* task_build: make, then copy file after file into the shared target/.    *)

\* Whether task_build may return at once.  (Seeded fault: --rebuild ignored.)
UpToDateAlways(w) == \A f \in 1 .. Files : target[Owner(w)][f] # Absent
UpToDate(w) == ~rebuild /\ \A f \in 1 .. Files : target[Owner(w)][f] # Absent

Skip(w) ==
    /\ Task(w, "build", {"todo"}, "over")
    /\ UpToDate(w)
    /\ UNCHANGED <<target, folder, pos, history>>

Compile(w) ==
    /\ Task(w, "build", {"todo"}, "copy")
    /\ ~UpToDate(w)
    /\ UNCHANGED <<target, folder, pos, history>>

\* The other builds of the harness, and those that have the file open that
\* build w comes to.
Rivals(w)  == {v \in Workdirs \ {w} : Owner(v) = Owner(w)}
Writers(w) == {v \in Rivals(w) : job[v] = "write" /\ pos[v] = pos[w]}

\* shutil.copy opens its source, which is not there if fuzz.sh only said
\* "fatal", truncates the destination ...
OpenCopy(w) ==
    LET h == Owner(w)
    IN  /\ Task(w, "build", {"copy"}, "write")
        /\ env
        /\ target' = [target EXCEPT ![h][pos[w]] = Torn]
        /\ by' = [by EXCEPT ![h][pos[w]] = {<<runs, v>> : v \in Writers(w) \cup {w}}]
        /\ raced' = IF \E v \in Rivals(w) : Copying(v) THEN raced \cup {h} ELSE raced
        /\ UNCHANGED <<folder, pos, broken, emptied, cut>>

\* ... and fills it.  The file is complete when the last of the builds that
\* write it is done.
CloseCopy(w) ==
    /\ Task(w, "build", {"write"}, IF pos[w] = Files THEN "over" ELSE "copy")
    /\ target' = [target EXCEPT ![Owner(w)][pos[w]] = IF Writers(w) = {} THEN rev ELSE Torn]
    /\ pos' = [pos EXCEPT ![w] = @ + 1]
    /\ UNCHANGED <<folder, history>>

\* make fails, a source file is missing, or the disk is full.
BuildFails(w) ==
    /\ Task(w, "build", {"todo", "copy", "write"}, "failed")
    /\ job[w] = "todo" => ~UpToDate(w)
    /\ broken' = IF Copying(w) THEN broken \cup {Owner(w)} ELSE broken
    /\ UNCHANGED <<target, folder, pos, by, raced, emptied, cut>>

-----------------------------------------------------------------------------
(* task_fuzz and `fuzz.sh run' on the target of the harness.               *)

\* The workdir holds results.  (Seeded faults: never; as soon as kAFL ran.)
FuzzedNever(w) == FALSE
FuzzedEver(w) == state[w] # "empty"
Fuzzed(w) == state[w] \in Results

SkipFuzz(w) ==
    /\ Task(w, "fuzz", {"todo"}, "over")
    /\ Fuzzed(w)
    /\ UNCHANGED <<target, folder, pos, history>>

\* "fatal" ends fuzz.sh with status 0.
Hollow(w) ==
    /\ Task(w, "fuzz", {"todo"}, "over")
    /\ ~Fuzzed(w) /\ ~env
    /\ UNCHANGED <<target, folder, pos, history>>

\* rm -rf of a workdir in which kAFL has already been.
Wipe(w) ==
    /\ Task(w, "fuzz", {"todo"}, "store")
    /\ ~Fuzzed(w) /\ env
    /\ IF state[w] # "empty"
       THEN /\ state' = [state EXCEPT ![w] = "absent"]
            /\ copy' = [copy EXCEPT ![w] = NoKernel]
            /\ ran' = [ran EXCEPT ![w] = NoKernel]
            /\ traced' = [traced EXCEPT ![w] = NoKernel]
            /\ lists' = [lists EXCEPT ![w] = FALSE]
       ELSE UNCHANGED folder
    /\ UNCHANGED <<target, pos, history>>

\* mkdir -p $WORK_DIR/target and cp of the kernel into it.
Store(w) ==
    /\ Task(w, "fuzz", {"store"}, "boot")
    /\ state' = [state EXCEPT ![w] = "empty"]
    /\ copy' = [copy EXCEPT ![w] = target[Owner(w)]]
    /\ UNCHANGED <<target, ran, traced, lists, pos, history>>

\* kafl_fuzz.py --kernel $TARGET_BIN, which still is the file of the target.
Boot(w) ==
    /\ Task(w, "fuzz", {"boot"}, "run")
    /\ state' = [state EXCEPT ![w] = "corpus"]
    /\ ran' = [ran EXCEPT ![w] = target[Owner(w)]]
    /\ UNCHANGED <<target, copy, traced, lists, pos, history>>

\* kAFL writes its statistics, the files of stats.py and of task_fuzz in
\* either order.
Report(w) ==
    /\ Task(w, "fuzz", {"run"}, "run")
    /\ \/ state[w] = "corpus" /\ \E s \in {"csv", "workers"} : state' = [state EXCEPT ![w] = s]
       \/ state[w] \in {"csv", "workers"} /\ state' = [state EXCEPT ![w] = "stats"]
    /\ UNCHANGED <<target, copy, ran, traced, lists, pos, history>>

FuzzEnds(w) ==
    /\ Task(w, "fuzz", {"run"}, "over")
    /\ state[w] = "stats"
    /\ UNCHANGED <<target, folder, pos, history>>

FuzzFails(w) ==
    /\ Task(w, "fuzz", {"store", "boot", "run"}, "failed")
    /\ cut' = (cut \/ job[w] = "run")
    /\ UNCHANGED <<target, folder, pos, copied, emptied>>

-----------------------------------------------------------------------------
(* task_trace, `fuzz.sh cov' on the workdir, again in every run;           *)
(* task_smatch, `fuzz.sh smatch', which waits for it; and task_triage.     *)

\* The kernel set_workdir finds.  (Seeded fault: that of the harness.)
TraceKernelShared(w) == target[Owner(w)]
TraceKernel(w) == copy[w]

Trace(w) ==
    /\ Task(w, "trace", {"todo"}, "smatch")
    /\ traced' = IF env THEN [traced EXCEPT ![w] = TraceKernel(w)] ELSE traced
    /\ UNCHANGED <<target, state, copy, ran, lists, pos, history>>

Smatch(w) ==
    /\ Task(w, "trace", {"smatch"}, "over")
    /\ lists' = IF env THEN [lists EXCEPT ![w] = TRUE] ELSE lists
    /\ UNCHANGED <<target, state, copy, ran, traced, pos, history>>

\* The list has been opened for writing, or not yet.
TraceFails(w) ==
    /\ Task(w, "trace", {"todo", "smatch"}, "failed")
    /\ \/ UNCHANGED lists
       \/ job[w] = "smatch" /\ env /\ lists' = [lists EXCEPT ![w] = TRUE]
    /\ UNCHANGED <<target, state, copy, ran, traced, pos, history>>

\* stats.py reads every workdir below the root that has a stats.csv; without
\* stats or worker files, it ends with a traceback, and task_triage with it.
StatsRead == \A w \in Workdirs : state[w] # "csv"

Triage ==
    /\ phase = "trace" /\ triage = "todo"
    /\ triage' = IF StatsRead THEN "over" ELSE "crashed"
    /\ UNCHANGED <<rev, runs, phase, args, config, target, folder, job, pos, history>>

\* gnuplot takes too long, or summarize.sh fails.
TriageFails ==
    /\ phase = "trace" /\ triage = "todo"
    /\ triage' = "failed"
    /\ UNCHANGED <<rev, runs, phase, args, config, target, folder, job, pos, history>>

-----------------------------------------------------------------------------
Next ==
    \/ UpdateSources \/ Begin \/ Kill \/ Abort
    \/ \E h \in Harnesses : Configure(h)
    \/ InitDone \/ Discover \/ NothingFound
    \/ NextPhase \/ Smatcher \/ Finished \/ Triage \/ TriageFails
    \/ \E w \in Workdirs :
          \/ Skip(w) \/ Compile(w) \/ OpenCopy(w) \/ CloseCopy(w) \/ BuildFails(w)
          \/ SkipFuzz(w) \/ Hollow(w) \/ Wipe(w) \/ Store(w) \/ Boot(w) \/ Report(w)
          \/ FuzzEnds(w) \/ FuzzFails(w)
          \/ Trace(w) \/ Smatch(w) \/ TraceFails(w)

Spec == Init /\ [][Next]_vars

-----------------------------------------------------------------------------
(* Properties.                                                             *)

\* A harness is scheduled only when its kernel configuration and its sharedir are
\* there, even if an earlier initialisation was cut short at any file, because
\* kafl.yaml is what discovery looks for and what comes last; it is scheduled
\* without the options of kafl.yaml only if init_harness.py stopped between
\* opening the file and writing to it (pipeline.py:380, init_harness.py:250-251,
\* 385-387).
ScheduledConfigured ==
    \A w \in Entries, i \in DOMAIN ConfigOrder :
        \/ Has(Owner(w), ConfigOrder[i])
        \/ ConfigOrder[i] = "options" /\ emptied

\* With --rebuild no entry gets past the build phase on a kernel of an earlier
\* revision, whatever was in target/ and however the builds of one harness
\* overlap in it (pipeline.py:91, 108-110, 244).
RebuildFresh ==
    phase \in {"fuzz", "trace"} /\ rebuild =>
        \A w \in Entries, f \in 1 .. Files : target[Owner(w)][f] = rev

\* The files that are fuzzed are complete and of one revision, although a build
\* is skipped because files merely exist and may be skipped while another build
\* writes them: unless a build of the harness was stopped or failed after it had
\* begun to copy.  They are of one build, each of them and all together, unless
\* two builds of the harness copied at the same time (pipeline.py:62-66, 91-94,
\* 108-110).
TargetWhole ==
    phase \in {"fuzz", "trace"} =>
        \A w \in Entries :
            LET h == Owner(w)
            IN  h \notin broken =>
                    /\ Whole(target[h])
                    /\ h \notin raced => \E b \in Builds : \A f \in 1 .. Files : by[h][f] = {b}

\* No later run touches the results of a workdir or the kernel stored with
\* them, although `fuzz.sh run' begins with rm -rf (pipeline.py:121-124,
\* fuzz.sh:153).
ResultsKept ==
    [][\A w \in Workdirs :
          state[w] \in Results => /\ state'[w] \in Results
                                  /\ copy'[w] = copy[w]
                                  /\ ran'[w] = ran[w]]_vars

\* A workdir is traced with the kernel it was fuzzed with, also when its
\* harness was rebuilt in between (workflow_overview.md:100-103, fuzz.sh:128).
TraceMatchesFuzz == \A w \in Workdirs : traced[w] # NoKernel => traced[w] = ran[w]

\* A run that ends with success has results and lists of covered lines for
\* every entry, whatever runs that were killed left behind and although fuzz.sh
\* reports success when it did nothing: what a task did not do is found missing
\* at the latest by smatcher (pipeline.py:121-124, 288-289, fuzz.sh:73-77).
SuccessHonest ==
    phase = "end" => \A w \in Entries : state[w] \in Results /\ lists[w]

\* The statistics of a campaign are complete: unless kAFL was stopped at some
\* time, which may leave a workdir that no later run cleans, the triage never
\* stumbles over a workdir, scheduled or not, before it comes to the crash
\* summary, and shows every entry fuzzed (pipeline.py:186-196, stats.py:220-243).
TriageReports ==
    triage # "no" /\ ~cut =>
        /\ triage # "crashed"
        /\ env => \A w \in Entries : state[w] = "stats"
=============================================================================
