----------------------------- MODULE DiskProofs ------------------------------
(***************************************************************************)
(* Proofs about CampaignDisk, for all sets of harnesses, numbers of        *)
(* workdirs, files of a kernel, revisions and runs.                        *)
(***************************************************************************)
EXTENDS CampaignDisk, TLAPS

Phases == {"off", "init", "scan", "build", "fuzz", "trace", "match", "end"}
States == {"absent", "empty", "corpus", "workers", "csv", "stats"}
Jobs   == {"none", "todo", "copy", "write", "store", "boot", "run", "smatch", "over", "failed"}

TypeOK ==
    /\ rev \in 1 .. MaxRev /\ runs \in 0 .. MaxRuns
    /\ phase \in Phases
    /\ wanted \subseteq Harnesses
    /\ rebuild \in BOOLEAN /\ refuzz \in BOOLEAN /\ env \in BOOLEAN
    /\ config \in [Harnesses -> 0 .. Len(ConfigOrder)]
    /\ target \in [Harnesses -> Kernels]
    /\ state \in [Workdirs -> States]
    /\ copy \in [Workdirs -> Kernels] /\ ran \in [Workdirs -> Kernels]
    /\ traced \in [Workdirs -> Kernels]
    /\ lists \in [Workdirs -> BOOLEAN]
    /\ job \in [Workdirs -> Jobs]
    /\ pos \in [Workdirs -> 1 .. Files + 1]
    /\ triage \in {"no", "todo", "over", "failed", "crashed"}
    /\ by \in [Harnesses -> [1 .. Files -> SUBSET Builds]]
    /\ raced \subseteq Harnesses /\ broken \subseteq Harnesses
    /\ emptied \in BOOLEAN /\ cut \in BOOLEAN

-----------------------------------------------------------------------------
(* The inductive invariant.                                                *)

(* Tasks exist while the phases run, each phase has its own stages.        *)
Stages ==
    /\ phase \in {"off", "init", "scan"} => \A w \in Workdirs : job[w] = "none"
    /\ phase = "build" => \A w \in Workdirs : job[w] \in {"none", "todo", "copy", "write", "over", "failed"}
    /\ phase = "fuzz"  => \A w \in Workdirs : job[w] \in {"none", "todo", "store", "boot", "run", "over", "failed"}
    /\ phase = "trace" => \A w \in Workdirs : job[w] \in {"none", "todo", "smatch", "over", "failed"}
    /\ phase \in {"match", "end"} => \A w \in Workdirs : job[w] \in {"none", "todo"}
    /\ phase # "build" => \A w \in Workdirs : pos[w] = 1
    /\ phase # "trace" => triage = "no"

Started == phase # "off" => runs # 0

(* The harness of an entry is configured, but for what kafl.yaml holds if  *)
(* the one initialisation stopped there.                                   *)
Configured == \A w \in Entries : config[Owner(w)] \in {4, 5}
Options ==
    /\ \A h \in Harnesses : config[h] = 4 => phase = "init" \/ emptied
    /\ phase = "init" => \A h \in Harnesses \ wanted : config[h] = 0

(* What a workdir holds: nothing before kAFL runs in it; then the kernel   *)
(* that it runs.                                                           *)
StoredIn(w) ==
    /\ state[w] \in {"absent", "empty"} => ran[w] = NoKernel /\ traced[w] = NoKernel /\ ~lists[w]
    /\ state[w] \notin {"absent", "empty"} => copy[w] = ran[w]
    /\ traced[w] # NoKernel => traced[w] = ran[w]
    /\ lists[w] => state[w] \in Results
Stored == \A w \in Workdirs : StoredIn(w)

(* What a fuzz job has done to its workdir.                                *)
FuzzingIn(w) ==
    /\ job[w] = "store" => state[w] \in {"absent", "empty"}
    /\ job[w] = "boot"  => state[w] = "empty" /\ copy[w] = target[Owner(w)]
    /\ job[w] = "run"   => state[w] \notin {"absent", "empty"}
Fuzzing == \A w \in Workdirs : FuzzingIn(w)

(* With a complete environment, what is over has results.                  *)
HasResults ==
    env => \A w \in Entries :
              phase \in {"trace", "match", "end"} \/ (phase = "fuzz" /\ job[w] = "over") =>
                  state[w] \in Results
Ended ==
    phase = "end" => \A w \in Entries : lists[w]

(* Unless kAFL was cut short, all its files are there once it is over.     *)
NothingCut ==
    ~cut => \A w \in Workdirs :
               job[w] = "run" \/ state[w] \in {"absent", "empty", "stats"}
Triaged == triage = "crashed" => \E w \in Workdirs : state[w] = "csv"

(* How far the builds are.                                                 *)
Written(w) == pos[w] # 1 \/ job[w] = "write"
Positions ==
    phase = "build" =>
        \A w \in Workdirs :
            /\ job[w] \in {"none", "todo"} => pos[w] = 1
            /\ job[w] \in {"copy", "write"} => pos[w] <= Files
            /\ job[w] = "over" => pos[w] = Files + 1 \/ (pos[w] = 1 /\ ~rebuild)
            /\ job[w] = "over" /\ pos[w] = 1 =>
                   \A f \in 1 .. Files : target[Owner(w)][f] # Absent
            /\ Owner(w) \notin broken /\ job[w] = "failed" => pos[w] = 1

(* A file is of this revision once a build has written it, unless another  *)
(* build is at it or has failed there.                                     *)
AtFile(v, f) == (job[v] = "write" /\ pos[v] = f) \/ (job[v] = "failed" /\ Owner(v) \in broken)
FilesFresh ==
    phase = "build" =>
        \A w \in Workdirs, f \in 1 .. Files :
            f < pos[w] => \/ target[Owner(w)][f] = rev
                          \/ \E v \in Workdirs : Owner(v) = Owner(w) /\ AtFile(v, f)

(* Unless a copy was cut short, a target that no build of this run has     *)
(* written to is that of one build, or of none.                            *)
Intact(h) == target[h] = NoKernel \/ Whole(target[h])
Targets ==
    \A h \in Harnesses \ broken :
        (phase = "build" => \A w \in Workdirs : Owner(w) = h => ~Written(w)) => Intact(h)
Built ==
    phase \in {"fuzz", "trace"} =>
        \A w \in Entries :
            /\ rebuild => \A f \in 1 .. Files : target[Owner(w)][f] = rev
            /\ Owner(w) \notin broken => Whole(target[Owner(w)])

(* Where no two builds copied at the same time, the files are those of the *)
(* build that is at work so far as it came, and of one build before and    *)
(* after.                                                                  *)
Reached(w, f) == f < pos[w] \/ (f = pos[w] /\ job[w] = "write")
Single(h) == target[h] = NoKernel \/ \E b \in Builds : \A f \in 1 .. Files : by[h][f] = {b}
AtWork(h) == {w \in Workdirs : Owner(w) = h /\ Copying(w)}
Hands ==
    \A h \in Harnesses \ raced :
        /\ \A v \in AtWork(h), w \in AtWork(h) : v = w
        /\ \A w \in AtWork(h), f \in 1 .. Files : Reached(w, f) => by[h][f] = {<<runs, w>>}
        /\ h \in broken \/ AtWork(h) # {} \/ Single(h)

DiskInv ==
    /\ TypeOK /\ Stages /\ Started /\ Configured /\ Options /\ Stored /\ Fuzzing /\ HasResults /\ Ended
    /\ NothingCut /\ Triaged /\ Positions /\ FilesFresh /\ Targets /\ Built /\ Hands

-----------------------------------------------------------------------------
(* Facts about the parts of the invariant.                                 *)

(* A workdir belongs to a harness, and discovery finds a harness exactly   *)
(* when all of its configuration was written.                              *)
LEMMA Basics ==
    /\ \A w \in Workdirs : Owner(w) \in Harnesses
    /\ Len(ConfigOrder) = 5 /\ DOMAIN ConfigOrder = 1 .. 5
    /\ Files \in Nat \ {0} /\ MaxRev \in Nat \ {0} /\ MaxRuns \in Nat \ {0}
    /\ NoKernel \in Kernels
    /\ \A f \in 1 .. Files : NoKernel[f] = 0
BY DiskAssumption DEF Workdirs, Owner, ConfigOrder, NoKernel, Kernels, Absent

(* A harness that has kafl.yaml, the last file written, has all files, and *)
(* lacks at most the options.                                              *)
LEMMA HasAll ==
    ASSUME TypeOK, NEW h \in Harnesses
    PROVE  /\ Has(h, "kafl.yaml") <=> config[h] \in {4, 5}
           /\ Has(h, "options") <=> config[h] = 5
           /\ config[h] \in {4, 5} => \A i \in DOMAIN ConfigOrder :
                  Has(h, ConfigOrder[i]) \/ (ConfigOrder[i] = "options" /\ config[h] = 4)
<1>1. config[h] \in 0 .. 5 /\ DOMAIN ConfigOrder = 1 .. 5
  BY Basics DEF TypeOK
<1>2. /\ ConfigOrder[1] = "dir" /\ ConfigOrder[2] = "linux" /\ ConfigOrder[3] = "sharedir"
      /\ ConfigOrder[4] = "kafl.yaml" /\ ConfigOrder[5] = "options"
  BY DEF ConfigOrder
<1>3. \A i \in 1 .. 5 : i <= config[h] => Has(h, ConfigOrder[i])
  BY <1>1 DEF Has
<1>4. /\ Has(h, "kafl.yaml") => config[h] \in {4, 5}
      /\ Has(h, "options") => config[h] = 5
  <2>1. \A i \in 1 .. config[h] : ConfigOrder[i] = "kafl.yaml" => i = 4
    BY <1>1, <1>2
  <2>2. \A i \in 1 .. config[h] : ConfigOrder[i] = "options" => i = 5
    BY <1>1, <1>2
  <2>3. QED
    BY <1>1, <2>1, <2>2 DEF Has
<1>5. QED
  BY <1>1, <1>2, <1>3, <1>4

(* Builds are at work in the build phase only.                             *)
LEMMA Idle ==
    ASSUME TypeOK, Stages, phase # "build"
    PROVE  \A h \in Harnesses : AtWork(h) = {}
BY DEF TypeOK, Phases, Stages, AtWork, Copying

(* The step of a task moves one entry, and no argument of the run.         *)
LEMMA TaskFrame ==
    ASSUME TypeOK, NEW w \in Workdirs, NEW ph, NEW from, NEW to,
           Task(w, ph, from, to), to # "none", "none" \notin from
    PROVE  /\ phase = ph /\ job[w] \in from /\ job'[w] = to
           /\ \A v \in Workdirs : v # w => job'[v] = job[v]
           /\ w \in Entries /\ Entries' = Entries
           /\ UNCHANGED <<rev, runs, phase, wanted, rebuild, refuzz, env, config, triage>>
BY DEF Task, TypeOK, Entries, args

(* Before the first run no folder holds anything, so nothing is stale.     *)
LEMMA InitDiskInv == Init => DiskInv
<1> SUFFICES ASSUME Init
             PROVE  DiskInv
  OBVIOUS
<1>1. TypeOK
  <2>1. /\ target \in [Harnesses -> Kernels] /\ copy \in [Workdirs -> Kernels]
        /\ ran \in [Workdirs -> Kernels] /\ traced \in [Workdirs -> Kernels]
    BY Basics DEF Init
  <2>2. /\ config \in [Harnesses -> 0 .. Len(ConfigOrder)] /\ pos \in [Workdirs -> 1 .. Files + 1]
        /\ rev \in 1 .. MaxRev /\ runs \in 0 .. MaxRuns
    BY Basics DEF Init
  <2>3. by \in [Harnesses -> [1 .. Files -> SUBSET Builds]]
    BY DEF Init
  <2>4. QED
    BY <2>1, <2>2, <2>3 DEF Init, TypeOK, Phases, States, Jobs
<1>2. Entries = {} /\ Stages
  BY DEF Init, Entries, Stages
<1>3. Stored /\ Fuzzing /\ NothingCut /\ Triaged
  BY DEF Init, Stored, StoredIn, Fuzzing, FuzzingIn, NothingCut, Triaged
<1>4. Positions /\ FilesFresh /\ Targets /\ Ended
  BY DEF Init, Positions, FilesFresh, Targets, Intact, Ended
<1>5. Options /\ Hands
  BY DEF Init, Options, Hands, AtWork, Copying, Single
<1>6. QED
  BY <1>1, <1>2, <1>3, <1>4, <1>5 DEF Init, DiskInv, Started, Configured, HasResults, Built

-----------------------------------------------------------------------------
(* The tasks of the build phase.                                           *)

BuildStep(w) == Skip(w) \/ Compile(w) \/ OpenCopy(w) \/ CloseCopy(w) \/ BuildFails(w)

(* What each step of a build does to its target, its position and the      *)
(* stage of its job; the rest of the campaign stays.                       *)
LEMMA BuildFrame ==
    ASSUME DiskInv, NEW w \in Workdirs, BuildStep(w)
    PROVE  /\ phase = "build" /\ phase' = "build"
           /\ UNCHANGED <<rev, runs, wanted, rebuild, refuzz, env, config, triage>>
           /\ UNCHANGED <<state, copy, ran, traced, lists, emptied, cut>>
           /\ Entries' = Entries /\ w \in Entries
           /\ job' = [job EXCEPT ![w] = job'[w]]
           /\ job[w] \in {"todo", "copy", "write"}
           /\ job'[w] \in {"copy", "write", "over", "failed"}
<1>1. ASSUME NEW from, NEW to, Task(w, "build", from, to), from \subseteq {"todo", "copy", "write"},
             to \in {"copy", "write", "over", "failed"}
      PROVE  /\ phase = "build" /\ phase' = "build"
             /\ UNCHANGED <<rev, runs, wanted, rebuild, refuzz, env, config, triage>>
             /\ Entries' = Entries /\ w \in Entries
             /\ job' = [job EXCEPT ![w] = job'[w]]
             /\ job[w] \in {"todo", "copy", "write"} /\ job'[w] = to
  BY <1>1 DEF Task, args, Entries, DiskInv, TypeOK
<1>2. UNCHANGED <<state, copy, ran, traced, lists, emptied, cut>>
  BY DEF BuildStep, Skip, Compile, OpenCopy, CloseCopy, BuildFails, folder, history, copied
<1>3. QED
  BY <1>1, <1>2 DEF BuildStep, Skip, Compile, OpenCopy, CloseCopy, BuildFails

(* The bytes of a file that is opened are of builds of this run.           *)
LEMMA OpenTypes ==
    ASSUME DiskInv, NEW w \in Workdirs, OpenCopy(w)
    PROVE  /\ runs \in 1 .. MaxRuns
           /\ by' \in [Harnesses -> [1 .. Files -> SUBSET Builds]]
           /\ pos[w] \in 1 .. Files /\ Owner(w) \in Harnesses
           /\ \A h \in Harnesses, f \in 1 .. Files :
                  by'[h][f] = IF h = Owner(w) /\ f = pos[w]
                              THEN {<<runs, v>> : v \in Writers(w) \cup {w}} ELSE by[h][f]
<1>1. /\ by \in [Harnesses -> [1 .. Files -> SUBSET Builds]] /\ Owner(w) \in Harnesses
      /\ Positions /\ Started /\ phase = "build" /\ job[w] = "copy"
      /\ pos[w] \in 1 .. Files + 1 /\ Files \in Nat
  BY Basics DEF DiskInv, TypeOK, OpenCopy, Task
<1>2. runs \in 1 .. MaxRuns
  BY <1>1, Basics DEF DiskInv, TypeOK, Started
<1>3. pos[w] \in 1 .. Files
  BY <1>1 DEF Positions
<1>4. Writers(w) \cup {w} \subseteq Workdirs
  BY DEF Writers, Rivals
<1> DEFINE S == {<<runs, v>> : v \in Writers(w) \cup {w}}
<1>5. S \in SUBSET Builds
  BY <1>2, <1>4 DEF Builds
<1>6. by' = [by EXCEPT ![Owner(w)][pos[w]] = S]
  BY DEF OpenCopy
<1> HIDE DEF S
<1>7. /\ by' \in [Harnesses -> [1 .. Files -> SUBSET Builds]]
      /\ \A h \in Harnesses, f \in 1 .. Files :
            by'[h][f] = IF h = Owner(w) /\ f = pos[w] THEN S ELSE by[h][f]
  BY <1>1, <1>3, <1>5, <1>6
<1>8. QED
  BY <1>1, <1>2, <1>3, <1>7 DEF S

(* A step of a build writes only kernels of this revision or an earlier    *)
(* one.                                                                    *)
LEMMA BuildTypes ==
    ASSUME DiskInv, NEW w \in Workdirs, BuildStep(w)
    PROVE  TypeOK'
<1>1. TypeOK /\ Positions
  BY DEF DiskInv
<1>2. Owner(w) \in Harnesses /\ Files \in Nat \ {0} /\ MaxRev \in Nat
  BY Basics
<1>3. job' \in [Workdirs -> Jobs]
  BY <1>1, BuildFrame DEF TypeOK, Jobs
<1>4. /\ pos' \in [Workdirs -> 1 .. Files + 1] /\ target' \in [Harnesses -> Kernels]
      /\ broken' \subseteq Harnesses /\ raced' \subseteq Harnesses
      /\ by' \in [Harnesses -> [1 .. Files -> SUBSET Builds]]
  <2>1. CASE Skip(w) \/ Compile(w)
    BY <1>1, <2>1 DEF Skip, Compile, TypeOK, history, copied
  <2>2. CASE OpenCopy(w)
    <3>1. pos[w] \in 1 .. Files /\ Torn \in -1 .. MaxRev
      BY <1>1, <1>2, <2>2, BuildFrame DEF OpenCopy, Positions, TypeOK, Task, Torn
    <3>2. target' = [target EXCEPT ![Owner(w)][pos[w]] = Torn] /\ UNCHANGED <<pos, broken>>
      BY <2>2 DEF OpenCopy
    <3>3. target' \in [Harnesses -> Kernels]
      BY <1>1, <1>2, <3>1, <3>2 DEF TypeOK, Kernels
    <3>4. /\ by' \in [Harnesses -> [1 .. Files -> SUBSET Builds]]
          /\ raced' \subseteq Harnesses
      <4>1. raced' \in {raced, raced \cup {Owner(w)}} /\ raced \subseteq Harnesses
        BY <1>1, <2>2 DEF OpenCopy, TypeOK
      <4>2. QED
        BY <1>2, <2>2, <4>1, OpenTypes
    <3>5. QED
      BY <1>1, <3>2, <3>3, <3>4 DEF TypeOK
  <2>3. CASE CloseCopy(w)
    <3>1. pos[w] \in 1 .. Files /\ Torn \in -1 .. MaxRev /\ rev \in -1 .. MaxRev
      BY <1>1, <1>2, <2>3, BuildFrame DEF CloseCopy, Positions, TypeOK, Task, Torn
    <3>2. PICK r \in {rev, Torn} : target' = [target EXCEPT ![Owner(w)][pos[w]] = r]
      BY <2>3 DEF CloseCopy
    <3>3. pos' = [pos EXCEPT ![w] = @ + 1] /\ UNCHANGED <<by, raced, broken>>
      BY <2>3 DEF CloseCopy, history, copied
    <3>4. target' \in [Harnesses -> Kernels]
      <4>1. r \in -1 .. MaxRev
        BY <3>1
      <4>2. QED
        BY <1>1, <1>2, <3>1, <3>2, <4>1 DEF TypeOK, Kernels
    <3>5. QED
      BY <1>1, <1>2, <3>1, <3>3, <3>4 DEF TypeOK
  <2>4. CASE BuildFails(w)
    BY <1>1, <1>2, <2>4 DEF BuildFails, TypeOK
  <2>5. QED
    BY <2>1, <2>2, <2>3, <2>4 DEF BuildStep
<1>5. QED
  BY <1>1, <1>3, <1>4, BuildFrame DEF TypeOK

(* A build leaves alone what the other phases are about.                   *)
LEMMA BuildKeepsOthers ==
    ASSUME DiskInv, NEW w \in Workdirs, BuildStep(w)
    PROVE  /\ Stages' /\ Started' /\ Configured' /\ Options' /\ Stored' /\ Fuzzing' /\ HasResults'
           /\ Ended' /\ NothingCut' /\ Triaged' /\ Built'
<1>1. /\ phase' = "build" /\ phase = "build" /\ UNCHANGED <<runs, triage, wanted, config, env>>
      /\ UNCHANGED <<state, copy, ran, traced, lists, emptied, cut>>
      /\ Entries' = Entries
      /\ job' = [job EXCEPT ![w] = job'[w]]
      /\ job[w] \in {"todo", "copy", "write"}
      /\ job'[w] \in {"copy", "write", "over", "failed"}
      /\ job \in [Workdirs -> Jobs]
  BY BuildFrame DEF DiskInv, TypeOK
<1>2. \A v \in Workdirs : job'[v] = IF v = w THEN job'[w] ELSE job[v]
  BY <1>1
<1>3. Stages'
  BY <1>1, <1>2 DEF DiskInv, Stages
<1>4. Fuzzing' /\ NothingCut'
  <2>1. \A v \in Workdirs : job'[v] \notin {"store", "boot", "run"} /\ job[v] # "run"
    BY <1>1, <1>2 DEF DiskInv, Stages
  <2>2. QED
    BY <1>1, <2>1 DEF DiskInv, Fuzzing, FuzzingIn, NothingCut
<1>5. Started' /\ Configured' /\ Options' /\ Stored' /\ HasResults' /\ Ended' /\ Triaged' /\ Built'
  BY <1>1 DEF DiskInv, Started, Configured, Options, Stored, StoredIn, HasResults, Ended, Triaged, Built
<1>6. QED
  BY <1>3, <1>4, <1>5

(* A build copies the files in order, and only while it is at work.        *)
LEMMA BuildPositions ==
    ASSUME DiskInv, NEW w \in Workdirs, BuildStep(w)
    PROVE  Positions'
<1> DEFINE h == Owner(w)
<1>1. TypeOK /\ Positions /\ phase = "build" /\ h \in Harnesses /\ Files \in Nat \ {0}
  BY Basics, BuildFrame DEF DiskInv
<1>2. /\ UNCHANGED <<rev, rebuild>> /\ job \in [Workdirs -> Jobs]
      /\ \A v \in Workdirs : job'[v] = IF v = w THEN job'[w] ELSE job[v]
  BY BuildFrame DEF DiskInv, TypeOK
<1>3. \A v \in Workdirs : pos[v] \in 1 .. Files + 1 /\ Owner(v) \in Harnesses
  BY <1>1, Basics DEF TypeOK
<1>4. CASE Skip(w)
  BY <1>1, <1>2, <1>4 DEF Skip, Task, UpToDate, Positions, history, copied
<1>5. CASE Compile(w)
  BY <1>1, <1>2, <1>3, <1>5 DEF Compile, Task, Positions, history, copied
<1>6. CASE OpenCopy(w)
  <2>1. \A g \in Harnesses, f \in 1 .. Files : target'[g][f] \in {target[g][f], Torn}
    BY <1>1, <1>6 DEF OpenCopy, TypeOK, Kernels
  <2>2. job'[w] = "write" /\ UNCHANGED <<pos, broken>> /\ job[w] = "copy"
    BY <1>1, <1>6 DEF OpenCopy, Task, TypeOK, history, copied
  <2>3. QED
    BY <1>1, <1>2, <1>3, <2>1, <2>2 DEF Positions, Torn, Absent
<1>7. CASE CloseCopy(w)
  <2>1. \A g \in Harnesses, f \in 1 .. Files : target'[g][f] \in {target[g][f], Torn, rev}
    BY <1>1, <1>7 DEF CloseCopy, TypeOK, Kernels
  <2>2. /\ UNCHANGED broken /\ job[w] = "write" /\ pos[w] \in 1 .. Files
        /\ \A v \in Workdirs : pos'[v] = IF v = w THEN pos[w] + 1 ELSE pos[v]
        /\ job'[w] = IF pos[w] = Files THEN "over" ELSE "copy"
    BY <1>1, <1>3, <1>7 DEF CloseCopy, Task, TypeOK, history, copied, Positions
  <2>3. rev # Absent /\ Torn # Absent
    BY <1>1, Basics DEF TypeOK, Torn, Absent
  <2>4. QED
    BY <1>1, <1>2, <1>3, <2>1, <2>2, <2>3 DEF Positions
<1>8. CASE BuildFails(w)
  <2>1. UNCHANGED <<target, pos>> /\ job'[w] = "failed" /\ job[w] \in {"todo", "copy", "write"}
    BY <1>1, <1>8 DEF BuildFails, Task, TypeOK
  <2>2. /\ broken \subseteq broken'
        /\ h \notin broken' => pos[w] = 1
    BY <1>1, <1>3, <1>8, <2>1 DEF BuildFails, Copying, Positions
  <2>3. QED
    BY <1>1, <1>2, <1>3, <2>1, <2>2 DEF Positions
<1>9. QED
  BY <1>4, <1>5, <1>6, <1>7, <1>8 DEF BuildStep

(* The files a build has copied are of this revision, also where a second  *)
(* build of the harness copies into the same target.                       *)
LEMMA BuildFilesFresh ==
    ASSUME DiskInv, NEW w \in Workdirs, BuildStep(w)
    PROVE  FilesFresh'
<1> DEFINE h == Owner(w)
           p == pos[w]
<1>1. /\ TypeOK /\ Positions /\ FilesFresh /\ phase = "build" /\ h \in Harnesses
      /\ Files \in Nat \ {0} /\ rev' = rev /\ job \in [Workdirs -> Jobs]
  BY Basics, BuildFrame DEF DiskInv, TypeOK
<1>2. \A v \in Workdirs : job'[v] = IF v = w THEN job'[w] ELSE job[v]
  BY BuildFrame DEF DiskInv, TypeOK
<1>3. \A v \in Workdirs : pos[v] \in 1 .. Files + 1 /\ Owner(v) \in Harnesses
  BY <1>1, Basics DEF TypeOK
<1> SUFFICES ASSUME NEW v \in Workdirs, NEW f \in 1 .. Files, f < pos'[v]
             PROVE  \/ target'[Owner(v)][f] = rev'
                    \/ \E u \in Workdirs : Owner(u) = Owner(v) /\ AtFile(u, f)'
  BY DEF FilesFresh
<1>4. CASE Skip(w) \/ Compile(w)
  <2>1. UNCHANGED <<target, pos, broken>> /\ job[w] = "todo"
    BY <1>1, <1>4 DEF Skip, Compile, Task, TypeOK, history, copied
  <2>2. \A u \in Workdirs : AtFile(u, f) => AtFile(u, f)'
    BY <1>2, <2>1 DEF AtFile
  <2>3. QED
    BY <1>1, <2>1, <2>2 DEF FilesFresh
<1>5. CASE OpenCopy(w)
  <2>1. UNCHANGED <<pos, broken>> /\ job[w] = "copy" /\ job'[w] = "write"
    BY <1>1, <1>5 DEF OpenCopy, Task, TypeOK, history, copied
  <2>2. \A u \in Workdirs : AtFile(u, f) => AtFile(u, f)'
    BY <1>2, <2>1 DEF AtFile
  <2>3. CASE Owner(v) = h /\ f = p
    <3>1. job'[w] = "write" /\ pos'[w] = f
      BY <2>1, <2>3
    <3>2. AtFile(w, f)'
      BY <3>1 DEF AtFile
    <3>3. QED
      BY <2>3, <3>2
  <2>4. CASE ~(Owner(v) = h /\ f = p)
    <3>1. target'[Owner(v)][f] = target[Owner(v)][f]
      BY <1>1, <1>3, <1>5, <2>4 DEF OpenCopy, TypeOK, Kernels
    <3>2. QED
      BY <1>1, <2>1, <2>2, <3>1 DEF FilesFresh
  <2>5. QED
    BY <2>3, <2>4
<1>6. CASE CloseCopy(w)
  <2>1. /\ UNCHANGED broken /\ job[w] = "write" /\ p \in 1 .. Files
        /\ \A u \in Workdirs : pos'[u] = IF u = w THEN p + 1 ELSE pos[u]
    BY <1>1, <1>3, <1>6 DEF CloseCopy, Task, TypeOK, history, copied, Positions
  <2>2. \A u \in Workdirs : u # w /\ AtFile(u, f) => AtFile(u, f)'
    BY <1>2, <2>1 DEF AtFile
  <2>3. CASE Owner(v) = h /\ f = p
    <3>1. CASE Writers(w) = {}
      <4>1. target' = [target EXCEPT ![h][p] = rev]
        BY <1>6, <3>1 DEF CloseCopy
      <4>2. QED
        BY <1>1, <2>1, <2>3, <4>1 DEF TypeOK, Kernels
    <3>2. CASE Writers(w) # {}
      <4>1. PICK u \in Writers(w) : TRUE
        BY <3>2
      <4>2. u \in Workdirs /\ u # w /\ Owner(u) = h /\ job[u] = "write" /\ pos[u] = f
        BY <2>3, <4>1 DEF Writers, Rivals
      <4>3. AtFile(u, f)
        BY <4>2 DEF AtFile
      <4>4. AtFile(u, f)' /\ Owner(u) = Owner(v)
        BY <2>2, <2>3, <4>2, <4>3
      <4>5. QED
        BY <4>2, <4>4
    <3>3. QED
      BY <3>1, <3>2
  <2>4. CASE ~(Owner(v) = h /\ f = p)
    <3>1. target'[Owner(v)][f] = target[Owner(v)][f]
      BY <1>1, <1>3, <1>6, <2>4 DEF CloseCopy, TypeOK, Kernels
    <3>2. f < pos[v]
      BY <1>3, <2>1, <2>4
    <3>3. ASSUME NEW u \in Workdirs, Owner(u) = Owner(v), AtFile(u, f)
          PROVE  u # w
      BY <2>1, <2>4, <3>3 DEF AtFile
    <3>4. QED
      BY <1>1, <2>2, <3>1, <3>2, <3>3 DEF FilesFresh
  <2>5. QED
    BY <2>3, <2>4
<1>7. CASE BuildFails(w)
  <2>1. /\ UNCHANGED <<target, pos>> /\ job'[w] = "failed" /\ job[w] \in {"todo", "copy", "write"}
    BY <1>1, <1>7 DEF BuildFails, Task, TypeOK
  <2>2. /\ broken \subseteq broken'
        /\ job[w] = "write" => h \in broken'
    BY <1>7 DEF BuildFails, Copying
  <2>3. \A u \in Workdirs : AtFile(u, f) => AtFile(u, f)'
    BY <1>2, <2>1, <2>2 DEF AtFile
  <2>4. QED
    BY <1>1, <2>1, <2>3 DEF FilesFresh
<1>8. QED
  BY <1>4, <1>5, <1>6, <1>7 DEF BuildStep

(* While no copy was cut short, a target nobody wrote to in this run is    *)
(* what earlier runs left.                                                 *)
LEMMA BuildTargets ==
    ASSUME DiskInv, NEW w \in Workdirs, BuildStep(w)
    PROVE  Targets'
<1>1. /\ TypeOK /\ Positions /\ Targets /\ phase = "build" /\ phase' = "build" /\ Owner(w) \in Harnesses
      /\ job \in [Workdirs -> Jobs]
  BY Basics, BuildFrame DEF DiskInv, TypeOK
<1>2. \A v \in Workdirs : job'[v] = IF v = w THEN job'[w] ELSE job[v]
  BY BuildFrame DEF DiskInv, TypeOK
<1>3. CASE Skip(w) \/ Compile(w)
  <2>1. UNCHANGED <<target, pos, broken>> /\ job[w] = "todo"
    BY <1>1, <1>3 DEF Skip, Compile, Task, TypeOK, history, copied
  <2>2. \A v \in Workdirs : Written(v) => Written(v)'
    BY <1>2, <2>1 DEF Written
  <2>3. QED
    BY <1>1, <2>1, <2>2 DEF Targets, Intact
<1>4. CASE OpenCopy(w) \/ CloseCopy(w)
  <2>1. UNCHANGED broken /\ Written(w)'
    <3>1. CASE OpenCopy(w)
      BY <1>1, <3>1 DEF OpenCopy, Task, TypeOK, history, copied, Written
    <3>2. CASE CloseCopy(w)
      BY <1>1, <3>2, Basics DEF CloseCopy, TypeOK, history, copied, Written
    <3>3. QED
      BY <1>4, <3>1, <3>2
  <2>2. \A v \in Workdirs : v # w /\ Written(v) => Written(v)'
    BY <1>1, <1>2, <1>4 DEF OpenCopy, CloseCopy, TypeOK, Written
  <2>3. \A g \in Harnesses : g # Owner(w) => target'[g] = target[g]
    BY <1>1, <1>4 DEF OpenCopy, CloseCopy, TypeOK
  <2>4. \A v \in Workdirs : Owner(v) \in Harnesses /\ (Owner(v) # Owner(w) => v # w)
    BY Basics
  <2>5. QED
    BY <1>1, <2>1, <2>2, <2>3, <2>4 DEF Targets, Intact
<1>5. CASE BuildFails(w)
  <2>1. /\ UNCHANGED <<target, pos>> /\ job[w] \in {"todo", "copy", "write"}
    BY <1>1, <1>5 DEF BuildFails, Task, TypeOK
  <2>2. /\ broken \subseteq broken'
        /\ Owner(w) \notin broken' => job[w] # "write"
    BY <1>5 DEF BuildFails, Copying
  <2>3. \A v \in Workdirs : Owner(v) \notin broken' /\ Written(v) => Written(v)'
    BY <1>2, <2>1, <2>2 DEF Written
  <2>4. QED
    BY <1>1, <2>1, <2>2, <2>3 DEF Targets, Intact
<1>6. QED
  BY <1>3, <1>4, <1>5 DEF BuildStep

(* A build that finds no other at work has a file to itself from when it   *)
(* opens it, and the target when it comes to its end.                      *)
LEMMA BuildHands ==
    ASSUME DiskInv, NEW w \in Workdirs, BuildStep(w)
    PROVE  Hands'
<1> DEFINE h == Owner(w)
<1>1. /\ TypeOK /\ Positions /\ Hands /\ phase = "build" /\ h \in Harnesses /\ runs' = runs
      /\ job \in [Workdirs -> Jobs] /\ Files \in Nat \ {0}
      /\ \A v \in Workdirs : pos[v] \in 1 .. Files + 1
  BY Basics, BuildFrame DEF DiskInv, TypeOK
<1>2. \A v \in Workdirs : job'[v] = IF v = w THEN job'[w] ELSE job[v]
  BY BuildFrame DEF DiskInv, TypeOK
<1> SUFFICES ASSUME NEW g \in Harnesses, g \notin raced'
             PROVE  /\ \A u \in AtWork(g)', v \in AtWork(g)' : u = v
                    /\ \A v \in AtWork(g)', f \in 1 .. Files : Reached(v, f)' => by'[g][f] = {<<runs, v>>}
                    /\ g \in broken' \/ AtWork(g)' # {} \/ Single(g)'
  BY <1>1 DEF Hands
<1>3. /\ \A v \in Workdirs \ {w} : pos'[v] = pos[v]
      /\ g # h => target'[g] = target[g] /\ by'[g] = by[g]
      /\ raced \subseteq raced' /\ broken \subseteq broken'
  BY <1>1 DEF BuildStep, Skip, Compile, OpenCopy, CloseCopy, BuildFails, TypeOK, history, copied
<1>4. /\ \A u \in AtWork(g), v \in AtWork(g) : u = v
      /\ \A v \in AtWork(g), f \in 1 .. Files : Reached(v, f) => by[g][f] = {<<runs, v>>}
      /\ g \in broken \/ AtWork(g) # {} \/ Single(g)
  BY <1>1, <1>3 DEF Hands
<1>5. \A v \in Workdirs \ {w} : /\ Copying(v)' <=> Copying(v)
                                /\ \A f \in 1 .. Files : Reached(v, f)' <=> Reached(v, f)
  BY <1>2, <1>3 DEF Copying, Reached
<1>6. CASE g # h
  <2>1. AtWork(g)' = AtWork(g) /\ w \notin AtWork(g)
    BY <1>5, <1>6 DEF AtWork
  <2>2. \A v \in AtWork(g) : v \in Workdirs \ {w}
    BY <2>1 DEF AtWork
  <2>3. QED
    BY <1>3, <1>4, <1>5, <1>6, <2>1, <2>2 DEF Single
<1>7. CASE g = h /\ (Skip(w) \/ Compile(w) \/ (BuildFails(w) /\ ~Copying(w)))
  <2>1. /\ UNCHANGED <<target, pos, by, broken>> /\ ~Copying(w) /\ job'[w] # "write"
        /\ job[w] \in {"todo", "copy"} /\ pos[w] = 1
    BY <1>1, <1>7 DEF Skip, Compile, BuildFails, Task, TypeOK, history, copied, Copying, Positions
  <2>2. ~Copying(w)' /\ AtWork(g)' = AtWork(g) /\ w \notin AtWork(g)
    BY <1>5, <2>1 DEF AtWork, Copying
  <2>3. \A v \in AtWork(g) : v \in Workdirs \ {w}
    BY <2>2 DEF AtWork
  <2>4. QED
    BY <1>4, <1>5, <2>1, <2>2, <2>3 DEF Single
<1>8. CASE g = h /\ BuildFails(w) /\ Copying(w)
  <2>1. g \in broken' /\ UNCHANGED <<pos, by>> /\ job'[w] = "failed"
    BY <1>1, <1>8 DEF BuildFails, Task, TypeOK
  <2>2. w \notin AtWork(g)' /\ AtWork(g)' \subseteq AtWork(g)
    BY <1>5, <2>1 DEF AtWork, Copying
  <2>3. \A v \in AtWork(g)' : v \in AtWork(g) /\ v \in Workdirs \ {w}
    BY <2>2 DEF AtWork
  <2>4. QED
    BY <1>4, <1>5, <2>1, <2>3
<1>9. CASE g = h /\ OpenCopy(w)
  <2>1. /\ \A v \in Workdirs \ {w} : Owner(v) = h => ~Copying(v)
        /\ UNCHANGED pos /\ job[w] = "copy" /\ job'[w] = "write"
    BY <1>1, <1>9 DEF OpenCopy, Task, TypeOK, Rivals
  <2>2. Copying(w)' /\ AtWork(g)' = {w}
    BY <1>5, <1>9, <2>1 DEF AtWork, Copying
  <2>3. Writers(w) = {}
    BY <2>1 DEF Writers, Rivals, Copying
  <2>4. \A f \in 1 .. Files : by'[h][f] = IF f = pos[w] THEN {<<runs, w>>} ELSE by[h][f]
    <3>1. {<<runs, v>> : v \in Writers(w) \cup {w}} = {<<runs, w>>}
      BY <2>3
    <3>2. QED
      BY <1>9, <3>1, OpenTypes
  <2>5. ASSUME NEW f \in 1 .. Files, Reached(w, f)'
        PROVE  by'[g][f] = {<<runs, w>>}
    <3>1. CASE f = pos[w]
      BY <1>9, <2>4, <3>1
    <3>2. CASE f # pos[w]
      <4>1. f < pos[w] /\ 1 < pos[w]
        BY <1>1, <2>1, <2>5, <3>2 DEF Reached
      <4>2. w \in AtWork(g) /\ Reached(w, f)
        BY <1>9, <2>1, <4>1 DEF AtWork, Copying, Reached
      <4>3. QED
        BY <1>4, <1>9, <2>4, <3>2, <4>2
    <3>3. QED
      BY <3>1, <3>2
  <2>6. QED
    BY <2>2, <2>5
<1>10. CASE g = h /\ CloseCopy(w)
  <2>1. /\ UNCHANGED <<by, broken>> /\ job[w] = "write" /\ pos[w] \in 1 .. Files
        /\ pos'[w] = pos[w] + 1 /\ job'[w] = IF pos[w] = Files THEN "over" ELSE "copy"
    BY <1>1, <1>10 DEF CloseCopy, Task, TypeOK, history, copied, Positions
  <2>2. w \in AtWork(g) /\ AtWork(g) = {w}
    BY <1>4, <1>10, <2>1 DEF AtWork, Copying
  <2>3. \A f \in 1 .. Files : Reached(w, f)' => Reached(w, f)
    BY <1>1, <2>1 DEF Reached
  <2>4. AtWork(g)' \subseteq {w}
    BY <1>5, <2>2 DEF AtWork
  <2>5. \A f \in 1 .. Files : Reached(w, f)' => by'[g][f] = {<<runs, w>>}
    BY <1>4, <2>1, <2>2, <2>3
  <2>6. CASE pos[w] = Files
    <3>1. \A f \in 1 .. Files : by'[g][f] = {<<runs, w>>}
      BY <1>1, <2>1, <2>5, <2>6 DEF Reached
    <3>2. <<runs, w>> \in Builds
      BY <1>1, Basics DEF Builds, DiskInv, Started, TypeOK
    <3>3. Single(g)'
      BY <3>1, <3>2 DEF Single
    <3>4. QED
      BY <2>4, <2>5, <3>3
  <2>7. CASE pos[w] # Files
    <3>1. w \in AtWork(g)'
      BY <1>1, <1>10, <2>1, <2>7 DEF AtWork, Copying
    <3>2. QED
      BY <2>4, <2>5, <3>1
  <2>8. QED
    BY <2>6, <2>7
<1>11. QED
  BY <1>6, <1>7, <1>8, <1>9, <1>10 DEF BuildStep

-----------------------------------------------------------------------------
(* The tasks of the fuzz and of the trace phase.                           *)

FuzzStep(w) ==
    \/ SkipFuzz(w) \/ Hollow(w) \/ Wipe(w) \/ Store(w) \/ Boot(w) \/ Report(w)
    \/ FuzzEnds(w) \/ FuzzFails(w)
TraceStep(w) == Trace(w) \/ Smatch(w) \/ TraceFails(w)

(* Such a step moves one entry and touches one workdir; no target, and no  *)
(* argument of the run, changes.                                           *)
LEMMA LaterFrame ==
    ASSUME DiskInv, NEW w \in Workdirs, FuzzStep(w) \/ TraceStep(w)
    PROVE  /\ phase = (IF FuzzStep(w) THEN "fuzz" ELSE "trace")
           /\ UNCHANGED <<rev, runs, phase, wanted, rebuild, refuzz, env, config, target, pos,
                          by, raced, broken, emptied, triage>>
           /\ Entries' = Entries /\ w \in Entries
           /\ \A v \in Workdirs : job'[v] = IF v = w THEN job'[w] ELSE job[v]
           /\ job' \in [Workdirs -> Jobs]
<1>1. job \in [Workdirs -> Jobs]
  BY DEF DiskInv, TypeOK
<1>2. ASSUME NEW ph, NEW from, NEW to \in Jobs \ {"none"}, Task(w, ph, from, to), "none" \notin from
      PROVE  /\ phase = ph
             /\ UNCHANGED <<rev, runs, phase, wanted, rebuild, refuzz, env, config, triage>>
             /\ Entries' = Entries /\ w \in Entries
             /\ \A v \in Workdirs : job'[v] = IF v = w THEN job'[w] ELSE job[v]
             /\ job' \in [Workdirs -> Jobs]
  BY <1>1, <1>2 DEF Task, args, Entries
<1>3. CASE FuzzStep(w)
  <2>1. UNCHANGED <<target, pos, by, raced, broken, emptied>>
    BY <1>3 DEF FuzzStep, SkipFuzz, Hollow, Wipe, Store, Boot, Report, FuzzEnds, FuzzFails, history, copied
  <2>2. \E to \in Jobs \ {"none"}, from \in SUBSET Jobs : Task(w, "fuzz", from, to) /\ "none" \notin from
    BY <1>3 DEF FuzzStep, SkipFuzz, Hollow, Wipe, Store, Boot, Report, FuzzEnds, FuzzFails, Jobs
  <2>3. QED
    BY <1>2, <1>3, <2>1, <2>2
<1>4. CASE TraceStep(w) /\ ~FuzzStep(w)
  <2>1. UNCHANGED <<target, pos, by, raced, broken, emptied>>
    BY <1>4 DEF TraceStep, Trace, Smatch, TraceFails, history, copied
  <2>2. \E to \in Jobs \ {"none"}, from \in SUBSET Jobs : Task(w, "trace", from, to) /\ "none" \notin from
    BY <1>4 DEF TraceStep, Trace, Smatch, TraceFails, Jobs
  <2>3. QED
    BY <1>2, <1>4, <2>1, <2>2
<1>5. QED
  BY <1>3, <1>4

(* So it leaves alone what is known of the harnesses and their targets.    *)
LEMMA LaterKeepsTargets ==
    ASSUME DiskInv, NEW w \in Workdirs, FuzzStep(w) \/ TraceStep(w)
    PROVE  /\ Started' /\ Configured' /\ Options' /\ Ended'
           /\ Positions' /\ FilesFresh' /\ Targets' /\ Built' /\ (Stages' => Hands')
<1>1. /\ phase' # "build" /\ phase' # "end" /\ phase' = phase
      /\ UNCHANGED <<rev, runs, wanted, rebuild, config, target, by, raced, broken, emptied>>
      /\ Entries' = Entries
  BY LaterFrame
<1>2. Started /\ Configured /\ Options /\ Targets /\ Built /\ phase # "build"
  BY <1>1 DEF DiskInv
<1>3. Started' /\ Configured' /\ Options' /\ Ended'
  BY <1>1, <1>2 DEF Started, Configured, Options, Ended
<1>4. Positions' /\ FilesFresh' /\ Targets' /\ Built'
  BY <1>1, <1>2 DEF Positions, FilesFresh, Targets, Intact, Built
<1>5. Stages' => Hands'
  <2>1. \A h \in Harnesses : AtWork(h) = {}
    BY <1>2, Idle DEF DiskInv
  <2>2. Stages' => \A h \in Harnesses : AtWork(h)' = {}
    BY <1>1, LaterFrame DEF Stages, AtWork, Copying, DiskInv, TypeOK, Phases
  <2>3. \A h \in Harnesses \ raced : h \in broken \/ Single(h)
    BY <2>1 DEF DiskInv, Hands
  <2>4. QED
    BY <1>1, <2>2, <2>3 DEF Hands, Single
<1>6. QED
  BY <1>3, <1>4, <1>5

(* What a step of the fuzz phase makes of the workdir of its task, and     *)
(* that it leaves the other workdirs alone.                                *)
LEMMA FuzzOthers ==
    ASSUME DiskInv, NEW w \in Workdirs, FuzzStep(w)
    PROVE  /\ state' \in [Workdirs -> States] /\ copy' \in [Workdirs -> Kernels]
           /\ ran' \in [Workdirs -> Kernels] /\ traced' \in [Workdirs -> Kernels]
           /\ lists' \in [Workdirs -> BOOLEAN] /\ cut' \in BOOLEAN
           /\ \A v \in Workdirs \ {w} :
                 /\ state'[v] = state[v] /\ copy'[v] = copy[v] /\ ran'[v] = ran[v]
                 /\ traced'[v] = traced[v] /\ lists'[v] = lists[v]
           /\ cut => cut'
<1>1. /\ state \in [Workdirs -> States] /\ copy \in [Workdirs -> Kernels]
      /\ ran \in [Workdirs -> Kernels] /\ traced \in [Workdirs -> Kernels]
      /\ lists \in [Workdirs -> BOOLEAN] /\ cut \in BOOLEAN
      /\ NoKernel \in Kernels /\ target[Owner(w)] \in Kernels
  BY Basics DEF DiskInv, TypeOK
<1>2. CASE SkipFuzz(w) \/ Hollow(w) \/ FuzzEnds(w)
  BY <1>1, <1>2 DEF SkipFuzz, Hollow, FuzzEnds, folder, history, copied
<1>3. CASE FuzzFails(w)
  BY <1>1, <1>3 DEF FuzzFails, folder
<1>4. CASE Wipe(w)
  BY <1>1, <1>4 DEF Wipe, folder, history, copied, States
<1>5. CASE Store(w)
  BY <1>1, <1>5 DEF Store, history, copied, States
<1>6. CASE Boot(w)
  BY <1>1, <1>6 DEF Boot, history, copied, States
<1>7. CASE Report(w)
  BY <1>1, <1>7 DEF Report, history, copied, States
<1>8. QED
  BY <1>2, <1>3, <1>4, <1>5, <1>6, <1>7 DEF FuzzStep

(* The workdir of the task that takes a step: what it stores is the        *)
(* target, what it runs is what it stored.                                 *)
LEMMA FuzzOwn ==
    ASSUME DiskInv, NEW w \in Workdirs, FuzzStep(w)
    PROVE  /\ job'[w] \in {"store", "boot", "run", "over", "failed"}
           /\ StoredIn(w)' /\ FuzzingIn(w)'
           /\ env /\ job'[w] = "over" => state'[w] \in Results
           /\ ~cut' => job'[w] = "run" \/ state'[w] \in {"absent", "empty", "stats"}
<1>1. /\ StoredIn(w) /\ FuzzingIn(w) /\ UNCHANGED target
      /\ ~cut => job[w] = "run" \/ state[w] \in {"absent", "empty", "stats"}
  BY LaterFrame DEF DiskInv, Stored, Fuzzing, NothingCut
<1>2. /\ state \in [Workdirs -> States] /\ copy \in [Workdirs -> Kernels]
      /\ ran \in [Workdirs -> Kernels] /\ traced \in [Workdirs -> Kernels]
      /\ lists \in [Workdirs -> BOOLEAN] /\ job \in [Workdirs -> Jobs]
  BY DEF DiskInv, TypeOK
<1>3. CASE SkipFuzz(w) \/ Hollow(w)
  <2>1. UNCHANGED <<folder, cut>> /\ job'[w] = "over" /\ job[w] = "todo" /\ (env => Fuzzed(w))
    BY <1>2, <1>3 DEF SkipFuzz, Hollow, Task, history, copied
  <2>2. QED
    BY <1>1, <2>1 DEF folder, StoredIn, FuzzingIn, Fuzzed
<1>4. CASE FuzzEnds(w)
  <2>1. UNCHANGED <<folder, cut>> /\ job'[w] = "over" /\ job[w] = "run" /\ state[w] = "stats"
    BY <1>2, <1>4 DEF FuzzEnds, Task, history, copied
  <2>2. QED
    BY <1>1, <2>1 DEF folder, StoredIn, FuzzingIn, Results
<1>5. CASE FuzzFails(w)
  <2>1. UNCHANGED folder /\ job'[w] = "failed" /\ cut' = (cut \/ job[w] = "run")
    BY <1>2, <1>5 DEF FuzzFails, Task
  <2>2. ~cut' => ~cut /\ job[w] # "run"
    BY <2>1
  <2>3. QED
    BY <1>1, <2>1, <2>2 DEF folder, StoredIn, FuzzingIn
<1>6. CASE Wipe(w)
  <2>1. job'[w] = "store" /\ job[w] = "todo" /\ UNCHANGED cut
    BY <1>2, <1>6 DEF Wipe, Task, history, copied
  <2>2. CASE state[w] # "empty"
    <3>1. state'[w] = "absent" /\ ran'[w] = NoKernel /\ traced'[w] = NoKernel /\ ~lists'[w]
      BY <1>2, <1>6, <2>2 DEF Wipe
    <3>2. QED
      BY <2>1, <3>1 DEF StoredIn, FuzzingIn, Results
  <2>3. CASE state[w] = "empty"
    <3>1. UNCHANGED folder
      BY <1>6, <2>3 DEF Wipe
    <3>2. QED
      BY <1>1, <2>1, <2>3, <3>1 DEF folder, StoredIn, FuzzingIn
  <2>4. QED
    BY <2>2, <2>3
<1>7. CASE Store(w)
  <2>1. /\ job'[w] = "boot" /\ job[w] = "store" /\ UNCHANGED <<ran, traced, lists>>
        /\ state'[w] = "empty" /\ copy'[w] = target[Owner(w)]
    BY <1>2, <1>7 DEF Store, Task
  <2>2. QED
    BY <1>1, <2>1 DEF StoredIn, FuzzingIn
<1>8. CASE Boot(w)
  <2>1. /\ job'[w] = "run" /\ job[w] = "boot" /\ UNCHANGED <<copy, traced, lists>>
        /\ state'[w] = "corpus" /\ ran'[w] = target[Owner(w)]
    BY <1>2, <1>8 DEF Boot, Task
  <2>2. QED
    BY <1>1, <2>1 DEF StoredIn, FuzzingIn, Results
<1>9. CASE Report(w)
  <2>1. /\ job'[w] = "run" /\ UNCHANGED <<copy, ran, traced, lists>>
        /\ \/ state[w] = "corpus" /\ state'[w] \in {"csv", "workers"}
           \/ state[w] \in {"csv", "workers"} /\ state'[w] = "stats"
    BY <1>2, <1>9 DEF Report, Task
  <2>2. QED
    BY <1>1, <2>1 DEF StoredIn, FuzzingIn, Results
<1>10. QED
  BY <1>3, <1>4, <1>5, <1>6, <1>7, <1>8, <1>9 DEF FuzzStep

(* A step of a fuzzing task preserves the invariant.                       *)
LEMMA FuzzKeeps ==
    ASSUME DiskInv, NEW w \in Workdirs, FuzzStep(w)
    PROVE  DiskInv'
<1>1. /\ phase = "fuzz" /\ phase' = "fuzz"
      /\ UNCHANGED <<rev, runs, wanted, rebuild, refuzz, env, config, target, pos, triage>>
      /\ UNCHANGED <<by, raced, broken, emptied>>
      /\ Entries' = Entries /\ job' \in [Workdirs -> Jobs]
      /\ \A v \in Workdirs \ {w} : job'[v] = job[v]
  BY LaterFrame
<1>2. TypeOK'
  BY <1>1, FuzzOthers DEF DiskInv, TypeOK
<1>3. Stages' /\ Triaged'
  <2>1. job'[w] \in {"none", "todo", "store", "boot", "run", "over", "failed"}
    BY FuzzOwn
  <2>2. Stages
    BY DEF DiskInv
  <2>3. QED
    BY <1>1, <2>1, <2>2 DEF Stages, Triaged
<1>4. Stored' /\ Fuzzing'
  <2>1. ASSUME NEW v \in Workdirs \ {w}
        PROVE  StoredIn(v)' /\ FuzzingIn(v)'
    <3>1. /\ state'[v] = state[v] /\ copy'[v] = copy[v] /\ ran'[v] = ran[v]
          /\ traced'[v] = traced[v] /\ lists'[v] = lists[v] /\ job'[v] = job[v] /\ UNCHANGED target
      BY <1>1, FuzzOthers
    <3>2. StoredIn(v) /\ FuzzingIn(v)
      BY DEF DiskInv, Stored, Fuzzing
    <3>3. QED
      BY <3>1, <3>2 DEF StoredIn, FuzzingIn
  <2>2. QED
    BY <2>1, FuzzOwn DEF Stored, Fuzzing
<1>5. HasResults' /\ NothingCut'
  <2>1. /\ HasResults /\ NothingCut
        /\ \A v \in Workdirs \ {w} : state'[v] = state[v]
        /\ cut => cut'
    BY FuzzOthers DEF DiskInv
  <2>2. Entries \subseteq Workdirs
    BY DEF Entries
  <2>3. HasResults'
    BY <1>1, <2>1, <2>2, FuzzOwn DEF HasResults, Results
  <2>4. NothingCut'
    BY <1>1, <2>1, FuzzOwn DEF NothingCut
  <2>5. QED
    BY <2>3, <2>4
<1>6. QED
  BY <1>2, <1>3, <1>4, <1>5, LaterKeepsTargets DEF DiskInv

(* The kernel of a trace is the one stored in the workdir: that of its     *)
(* results, if the environment lets the tracer find it.                    *)
LEMMA TraceKeeps ==
    ASSUME DiskInv, NEW w \in Workdirs, TraceStep(w)
    PROVE  DiskInv'
<1>1. /\ phase = "trace" /\ phase' = "trace"
      /\ UNCHANGED <<rev, runs, wanted, rebuild, refuzz, env, config, target, pos, triage>>
      /\ UNCHANGED <<by, raced, broken, emptied>>
      /\ Entries' = Entries /\ w \in Entries /\ job' \in [Workdirs -> Jobs]
      /\ \A v \in Workdirs \ {w} : job'[v] = job[v]
  <2>1. ~FuzzStep(w)
    BY DEF TraceStep, FuzzStep, Trace, Smatch, TraceFails, SkipFuzz, Hollow, Wipe, Store, Boot,
           Report, FuzzEnds, FuzzFails, Task
  <2>2. QED
    BY <2>1, LaterFrame
<1>2. /\ traced \in [Workdirs -> Kernels] /\ lists \in [Workdirs -> BOOLEAN]
      /\ copy \in [Workdirs -> Kernels] /\ job \in [Workdirs -> Jobs]
  BY DEF DiskInv, TypeOK
<1>3. UNCHANGED <<state, copy, ran, cut>> /\ job'[w] \in {"smatch", "over", "failed"}
  BY <1>2 DEF TraceStep, Trace, Smatch, TraceFails, Task, history, copied
<1>4. /\ traced' \in [Workdirs -> Kernels] /\ lists' \in [Workdirs -> BOOLEAN]
      /\ \A v \in Workdirs \ {w} : traced'[v] = traced[v] /\ lists'[v] = lists[v]
      /\ traced'[w] = traced[w] \/ (env /\ traced'[w] = copy[w])
      /\ lists'[w] = lists[w] \/ env
  BY <1>2 DEF TraceStep, Trace, Smatch, TraceFails, TraceKernel
<1>5. TypeOK'
  BY <1>1, <1>3, <1>4 DEF DiskInv, TypeOK
<1>6. Stages' /\ Fuzzing' /\ Triaged'
  <2>1. /\ Stages /\ Triaged
        /\ \A v \in Workdirs : job'[v] \in {"none", "todo", "smatch", "over", "failed"}
    BY <1>1, <1>3 DEF DiskInv, Stages
  <2>2. QED
    BY <1>1, <1>3, <2>1 DEF Stages, Fuzzing, FuzzingIn, Triaged
<1>7. Stored'
  <2>1. /\ \A v \in Workdirs : StoredIn(v)
        /\ env => state[w] \in Results
    BY <1>1 DEF DiskInv, Stored, HasResults
  <2>2. ASSUME NEW v \in Workdirs
        PROVE  StoredIn(v)'
    <3>1. CASE v # w
      BY <1>3, <1>4, <2>1, <3>1 DEF StoredIn
    <3>2. CASE v = w
      BY <1>3, <1>4, <2>1, <3>2 DEF StoredIn, Results
    <3>3. QED
      BY <3>1, <3>2
  <2>3. QED
    BY <2>2 DEF Stored
<1>8. HasResults' /\ NothingCut'
  <2>1. HasResults /\ NothingCut /\ \A v \in Workdirs : job[v] # "run"
    BY <1>1 DEF DiskInv, Stages
  <2>2. QED
    BY <1>1, <1>3, <2>1 DEF HasResults, NothingCut
<1>9. QED
  BY <1>5, <1>6, <1>7, <1>8, LaterKeepsTargets DEF DiskInv

-----------------------------------------------------------------------------
(* The run as a whole.                                                     *)

(* A step of a build preserves the invariant.                              *)
LEMMA BuildKeeps ==
    ASSUME DiskInv, NEW w \in Workdirs, BuildStep(w)
    PROVE  DiskInv'
BY BuildTypes, BuildKeepsOthers, BuildPositions, BuildFilesFresh, BuildTargets, BuildHands DEF DiskInv

(* Once no build of its harness is writing, a build that is over either    *)
(* has written the whole target, in this revision, or was allowed to trust *)
(* the files it found.                                                     *)
LEMMA BuildsOver ==
    ASSUME DiskInv, phase = "build", NEW w \in Entries, job[w] = "over",
           \A v \in Workdirs : Owner(v) = Owner(w) =>
               job[v] # "write" /\ (job[v] = "failed" => Owner(w) \notin broken)
    PROVE  \/ \A f \in 1 .. Files : target[Owner(w)][f] = rev
           \/ ~rebuild /\ pos[w] = 1 /\ \A f \in 1 .. Files : target[Owner(w)][f] # Absent
<1>1. Positions /\ FilesFresh /\ w \in Workdirs /\ Files \in Nat \ {0}
  BY Basics DEF DiskInv, Entries
<1>2. CASE pos[w] = Files + 1
  <2>1. \A v \in Workdirs, f \in 1 .. Files : Owner(v) = Owner(w) => ~AtFile(v, f)
    BY DEF AtFile
  <2>2. \A f \in 1 .. Files : f < pos[w]
    BY <1>1, <1>2
  <2>3. QED
    BY <1>1, <2>1, <2>2 DEF FilesFresh
<1>3. CASE pos[w] # Files + 1
  BY <1>1, <1>3 DEF Positions
<1>4. QED
  BY <1>2, <1>3

(* So the target of a harness that no build is copying to is complete and  *)
(* of one revision, or still empty, and of one build, or of builds that    *)
(* raced, unless a build has left its copies unfinished.                   *)
LEMMA BuildsLeave ==
    ASSUME DiskInv, NEW h \in Harnesses, AtWork(h) = {}, h \notin broken
    PROVE  Intact(h) /\ (h \notin raced => Single(h))
<1>1. /\ Targets /\ Positions /\ rev \in 1 .. MaxRev /\ Files \in Nat \ {0}
      /\ job \in [Workdirs -> Jobs] /\ \A w \in Workdirs : pos[w] \in 1 .. Files + 1
  BY Basics DEF DiskInv, TypeOK
<1>2. h \notin raced => Single(h)
  BY DEF DiskInv, Hands
<1>3. CASE phase # "build" \/ \A w \in Workdirs : Owner(w) = h => ~Written(w)
  BY <1>1, <1>2, <1>3 DEF Targets
<1>4. CASE phase = "build" /\ \E w \in Workdirs : Owner(w) = h /\ Written(w)
  <2>1. PICK w \in Workdirs : Owner(w) = h /\ Written(w)
    BY <1>4
  <2>2. \A v \in Workdirs : Owner(v) = h => job[v] # "write" /\ ~(job[v] = "copy" /\ pos[v] > 1)
    BY DEF AtWork, Copying
  <2>3. job[w] \in {"none", "todo", "copy", "write", "over", "failed"} /\ pos[w] # 1
    BY <1>4, <2>1, <2>2 DEF DiskInv, Stages, Written
  <2>4. job[w] = "over"
    BY <1>1, <1>4, <2>1, <2>2, <2>3 DEF Positions
  <2>5. w \in Entries
    BY <2>4 DEF Entries
  <2>6. \A f \in 1 .. Files : target[h][f] = rev
    BY <1>4, <2>1, <2>2, <2>3, <2>4, <2>5, BuildsOver
  <2>7. QED
    BY <1>1, <1>2, <2>6 DEF Intact, Whole
<1>5. QED
  BY <1>3, <1>4

(* A run that is gone leaves the workdirs and targets as they were; what   *)
(* holds of them when no copy, and no kAFL, was ever cut short is shown    *)
(* for each way in which a run may end.                                    *)
LEMMA GoneKeeps ==
    ASSUME DiskInv, Gone, UNCHANGED <<rev, runs, config, target, folder>>,
           UNCHANGED <<by, raced>>, broken' \subseteq Harnesses, emptied' \in BOOLEAN, cut' \in BOOLEAN,
           \A h \in Harnesses \ broken' : Intact(h) /\ (h \notin raced => Single(h)),
           \A h \in Harnesses : config[h] = 4 => emptied',
           ~cut' => \A w \in Workdirs : state[w] \in {"absent", "empty", "stats"}
    PROVE  DiskInv'
<1>1. /\ phase' = "off" /\ wanted' = {} /\ rebuild' = FALSE /\ refuzz' = FALSE /\ env' = TRUE
      /\ triage' = "no" /\ Entries' = {}
      /\ \A w \in Workdirs : job'[w] = "none" /\ pos'[w] = 1
      /\ UNCHANGED <<state, copy, ran, traced, lists>>
  BY DEF Gone, Entries, folder
<1>2. TypeOK'
  <2>1. job' \in [Workdirs -> Jobs] /\ pos' \in [Workdirs -> 1 .. Files + 1]
    BY Basics DEF Gone, Jobs
  <2>2. QED
    BY <1>1, <2>1 DEF DiskInv, TypeOK, Phases
<1>3. Stages' /\ Started' /\ Configured' /\ Options' /\ HasResults' /\ Ended' /\ Triaged' /\ Built'
  BY <1>1 DEF Stages, Started, Configured, Options, HasResults, Ended, Triaged, Built
<1>4. Stored' /\ Fuzzing' /\ NothingCut'
  BY <1>1 DEF DiskInv, Stored, StoredIn, Fuzzing, FuzzingIn, NothingCut
<1>5. Positions' /\ FilesFresh' /\ Targets' /\ Hands'
  <2>1. \A h \in Harnesses : AtWork(h)' = {}
    BY <1>1 DEF AtWork, Copying
  <2>2. QED
    BY <1>1, <2>1 DEF Positions, FilesFresh, Targets, Intact, Hands, Single
<1>6. QED
  BY <1>2, <1>3, <1>4, <1>5 DEF DiskInv

(* A run ends; only a copy or a kAFL that is killed is cut short.          *)
LEMMA EndKeeps ==
    ASSUME DiskInv, Kill \/ Abort \/ NothingFound \/ (Smatcher /\ Gone) \/ Finished
    PROVE  DiskInv'
<1>1. Gone /\ UNCHANGED <<rev, runs, config, target, folder>>
  BY DEF Kill, Abort, NothingFound, Smatcher, Finished
<1>2. /\ UNCHANGED <<by, raced>> /\ broken' \subseteq Harnesses /\ broken \subseteq broken'
      /\ emptied' \in BOOLEAN /\ cut' \in BOOLEAN
  <2>1. broken \subseteq Harnesses /\ emptied \in BOOLEAN /\ cut \in BOOLEAN
    BY DEF DiskInv, TypeOK
  <2>2. {Owner(w) : w \in {v \in Workdirs : Copying(v)}} \subseteq Harnesses
    BY Basics
  <2>3. QED
    BY <2>1, <2>2 DEF Kill, Abort, NothingFound, Smatcher, Finished, history, copied
<1>3. /\ Stages /\ NothingCut /\ Options /\ TypeOK
      /\ triage \in {"no", "todo", "over", "failed", "crashed"}
  BY DEF DiskInv, TypeOK
<1>4. CASE Kill
  <2>1. ASSUME NEW h \in Harnesses \ broken'
        PROVE  Intact(h) /\ (h \notin raced => Single(h))
    <3>1. AtWork(h) = {} /\ h \notin broken
      BY <1>4, <2>1 DEF Kill, AtWork
    <3>2. QED
      BY <3>1, BuildsLeave
  <2>2. \A h \in Harnesses : config[h] = 4 => emptied'
    <3>1. \A h \in Harnesses : config[h] = 4 => Has(h, "kafl.yaml") /\ ~Has(h, "options")
      BY <1>3, HasAll
    <3>2. QED
      BY <1>4, <3>1 DEF Kill
  <2>3. ~cut' => \A w \in Workdirs : state[w] \in {"absent", "empty", "stats"}
    <3>1. ~cut' => ~cut /\ phase # "fuzz"
      BY <1>4 DEF Kill
    <3>2. phase # "fuzz" => \A w \in Workdirs : job[w] # "run"
      BY <1>3 DEF Stages, TypeOK, Phases
    <3>3. QED
      BY <1>3, <3>1, <3>2 DEF NothingCut
  <2>4. QED
    BY <1>1, <1>2, <2>1, <2>2, <2>3, GoneKeeps
<1>5. CASE Abort \/ NothingFound \/ (Smatcher /\ Gone) \/ Finished
  <2>1. UNCHANGED <<broken, emptied, cut>>
    BY <1>5 DEF Abort, NothingFound, Smatcher, Finished, history, copied
  <2>2. \A w \in Workdirs : job[w] \in {"none", "todo", "over", "failed"} /\ (job[w] # "todo" \/ phase # "build")
    <3>1. CASE Abort
      BY <3>1 DEF Abort, Entries
    <3>2. CASE NothingFound \/ (Smatcher /\ Gone) \/ Finished
      BY <1>3, <3>2 DEF NothingFound, Smatcher, Finished, Stages
    <3>3. QED
      BY <1>5, <3>1, <3>2
  <2>3. ASSUME NEW h \in Harnesses \ broken'
        PROVE  Intact(h) /\ (h \notin raced => Single(h))
    <3>1. AtWork(h) = {}
      BY <2>2 DEF AtWork, Copying
    <3>2. QED
      BY <2>1, <3>1, BuildsLeave
  <2>4. phase # "init"
    BY <1>3, <1>5 DEF Abort, NothingFound, Smatcher, Finished, Entries, Stages
  <2>5. QED
    BY <1>1, <1>2, <1>3, <2>1, <2>2, <2>3, <2>4, GoneKeeps DEF NothingCut, Options
<1>6. QED
  BY <1>4, <1>5

(* Before its first task, a run changes no workdir and no target.          *)
LEMMA EarlyKeeps ==
    ASSUME DiskInv, UpdateSources \/ Begin \/ InitDone \/ \E h \in Harnesses : Configure(h)
    PROVE  DiskInv'
<1>1. /\ phase \in {"off", "init"} /\ phase' \in {"off", "init", "scan"}
      /\ UNCHANGED <<target, state, copy, ran, traced, lists, job, pos, triage>>
      /\ UNCHANGED <<by, raced, broken, emptied, cut>>
  BY DEF UpdateSources, Begin, InitDone, Configure, folder, work, history, copied
<1>2. Entries = {} /\ Entries' = {} /\ \A w \in Workdirs : job[w] = "none" /\ pos[w] = 1
  BY <1>1 DEF DiskInv, Stages, Entries
<1>3. TypeOK'
  <2>1. /\ rev \in 1 .. MaxRev /\ runs \in 0 .. MaxRuns /\ config \in [Harnesses -> 0 .. 5]
        /\ MaxRev \in Nat \ {0} /\ MaxRuns \in Nat \ {0} /\ Len(ConfigOrder) = 5
    BY Basics DEF DiskInv, TypeOK
  <2>2. rev' \in 1 .. MaxRev /\ runs' \in 0 .. MaxRuns
    BY <2>1 DEF UpdateSources, Begin, InitDone, Configure
  <2>3. config' \in [Harnesses -> 0 .. 5]
    BY <2>1 DEF UpdateSources, Begin, InitDone, Configure
  <2>4. wanted' \subseteq Harnesses /\ rebuild' \in BOOLEAN /\ refuzz' \in BOOLEAN /\ env' \in BOOLEAN
    BY DEF UpdateSources, Begin, InitDone, Configure, args, DiskInv, TypeOK
  <2>5. QED
    BY <1>1, <2>1, <2>2, <2>3, <2>4 DEF DiskInv, TypeOK, Phases
<1>4. Stages' /\ Configured' /\ HasResults' /\ Ended' /\ Triaged' /\ Built'
  BY <1>1, <1>2 DEF DiskInv, Stages, Configured, HasResults, Ended, Triaged, Built
<1>5. Stored' /\ Fuzzing' /\ NothingCut'
  BY <1>1 DEF DiskInv, Stored, StoredIn, Fuzzing, FuzzingIn, NothingCut
<1>6. Positions' /\ FilesFresh' /\ Targets' /\ Hands'
  <2>1. \A h \in Harnesses : AtWork(h) = {} /\ AtWork(h)' = {}
    BY <1>1, <1>2 DEF AtWork, Copying
  <2>2. QED
    BY <1>1, <2>1 DEF DiskInv, Positions, FilesFresh, Targets, Intact, Hands, Single
<1>7. Started' /\ Options'
  <2>1. Started /\ Options /\ runs \in Nat /\ config \in [Harnesses -> 0 .. 5]
    BY Basics DEF DiskInv, TypeOK
  <2>2. CASE UpdateSources
    BY <1>1, <2>1, <2>2 DEF UpdateSources, Started, Options, args
  <2>3. CASE Begin
    BY <1>1, <2>1, <2>3 DEF Begin, Started, Options
  <2>4. CASE InitDone
    BY <1>1, <2>1, <2>4, Basics DEF InitDone, Started, Options, args
  <2>5. CASE \E h \in Harnesses : Configure(h)
    BY <1>1, <2>1, <2>5 DEF Configure, Started, Options, args
  <2>6. QED
    BY <2>2, <2>3, <2>4, <2>5
<1>8. QED
  BY <1>3, <1>4, <1>5, <1>6, <1>7 DEF DiskInv

(* Discovery creates workdirs that are not there yet, and changes no other;*)
(* its entries are workdirs of harnesses it found.                         *)
LEMMA DiscoverFrame ==
    ASSUME DiskInv, Discover
    PROVE  /\ phase = "scan" /\ phase' = "build"
           /\ UNCHANGED <<rev, runs, wanted, rebuild, refuzz, env, config, target, copy, ran, traced,
                          lists, pos, triage, by, raced, broken, emptied, cut>>
           /\ state' \in [Workdirs -> States]
           /\ \A w \in Workdirs : \/ state'[w] = state[w]
                                  \/ state[w] = "absent" /\ state'[w] = "empty"
           /\ job' \in [Workdirs -> {"none", "todo"}]
           /\ \A w \in Entries' : Owner(w) \in wanted /\ Has(Owner(w), "kafl.yaml")
<1> DEFINE found    == {h \in wanted : Has(h, "kafl.yaml")}
           dirs(h)  == {w \in Workdirs : Owner(w) = h /\ state[w] # "absent"}
           free(h)  == {d \in 1 .. MaxDirs : state[<<h, d>>] = "absent"}
           renew    == {h \in found : refuzz \/ dirs(h) = {}}
           fresh    == {<<h, CHOOSE d \in free(h) : TRUE>> : h \in renew}
           entries  == fresh \cup UNION {dirs(h) : h \in found \ renew}
<1>1. /\ phase = "scan" /\ phase' = "build" /\ \A h \in renew : free(h) # {}
      /\ state' = [w \in Workdirs |-> IF w \in fresh THEN "empty" ELSE state[w]]
      /\ job' = [w \in Workdirs |-> IF w \in entries THEN "todo" ELSE "none"]
      /\ UNCHANGED <<rev, runs, wanted, rebuild, refuzz, env, config, target, copy, ran, traced,
                     lists, pos, triage, by, raced, broken, emptied, cut>>
  BY DEF Discover, args, history, copied
<1>2. wanted \subseteq Harnesses /\ state \in [Workdirs -> States]
  BY DEF DiskInv, TypeOK
<1>3. ASSUME NEW h \in renew
      PROVE  /\ <<h, CHOOSE d \in free(h) : TRUE>> \in Workdirs
             /\ state[<<h, CHOOSE d \in free(h) : TRUE>>] = "absent"
  <2> DEFINE e == CHOOSE d \in free(h) : TRUE
  <2>1. e \in free(h)
    BY <1>1, <1>3
  <2>2. h \in Harnesses
    BY <1>2, <1>3
  <2>3. e \in 1 .. MaxDirs /\ state[<<h, e>>] = "absent"
    BY <2>1
  <2>4. QED
    <3> HIDE DEF e
    <3>1. <<h, e>> \in Workdirs
      BY <2>2, <2>3 DEF Workdirs
    <3>2. QED
      BY <2>3, <3>1 DEF e
<1>4. ASSUME NEW w \in fresh
      PROVE  w \in Workdirs /\ state[w] = "absent" /\ Owner(w) \in found
  <2>1. PICK h \in renew : w = <<h, CHOOSE d \in free(h) : TRUE>>
    OBVIOUS
  <2>2. Owner(w) = h
    BY <2>1 DEF Owner
  <2>3. QED
    BY <1>3, <2>1, <2>2
<1>5. \A w \in entries : Owner(w) \in found
  <2>1. ASSUME NEW w \in UNION {dirs(h) : h \in found \ renew}
        PROVE  Owner(w) \in found
    OBVIOUS
  <2>2. QED
    BY <1>4, <2>1
<1>6. Entries' \subseteq entries
  BY <1>1 DEF Entries
<1>7. state' \in [Workdirs -> States] /\ job' \in [Workdirs -> {"none", "todo"}]
  BY <1>1, <1>2 DEF States
<1>8. QED
  BY <1>1, <1>4, <1>5, <1>6, <1>7

(* So it enters configured harnesses only.                                 *)
LEMMA DiscoverKeeps == ASSUME DiskInv, Discover PROVE DiskInv'
<1>1. /\ phase = "scan" /\ phase' = "build"
      /\ UNCHANGED <<rev, runs, wanted, rebuild, refuzz, env, config, target, copy, ran, traced,
                     lists, pos, triage, by, raced, broken, emptied, cut>>
  BY DiscoverFrame
<1>2. /\ TypeOK /\ \A w \in Workdirs : job[w] = "none" /\ pos[w] = 1
      /\ triage = "no"
  BY <1>1 DEF DiskInv, Stages
<1>3. \A w \in Workdirs : pos'[w] = 1 /\ job'[w] \in {"none", "todo"}
  BY <1>1, <1>2, DiscoverFrame
<1>4. TypeOK'
  <2>1. state' \in [Workdirs -> States] /\ job' \in [Workdirs -> Jobs]
    BY DiscoverFrame DEF Jobs
  <2>2. QED
    BY <1>1, <1>2, <2>1 DEF TypeOK, Phases
<1>5. Configured'
  <2>1. \A h \in wanted : Has(h, "kafl.yaml") => config[h] \in {4, 5}
    BY <1>2, HasAll DEF TypeOK
  <2>2. QED
    BY <1>1, <2>1, DiscoverFrame, Basics DEF Configured
<1>6. Stages' /\ Started' /\ Options' /\ HasResults' /\ Ended' /\ Triaged' /\ Built'
  BY <1>1, <1>2, <1>3 DEF DiskInv, Stages, Started, Options, HasResults, Ended, Triaged, Built
<1>7. Stored' /\ Fuzzing' /\ NothingCut'
  <2>1. Stored /\ NothingCut
    BY DEF DiskInv
  <2>2. \A w \in Workdirs : \/ state'[w] = state[w]
                            \/ state[w] = "absent" /\ state'[w] = "empty"
    BY DiscoverFrame
  <2>3. Stored'
    BY <1>1, <2>1, <2>2 DEF Stored, StoredIn, Results
  <2>4. Fuzzing' /\ NothingCut'
    BY <1>2, <1>3, <1>1, <2>1, <2>2 DEF Fuzzing, FuzzingIn, NothingCut
  <2>5. QED
    BY <2>3, <2>4
<1>8. Positions' /\ FilesFresh' /\ Targets' /\ Hands'
  <2>1. Positions' /\ FilesFresh'
    BY <1>3, Basics DEF Positions, FilesFresh
  <2>2. Targets'
    BY <1>1 DEF DiskInv, Targets, Intact
  <2>3. \A h \in Harnesses : AtWork(h) = {} /\ AtWork(h)' = {}
    BY <1>2, <1>3 DEF AtWork, Copying
  <2>4. Hands'
    BY <1>1, <2>3 DEF DiskInv, Hands, Single
  <2>5. QED
    BY <2>1, <2>2, <2>4
<1>9. QED
  BY <1>4, <1>5, <1>6, <1>7, <1>8 DEF DiskInv

(* A phase is left with all of its tasks over; what the next phase starts  *)
(* from is what they have left.                                            *)
LEMMA NextPhaseKeeps == ASSUME DiskInv, NextPhase PROVE DiskInv'
<1>1. /\ phase \in {"build", "fuzz", "trace"} /\ \A w \in Entries : job[w] = "over"
      /\ phase = "build" => phase' = "fuzz"
      /\ phase = "fuzz" => phase' = "trace"
      /\ phase = "trace" => phase' = "match"
      /\ triage' = IF phase = "fuzz" THEN "todo" ELSE "no"
      /\ UNCHANGED <<rev, runs, wanted, rebuild, refuzz, env, config, target, state, copy, ran,
                     traced, lists, by, raced, broken, emptied, cut>>
  BY DEF NextPhase, Over, args, folder, history, copied
<1>2. /\ TypeOK /\ Entries' = Entries /\ \A w \in Workdirs : job[w] \in {"none", "over"}
      /\ job' \in [Workdirs -> Jobs] /\ pos' \in [Workdirs -> 1 .. Files + 1]
      /\ \A w \in Workdirs : pos'[w] = 1 /\ job'[w] \in {"none", "todo"}
  BY <1>1, Basics DEF NextPhase, DiskInv, Entries, Jobs
<1>3. TypeOK'
  BY <1>1, <1>2 DEF TypeOK, Phases
<1>4. Stages' /\ Started' /\ Configured' /\ Options' /\ Ended' /\ Triaged'
  BY <1>1, <1>2 DEF DiskInv, Stages, Started, Configured, Options, Ended, Triaged
<1>5. Stored' /\ Fuzzing' /\ NothingCut'
  BY <1>1, <1>2 DEF DiskInv, Stored, StoredIn, Fuzzing, FuzzingIn, NothingCut
<1>6. HasResults'
  <2>1. HasResults /\ Entries \subseteq Workdirs /\ \A w \in Entries : job'[w] # "over"
    BY <1>2 DEF DiskInv, Entries
  <2>2. QED
    BY <1>1, <1>2, <2>1 DEF HasResults
<1>7. Positions' /\ FilesFresh'
  BY <1>1 DEF Positions, FilesFresh
<1>8. /\ \A h \in Harnesses : AtWork(h) = {} /\ AtWork(h)' = {}
      /\ \A h \in Harnesses \ broken : Intact(h) /\ (h \notin raced => Single(h))
  <2>1. \A h \in Harnesses : AtWork(h) = {} /\ AtWork(h)' = {}
    BY <1>2 DEF AtWork, Copying
  <2>2. QED
    BY <2>1, BuildsLeave
<1>9. Built'
  <2>1. CASE phase = "build"
    <3>1. ASSUME NEW w \in Entries
          PROVE  /\ rebuild => \A f \in 1 .. Files : target[Owner(w)][f] = rev
                 /\ Owner(w) \notin broken => Whole(target[Owner(w)])
      <4>1. \/ \A f \in 1 .. Files : target[Owner(w)][f] = rev
            \/ ~rebuild /\ \A f \in 1 .. Files : target[Owner(w)][f] # Absent
        BY <1>1, <1>2, <2>1, BuildsOver
      <4>2. /\ Owner(w) \in Harnesses /\ rev \in 1 .. MaxRev
            /\ 1 \in 1 .. Files /\ \A f \in 1 .. Files : NoKernel[f] = Absent
        BY <1>2, Basics DEF Entries, TypeOK, Absent
      <4>3. ASSUME Owner(w) \notin broken
            PROVE  Whole(target[Owner(w)])
        <5>1. CASE \A f \in 1 .. Files : target[Owner(w)][f] = rev
          BY <4>2, <5>1 DEF Whole
        <5>2. CASE \A f \in 1 .. Files : target[Owner(w)][f] # Absent
          BY <1>8, <4>2, <4>3, <5>2 DEF Intact
        <5>3. QED
          BY <4>1, <5>1, <5>2
      <4>4. QED
        BY <4>1, <4>3
    <3>2. QED
      BY <1>1, <1>2, <3>1 DEF Built
  <2>2. CASE phase # "build"
    BY <1>1, <1>2, <2>2 DEF DiskInv, Built
  <2>3. QED
    BY <2>1, <2>2
<1>10. Targets' /\ Hands'
  BY <1>1, <1>8 DEF Targets, Intact, Hands, Single
<1>11. QED
  BY <1>3, <1>4, <1>5, <1>6, <1>7, <1>9, <1>10 DEF DiskInv

(* The triage fails on a workdir that stats.py cannot read, and a run that *)
(* smatcher lets pass has a list for each entry.                           *)
LEMMA LateKeeps ==
    ASSUME DiskInv, Triage \/ TriageFails \/ (Smatcher /\ ~Gone)
    PROVE  DiskInv'
<1>1. UNCHANGED <<rev, runs, wanted, rebuild, refuzz, env, config, target, state, copy, ran, traced,
                  lists, job, pos, by, raced, broken, emptied, cut>>
  BY DEF Triage, TriageFails, Smatcher, args, work, folder, history, copied
<1>2. \/ phase = "trace" /\ phase' = "trace" /\ triage' \in {"over", "failed", "crashed"}
         /\ (triage' = "crashed" => ~StatsRead)
      \/ phase = "match" /\ phase' = "end" /\ triage' = triage /\ \A w \in Entries : lists[w]
  BY DEF Triage, TriageFails, Smatcher, work, args
<1>3. Entries' = Entries
  BY <1>1 DEF Entries
<1>4. TypeOK'
  BY <1>1, <1>2 DEF DiskInv, TypeOK, Phases
<1>5. Stages' /\ Started' /\ Configured' /\ Options' /\ HasResults' /\ Ended'
  BY <1>1, <1>2, <1>3 DEF DiskInv, Stages, Started, Configured, Options, HasResults, Ended
<1>6. Stored' /\ Fuzzing' /\ NothingCut'
  BY <1>1 DEF DiskInv, Stored, StoredIn, Fuzzing, FuzzingIn, NothingCut
<1>7. Positions' /\ FilesFresh' /\ Targets' /\ Built' /\ Hands'
  <2>1. \A h \in Harnesses : AtWork(h)' = AtWork(h)
    BY <1>1 DEF AtWork, Copying
  <2>2. \A w \in Workdirs, f \in 1 .. Files : Reached(w, f)' = Reached(w, f)
    BY <1>1 DEF Reached
  <2>3. Hands'
    BY <1>1, <2>1, <2>2 DEF DiskInv, Hands, Single, AtWork
  <2>4. QED
    BY <1>1, <1>2, <1>3, <2>3 DEF DiskInv, Positions, FilesFresh, Targets, Intact, Built
<1>8. Triaged'
  BY <1>1, <1>2 DEF DiskInv, Triaged, StatsRead
<1>9. QED
  BY <1>4, <1>5, <1>6, <1>7, <1>8 DEF DiskInv

(* A step that changes nothing preserves the invariant.                    *)
LEMMA StutterKeeps == ASSUME DiskInv, UNCHANGED vars PROVE DiskInv'
<1>1. /\ UNCHANGED <<rev, runs, phase, wanted, rebuild, refuzz, env, config, target, state, copy, ran,
                     traced, lists, job, pos, triage, by, raced, broken, emptied, cut>>
      /\ Entries' = Entries
  BY DEF vars, args, folder, work, history, copied, Entries
<1>2. TypeOK' /\ Stages' /\ Started' /\ Configured' /\ Options' /\ HasResults' /\ Ended'
  BY <1>1 DEF DiskInv, TypeOK, Stages, Started, Configured, Options, HasResults, Ended
<1>3. Stored' /\ Fuzzing' /\ NothingCut' /\ Triaged'
  BY <1>1 DEF DiskInv, Stored, StoredIn, Fuzzing, FuzzingIn, NothingCut, Triaged
<1>4. Positions' /\ FilesFresh' /\ Targets' /\ Built'
  BY <1>1 DEF DiskInv, Positions, FilesFresh, AtFile, Targets, Written, Intact, Built
<1>5. Hands'
  BY <1>1 DEF DiskInv, Hands, AtWork, Copying, Reached, Single
<1>6. QED
  BY <1>2, <1>3, <1>4, <1>5 DEF DiskInv

(* Every step preserves the invariant.                                     *)
LEMMA DiskInvStep == DiskInv /\ [Next]_vars => DiskInv'
<1> SUFFICES ASSUME DiskInv, [Next]_vars
             PROVE  DiskInv'
  OBVIOUS
<1>1. CASE UpdateSources \/ Begin \/ InitDone \/ \E h \in Harnesses : Configure(h)
  BY <1>1, EarlyKeeps
<1>2. CASE Kill \/ Abort \/ NothingFound \/ Smatcher \/ Finished
  BY <1>2, EndKeeps, LateKeeps
<1>3. CASE Triage \/ TriageFails
  BY <1>3, LateKeeps
<1>4. CASE Discover
  BY <1>4, DiscoverKeeps
<1>5. CASE NextPhase
  BY <1>5, NextPhaseKeeps
<1>6. ASSUME NEW w \in Workdirs, BuildStep(w) \/ FuzzStep(w) \/ TraceStep(w)
      PROVE  DiskInv'
  BY <1>6, BuildKeeps, FuzzKeeps, TraceKeeps
<1>7. CASE UNCHANGED vars
  BY <1>7, StutterKeeps
<1>8. QED
  BY <1>1, <1>2, <1>3, <1>4, <1>5, <1>6, <1>7 DEF Next, BuildStep, FuzzStep, TraceStep

(* What is on disk, and what the tasks at work have done to it, is related *)
(* as DiskInv says in every state of every sequence of runs.               *)
THEOREM DiskInvAlways == Spec => []DiskInv
BY InitDiskInv, DiskInvStep, PTL DEF Spec

-----------------------------------------------------------------------------
(* The properties.                                                         *)

(* A harness is scheduled with its kernel configuration and its sharedir,  *)
(* and with the options of kafl.yaml unless init_harness.py stopped        *)
(* between opening that file and writing to it (pipeline.py:380,           *)
(* init_harness.py:250-251, 385-387).                                      *)
THEOREM SpecScheduledConfigured == Spec => []ScheduledConfigured
<1>1. DiskInv => ScheduledConfigured
  <2> SUFFICES ASSUME DiskInv, NEW w \in Entries, NEW i \in DOMAIN ConfigOrder
               PROVE  Has(Owner(w), ConfigOrder[i]) \/ (ConfigOrder[i] = "options" /\ emptied)
    BY DEF ScheduledConfigured
  <2>1. w \in Workdirs /\ job[w] # "none" /\ phase # "init"
    BY DEF DiskInv, Stages, Entries
  <2>2. /\ config[Owner(w)] \in {4, 5} /\ Owner(w) \in Harnesses /\ TypeOK
        /\ config[Owner(w)] = 4 => emptied
    BY <2>1, Basics DEF DiskInv, Configured, Options
  <2>3. QED
    BY <2>2, HasAll
<1>2. QED
  BY <1>1, DiskInvAlways, PTL

(* With --rebuild, every file that is fuzzed is of the current revision,   *)
(* however the builds of a harness overlap (pipeline.py:91, 108-110).      *)
THEOREM SpecRebuildFresh == Spec => []RebuildFresh
<1>1. DiskInv => RebuildFresh
  BY DEF DiskInv, Built, RebuildFresh
<1>2. QED
  BY <1>1, DiskInvAlways, PTL

(* What is fuzzed is complete and of one revision unless a build of the    *)
(* harness was stopped or failed in its copies, and of one build unless    *)
(* two of the harness copied at the same time (pipeline.py:62-66, 91-94,   *)
(* 108-110).                                                               *)
THEOREM SpecTargetWhole == Spec => []TargetWhole
<1>1. DiskInv => TargetWhole
  <2> SUFFICES ASSUME DiskInv, phase \in {"fuzz", "trace"}, NEW w \in Entries, Owner(w) \notin broken
               PROVE  /\ Whole(target[Owner(w)])
                      /\ Owner(w) \notin raced =>
                            \E b \in Builds : \A f \in 1 .. Files : by[Owner(w)][f] = {b}
    BY DEF TargetWhole
  <2>1. Whole(target[Owner(w)])
    BY DEF DiskInv, Built
  <2>2. Owner(w) \in Harnesses /\ 1 \in 1 .. Files /\ NoKernel[1] = 0 /\ 0 \notin 1 .. MaxRev
    BY Basics DEF Entries
  <2>3. target[Owner(w)] # NoKernel
    BY <2>1, <2>2 DEF Whole
  <2>4. AtWork(Owner(w)) = {}
    BY <2>2, Idle DEF DiskInv
  <2>5. QED
    BY <2>1, <2>2, <2>3, <2>4 DEF DiskInv, Hands, Single
<1>2. QED
  BY <1>1, DiskInvAlways, PTL

(* A workdir is traced with the kernel it was fuzzed with (fuzz.sh:128).   *)
THEOREM SpecTraceMatchesFuzz == Spec => []TraceMatchesFuzz
<1>1. DiskInv => TraceMatchesFuzz
  BY DEF DiskInv, Stored, StoredIn, TraceMatchesFuzz
<1>2. QED
  BY <1>1, DiskInvAlways, PTL

(* A run that ends with success has results and lists for each entry       *)
(* (pipeline.py:121-124, 288-289).                                         *)
THEOREM SpecSuccessHonest == Spec => []SuccessHonest
<1>1. DiskInv => SuccessHonest
  BY DEF DiskInv, Ended, Stored, StoredIn, SuccessHonest, Entries
<1>2. QED
  BY <1>1, DiskInvAlways, PTL

(* Unless kAFL was stopped at some time, no workdir makes the triage fail, *)
(* and it shows every entry fuzzed (pipeline.py:186-196, stats.py:220-243).*)
THEOREM SpecTriageReports == Spec => []TriageReports
<1>1. DiskInv => TriageReports
  <2> SUFFICES ASSUME DiskInv, triage # "no", ~cut
               PROVE  /\ triage # "crashed"
                      /\ env => \A w \in Entries : state[w] = "stats"
    BY DEF TriageReports
  <2>1. phase = "trace" /\ \A w \in Workdirs : job[w] # "run"
    BY DEF DiskInv, Stages
  <2>2. \A w \in Workdirs : state[w] \in {"absent", "empty", "stats"}
    BY <2>1 DEF DiskInv, NothingCut
  <2>3. QED
    BY <2>1, <2>2 DEF DiskInv, Triaged, HasResults, Results, Entries
<1>2. QED
  BY <1>1, DiskInvAlways, PTL

(* No step of a later run takes the results of a workdir away, or the      *)
(* kernel stored with them (pipeline.py:121-124, fuzz.sh:153).             *)
THEOREM SpecResultsKept == Spec => ResultsKept
<1>1. ASSUME DiskInv, [Next]_vars, NEW w \in Workdirs, state[w] \in Results
      PROVE  state'[w] \in Results /\ copy'[w] = copy[w] /\ ran'[w] = ran[w]
  <2>1. CASE UNCHANGED <<state, copy, ran>>
    BY <1>1, <2>1
  <2>2. ASSUME NEW v \in Workdirs, BuildStep(v) \/ TraceStep(v)
        PROVE  UNCHANGED <<state, copy, ran>>
    BY <2>2 DEF BuildStep, TraceStep, Skip, Compile, OpenCopy, CloseCopy, BuildFails, Trace, Smatch,
                TraceFails, folder
  <2>3. ASSUME NEW v \in Workdirs, FuzzStep(v)
        PROVE  state'[w] \in Results /\ copy'[w] = copy[w] /\ ran'[w] = ran[w]
    <3>1. CASE v # w
      BY <1>1, <2>3, <3>1, FuzzOthers
    <3>2. CASE v = w
      <4>1. FuzzingIn(w) /\ state \in [Workdirs -> States] /\ job \in [Workdirs -> Jobs]
        BY <1>1 DEF DiskInv, Fuzzing, TypeOK
      <4>2. UNCHANGED folder \/ Report(w)
        BY <1>1, <2>3, <3>2, <4>1 DEF FuzzStep, SkipFuzz, Hollow, Wipe, Store, Boot, FuzzEnds,
                                      FuzzFails, Task, Fuzzed, FuzzingIn, Results
      <4>3. QED
        BY <1>1, <4>1, <4>2 DEF Report, folder, Results
    <3>3. QED
      BY <3>1, <3>2
  <2>4. CASE Discover
    <3>1. UNCHANGED <<copy, ran>> /\ (state'[w] = state[w] \/ state[w] = "absent")
      BY <1>1, <2>4, DiscoverFrame
    <3>2. QED
      BY <1>1, <3>1 DEF Results
  <2>5. CASE \/ UpdateSources \/ Begin \/ InitDone \/ Kill \/ Abort \/ NothingFound \/ Smatcher
             \/ Finished \/ Triage \/ TriageFails \/ NextPhase \/ \E h \in Harnesses : Configure(h)
    BY <2>1, <2>5 DEF UpdateSources, Begin, InitDone, Kill, Abort, NothingFound, Smatcher, Finished,
                      Triage, TriageFails, NextPhase, Configure, folder
  <2>6. CASE UNCHANGED vars
    BY <2>1, <2>6 DEF vars, folder
  <2>7. QED
    BY <1>1, <2>1, <2>2, <2>3, <2>4, <2>5, <2>6 DEF Next, BuildStep, FuzzStep, TraceStep
<1>2. DiskInv /\ [Next]_vars =>
        [\A w \in Workdirs : state[w] \in Results => /\ state'[w] \in Results
                                                     /\ copy'[w] = copy[w]
                                                     /\ ran'[w] = ran[w]]_vars
  BY <1>1
<1>3. QED
  BY <1>2, DiskInvAlways, PTL DEF Spec, ResultsKept
=============================================================================
