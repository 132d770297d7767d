# TLA+ models of ccc-linux-guest-hardening

This directory holds models of the fuzzing and audit workflow of this repository: the campaign
pipeline, the launcher script, the tools that decode coverage, and the scripts around the smatch
audit. The models are translated from the sources below `src/` (`bkc/kafl`, `bkc/coverage`,
`bkc/audit`); documentation is used only to state what a program claims. TLC checks small instances;
TLAPS proves the safety properties of every component for all values of the constants.

## 1. The system

### 1.1 Components

| component | state | operations | talks to |
|---|---|---|---|
| campaign orchestrator, `kafl/pipeline.py` `run_campaign` | task futures, free pipes (CPU sets), queue of fuzz jobs, list of running ones | submit and collect builds, dispatch and poll fuzz jobs, traces, smatch jobs, triage, smatcher | parsl's thread pool; `fuzz.sh`, `stats.py`, `summarize.sh`, `smatcher` as child processes |
| campaign sizing, `pipeline.py` `parse_args`, `main` | `args` | pipes, workers and threads from `--ncpu`, `--workers` and the harnesses found | orchestrator |
| task functions and campaign folder, `pipeline.py` `task_*` | `<harness>/target`, `<harness>/workdir_*`, `<harness>/build_*` | build and copy, fuzz, trace; skip what exists | `fuzz.sh`, later runs of the pipeline |
| harness generator, `kafl/init_harness.py` | `linux.template`, `linux.config`, `sharedir`, `kafl.yaml` of a harness | write these, in this order | the discovery of harnesses |
| launcher, `kafl/fuzz.sh` | workdir (`corpus`, `target/`, `traces/`) | `run`, `full`, `single`, `debug`, `triage`, `noise`, `cov`, `smatch`, `build`, `audit` | kAFL, make, the decoders |
| decoding, `fuzz.sh smatch`, `gen_addr2line.sh`, `smatch_match.py` | lists below `traces/` | dump, decode, match; skip what exists | Ghidra, eu-addr2line |
| `coverage/fast_matcher` | work queue, set of address ranges | read traces in threads, union, report | traces of `cov` |
| `coverage/smatcher` | coverage database of the user | match, load, merge, save, summarise | audit lists, lists of lines |
| audit, `audit/smatch_audit.sh`, `process_smatch_output.py`, `transfer_results.py` | `.config` of the kernel tree, what builds leave in it, reports | swap `.config`, build with smatch, filter, transfer earlier reviews | make, smatch; the tree is that of `fuzz.sh build` |
| crash summary, `kafl/summarize.sh` | decoded logs beside the logs, a list of decode jobs, the summary | classify logs, tell issues apart, decode samples in background jobs, render | logs of the fuzzer, `decode_stacktrace.sh` |
| `kafl/stats.py` | none that persists; log and html files | reads every workdir with results below the campaign folder | campaign folder |
| `coverage/stimulus_minimizer` | folders of dumps, of full and of short stacks, `callers.lst` | unpack, count stacks, coverage of dumps with a new stack; skip what is unpacked | gcovr, tar |
| `Makefile`, `kafl/userspace/gen_*.sh`, `deploy/` | assets | prepare a workspace | - |

### 1.2 What is hard about it

- *Concurrency*: pool threads and the main thread of the pipeline; builds of one harness that copy
  into one folder; builds that clean one kernel tree, beside the user and an audit; matcher threads
  around a queue and a lock; smatcher processes around one file.
- *Interruption*: `set -e`, ctrl-c and kills between any two steps; files that merely exist are
  trusted later.
- *Failure*: exceptions of tasks are noticed late; `fatal` of `fuzz.sh` reports success; panics of
  matcher threads are ignored, but what made them panic may end the program as well; exit statuses of
  decoders are not looked at.
- *Order*: lists mutated while iterated, first-match searches, results whose place in the report
  matters.
- *Names*: two tools normalise the paths of source files, each in its own way, and compare the results.
- *Arithmetic*: the division of CPUs.

`PROJECT.json` lists each hazard at its line, with the properties that cover it.

### 1.3 What makes each component correct

- Orchestrator: running jobs never share CPUs; no pipe is lost; stages are ordered; no failure is
  hidden; every campaign ends.
- Sizing: CPU ranges below `--ncpu`, builds within budget, no pipe wasted.
- Disk: a harness that runs has its configuration, though its `kafl.yaml` may be empty if the
  initialisation stopped between opening and writing it. A kernel that is fuzzed is complete and of one
  revision unless a build was stopped or failed while it copied, and one build's unless two builds copied
  at the same time. Results are kept; traces are taken with the kernel that was fuzzed; a run that ends
  with success has results and coverage of every workdir; the statistics read all of them unless kAFL was
  ever stopped.
- Launcher: a workdir's corpus and kernel belong together.
- Decoding: a `smatch` that has ended leaves smatcher a whole list of the current traces, unless it went on
  from a file that it does not make again, old or cut short, or eu-addr2line failed, or smatcher reads one
  list only and an older one comes first.
- Matcher: the report is the union of the traces that were read. The program ends, and with a report if
  vmlinux parses and has lines for what is covered.
- Database: coverage grows, and the sign of each function in the summary is true of the workdirs.
- Names: a covered line meets the line of the audit list exactly if they are of the same file, for names of
  letters, digits, `_` and `.` in paths that do not begin with a dotted name.
- Summary: every log is listed once under its issue; a decoded log that is linked is whole unless its decoder
  failed, an earlier run left it cut, or the jobs of an interrupted run are still writing it.
- Audit: no result with an id is lost on its way to the reviewer. It keeps its own review unless an earlier
  entry that speaks for it too decides: excluded code of the function, or the paravirtualised form of the read.
  The user's `.config` survives, in the tree or in /tmp, all but the removal by a build; what is delivered is
  of the configuration that was asked for, or of the default one after such a removal.
- Kernel tree: concurrent builds do not make each other fail.
- Minimizer: the counts are right; coverage is missing only of short stacks of a dump that was not finished,
  or for whose dump gcovr or coveralls2addr failed.

## 2. Modules

| module | models | state and actions in the code |
|---|---|---|
| `Pipeline` | `run_campaign` and the pool | `pc` is the loop the main thread is in; `todo`, `tasks`, `scan`, `pipes` its local variables; `future` the state of parsl's futures; `pool` the executor's queue. `DispatchFuzz` is one turn of the loop at 252-260, `PollTask` one turn of 263-266 with the removal from the iterated list, `Collect` one `t.result()` |
| `CpuLease` | abstract: jobs lease slots | refined by `Pipeline` (`Lease`) |
| `CampaignSizing` | `parse_args` and lines 392-415 | one action per branch |
| `CampaignDisk` | the campaign folder over many runs | per workdir `state` (`corpus` and which statistics files), `copy` (`<workdir>/target`), `lists` of covered lines, per harness `target`, files copied one after the other, opened and closed apart, `config` the files of a harness with `kafl.yaml` opened and written apart; the histories `by` (whose bytes a file may hold), `raced`, `broken`, `emptied` and `cut` name what properties except; `Hollow` is a `fatal` that exits with 0, `Triage` is `stats.py`, `Smatcher` the last task |
| `Launcher` | `fuzz.sh run` by hand | `built` and `stored` are the kernels of target and workdirs, `cmd` the next step of `run`; `StopInClear` is a kill inside `rm -rf` |
| `TraceDecode` | `fuzz.sh cov/smatch`, `gen_addr2line.sh`, smatcher's choice of a list | each list is known by the traces it is from, whether it is of all code locations, and whether it is whole; `Scanned` are those that smatcher reads, all of them with `--combine-cov-files`, which the pipeline passes, or the first |
| `Workdir` | the life of a workdir: composes `Launcher` and `TraceDecode` | one command at a time; `Remove` is the `rm -rf` of `run`, which takes the traces and lists with it; `Cov` and `Smatch` take their kernel and workdir from `set_workdir` |
| `FastMatcher` | `start()` of fast_matcher | `queue`, `stage` of each thread, `writer` of the RwLock, `db`; `parses` and `lined` are what `vmlinux` is like, `Begin` its parse in each thread, `Crash` the panic of the main thread |
| `CoverageUnion` | abstract: the union of traces | refined by `FastMatcher` (`Union`) |
| `TraceReader` | `TraceFileIter`, `read_trace_file_get_ranges` | one action per kind of line |
| `PathNames` | `get_addr_lineinfo_range`, `strip_prefix` and `normalize` of fast_matcher; `strip_addr2line_absolute_path.sh`; `parse_smatch_file`, `parse_line_coverage_file` of smatcher | pure: `strip_prefix` takes the folder of the build off, `Push` is one turn of the loops of `normalize`, `Stacks` what is left after each turn, `StripSource` is the `sed` of the script, `Found` what the regular expression matches, `Strip` the `strip('./')`, which takes characters; `dir` is the folder of the build, `shown` the spelling of the debug info, `item` that of the audit list |
| `SmatcherDb` | `start()` of smatcher | each step that touches the database file is an action; `list` and `hit` are the audit list and the covered lines of each workdir, `Sign`, `OpenConcerns`, `OpenSafe` the summary |
| `CoverageStore` | abstract: coverage that only grows | what `SmatcherDb` (`Store`) implements step by step until a race or a kill |
| `Summary` | `summarize.sh` over several runs | `tag2msg`, `tag2log`, `class2tag` are the script's arrays, `Places` the turns of the loops over them, `logid` the key each log has in `unique_logs`, whose entries the shell takes in any order; `jobs` are the background shells of each run, `txt` the files they write; `Interrupt` ends the script but not its jobs |
| `AuditFilter` | `process_smatch_output.py` | one action per outcome of a turn of the loop |
| `AuditTransfer` | `transfer_results.py` | the nested search, one entry per step; `InText` is the substring test `in`, `of` in the output a history of the result it was written for |
| `AuditLists` | the way of a report into the audit list: composes `AuditFilter` and `AuditTransfer` | the file the filter wrote is the input of the transfer |
| `SmatchAudit` | `smatch_audit.sh` | one action per command that changes a file (`Redirect` is a `>` that empties the file before it is filled); `config` and `dirty` are what it shares with builds |
| `SharedTree` | the kernel tree under audits, edits and concurrent `fuzz.sh build`: extends `SmatchAudit` | `build` is the next `make` of each build; `Mrproper` cleans the tree, `MakeApart` is `make O=`, which refuses an unclean one |
| `Minimizer` | `minimize_stimulus.sh` over several runs | `unpacked`, `seen`, `callers`, `report` are folders and files, `todo`, `dump`, `pos`, `new` the script's variables; `Cover` has no failure branch, as the script has none: a list may be `"failed"` |
| `PipelineProofs` | proofs | about `Pipeline` and `CampaignSizing` |
| `DiskProofs`, `WorkdirProofs`, `SmatcherProofs`, `SummaryProofs`, `MinimizerProofs` | proofs | about `CampaignDisk`, `Workdir`, `SmatcherDb`, `Summary`, `Minimizer` |
| `FastMatcherProofs` | proofs | about `FastMatcher`, `TraceReader` and `PathNames` |
| `AuditProofs` | proofs | about `AuditLists` and `SharedTree` |
| `MC*` | instances for TLC | constants, symmetry |

The components meet only through files and exit codes. `Workdir`, `AuditLists` and `SharedTree` compose
those that read each other's files; the others rely on what is checked of their neighbours:
`CampaignDisk` takes from `Pipeline` that phases are separated by the collection of all their tasks
(which `StagesOrdered` checks there) and drops the limit of the pool, so that it allows more
interleavings than the pool does; `FastMatcher` takes a trace as its set of addresses, which
`TraceReader` computes.

Operators marked "Seeded fault" are variants of the definition after them, of the kind a plausible
bug would produce. No specification uses them; each is there so that one can put it in place of the
definition and see the property that guards it fail. `PROJECT.json` pairs them with properties.

## 3. Runs

Passing runs (`tlc -config X.cfg M`), and what they show:

| cfg, module | bounds | shows |
|---|---|---|
| `Campaign`, `Pipeline` | 3 entries, 2 pipes of 2 CPUs, any task may fail, ctrl-c at any time | the lease is safe and implements `CpuLease` with its liveness; pool and stages in order; outcomes honest; every campaign ends |
| `Sizing`, `CampaignSizing` | ncpu up to 20, workers up to 7, up to 5 harnesses | budgets and maximality, including fewer CPUs than workers and fewer harnesses than pipes |
| `Disk`, `CampaignDisk` | 1 harness, 2 workdirs, 2 files, 2 kernel revisions, 4 runs | an initialisation that is cut short, also between opening and writing `kafl.yaml`, two builds that overlap in one target, a kill in each phase, a rebuild after fuzzing, a refuzz, runs with an incomplete environment, statistics written in part; none makes a run that ends with success a lie |
| `Matcher`, `MCFastMatcher` | 3 threads, 3 overlapping traces; a vmlinux that parses or not, with or without a line for one address | panics of some and of all threads before and after they pull, contention for the lock, a main thread that panics |
| `Reader`, `MCTraceReader` | files of up to 4 lines over 3 addresses and the token; all pairs of paths of up to 3 names and "..", from the root or not, over 5 names of which one has a `-` and one begins with a dot; 2 folders of the build, one of them that of the sources | chains of tokens, tokens at the end, short and garbage lines anywhere; what fast_matcher prints leads to the file of the debug info; of plain names, two spellings meet exactly if they are of one file |
| `AuditLists`, `MCAuditLists` | reports of up to 3 results, lists of up to 2 entries, 4 of both | duplicates with and without the leading newline; reads of one MSR under two ids; results without id; all statuses, in any order; entries whose text holds that of a result of another path |
| `Audit`, `SharedTree` | 2 audits, 2 versions of `.config`, 2 builds | audits stopped anywhere, then another on what they left; builds that clean the tree between any two steps of these, and under each other |
| `Workdir`, `Workdir` | 2 workdirs, 2 builds, 2 traces of one of them | folders of all three kinds, reruns, stops between any two steps and inside `rm -rf`, decodings with all options on what earlier ones left, read by smatcher with the lists combined and not |
| `SmatcherShared`, `MCSmatcherDb` | 2 processes, 2 workdirs given to either, 2 places of one function, 2 classes | overlap and kills; lists that class one place differently; signs and open concerns of the summary; coverage is lost only by a write that did not merge the last one, or by a kill in the write |
| `Minimizer`, `MCMinimizer` | 2 dumps of up to 3 stacks of 3, two with one short stack, 3 runs | runs stopped anywhere, damaged dumps, gcovr that fails, dumps that arrive between two runs, short stacks that two dumps share |
| `Summary`, `MCSummary` | 3 logs of 3 contents, 2 tags, 2 jobs in each of 2 runs | issues that share a tag, entries that share an id, a log without kernel that takes a sample's place, jobs of an interrupted run beside the next one, decoders that fail, logs that arrive meanwhile |

Two processes, entries or files suffice for the races looked for, which are between two writers or
between a writer and a later reader; three jobs on two pipes are the least with which a pipe is used
twice and the sweep passes a removed job. All histories of these sizes are explored; counters
(`MaxRuns`, `MaxRev`, `MaxAudits`, `MaxEdits`, `MaxTraces`) only bound how many there are. Between two
commands `Launcher` forgets the arguments of the last one, which no later one reads.

`CHECK_DEADLOCK FALSE` is set where the program ends and no `Ended` action says so.

### 3.1 Disagreements between the code and what is said of it

This run checks one statement of a README, and TLC refutes it:

| cfg, module | statement | what happens |
|---|---|---|
| `Spelling`, `MCTraceReader` | "The script prints out which smatch targets have been covered" (`smatcher/README.md:7`) | the expression `[\w./]+:[0-9]+` (`__init__.py:78`) has no `-`: of `mm/backing-dev.c:114` only `dev.c:114` is read, and the target counts as not covered |

`SpellingsAgree`, which the run `Reader` checks and `SpellingAgreement` proves for paths of any length, says that of
plain names and paths that do not begin with a dotted one nothing else makes it miss a target of the kernel, or take
one file for another. A first name that begins with a dot loses it to `strip('./')` (63, 69, 80): `.x/f` is taken for
`x/f`.

Further disagreements were met while modelling and have no run of their own:

- "Filters out excluded subsystems" (`process_smatch_output.py:87`): not for the first result of a report, which no
  newline precedes (`FilterExact` in `AuditFilter` says what holds instead).
- "the target files are copied to `<workdir>/target`" (`fuzz.sh:68`): `run <workdir>` deletes them first, as its
  kernel is that of the workdir (`Launcher`).
- `smatch_audit.sh` defines `SMATCH_LOGS` (70) and writes to `$SMATCH_LOG` (47, 56): the log of the build is not
  kept where the variable says.
- `fuzz.sh build` first runs `make mrproper` in the user's tree (344), which removes the user's `.config`, also while
  an audit has it swapped out (`wiped` in `SharedTree`); an audit that is building then is of the default
  configuration (`DeliveredAsked` names the case).
- "Load DB, so we merge the coverage" (`smatcher/__init__.py:184`): lost when two processes save at the same
  time, the case `LossOnlyByRace` leaves open.
- "a mapping of unique identifiers to logs" (`summarize.sh:6`): the identifiers are five digits of a
  checksum, and two issues with one of them are listed as one, even of different classes; the second
  disjunct of `SummaryExact` is what is left.
- `--threads` is overwritten in every branch of the sizing (`pipeline.py:396-404`), and `type=bool` makes
  `--use-ghidra 0` true (345-348).
- "Filter out PT_TOKEN edges" (`lib.rs:197`): a file that ends within a pair of token edges yields the token
  as an address (206-211; `NoEdge` in `TraceReader`).
- "Transfer previous audit results" (`transfer_results.py:145`): an excluded entry of the same function, if it
  comes first, decides instead of the entry that is the result itself; results without an id, such as the
  spectre warnings the filter takes care to keep, are dropped (61-62).
- `debug <target>` after a rebuild combines the new kernel with the snapshot of the old one, against
  `workflow_overview.md:101-103`; the workdir itself as argument is consistent (`StoredIsFuzzed`).
- A `<target>` needs `.config` besides the three files the usage names (`fuzz.sh:65`, 165).
- `.config` is not restored when a step of the audit fails (`smatch_audit.sh:97-99`); a copy survives in /tmp
  (`ConfigNotLost`).
- "`fuzz.sh smatch` with `USE_GHIDRA=1`, uses Ghidra and `eu-addr2line` to generate the full set"
  (`workflow_overview.md:117`): not where an earlier `smatch` left a list of lines, which is not made again
  (`gen_addr2line.sh:57`), so that it stays that of the ends of edges, or of older traces (`Reused` in `TraceDecode`).
- "For any output with not yet seen backtrace, compute gcov + smatch match" (`minimize_stimulus.sh:15`): a run that is
  stopped leaves the folder of its dump, which the next one passes over (75), and its stacks are known from then on;
  what it was the first to show is never computed (`cut` in `Minimizer`). Neither is it where gcovr or coveralls2addr
  failed, which nothing notices (147-161; `Cover`).
- A `smatch` with `USE_FAST_MATCHER=0` does not change what `smatcher` reports where an older one left `linecov.lst`,
  which `smatcher` prefers (`__init__.py:48`), unless it is told to combine the lists; then it reads all there are,
  old ones too (144; `Scanned` in `TraceDecode`).

Nothing in the repository promises otherwise of these: the summary links a decoded log that a job of an
interrupted run is still writing (`SamplesWhole` names the case), and one whose decoder failed is never
decoded again; a smatcher process killed between opening and
dumping the database loses what it held (`LossOnlyByRace` names the case); a pipeline run stopped while
it copies a kernel leaves a target that the next run accepts (`broken` in `CampaignDisk`; lines 20-21 of
`pipeline.py` admit it); two builds of one harness that copy at the same time may leave files of both, or one
file with bytes of both (`raced` there); an initialisation stopped between opening and writing `kafl.yaml`
leaves a harness that is scheduled without its options (`emptied` there); a `run` killed inside `rm -rf` may
leave traces without a corpus, which the next `run` does not remove and `smatch` may decode with the new kernel
(`partial` in `Workdir`); a kAFL that is stopped between its statistics files leaves a workdir on which every
later triage fails (`cut` in `CampaignDisk`).

## 4. Fairness

- `Pipeline`: weak fairness of the main thread, of the pool's start of queued tasks, and of the end
  of each running task. The main thread never blocks but in `result()` and `sleep`; parsl's executor
  starts a queued task when a thread is idle; every task is a child process that ends: make and the
  decoders do, and fuzzing has an `abort_time` in every generated `kafl.yaml`
  (`init_harness.py:72`).
- `CpuLease`: weak fairness of the end of each job, implied by the above.
- `FastMatcher`: each thread and the main thread are scheduled (`Work` of each, `Report \/ Crash`). Weak fairness
  suffices for the lock because the queue only shrinks.

The other modules state safety only: users and kills decide what happens next there.

## 5. Proofs

Constants are arbitrary but for the assumptions named in the modules that declare them, which TLC evaluates on the
runs: positive bounds (`MaxRuns`, `MaxRev`, `MaxTraces`, ...) and numbers of entries, pipes and workers, finite sets
of traces, threads, processes and harnesses, and sets that are not empty where the code picks a member
(`PipelineAssumption`, `SizingAssumption`, `DiskAssumption`, `MatcherAssumption`, `ReaderAssumption`,
`PathAssumption`, `LauncherAssumption`, `WorkdirAssumption`, `SmatcherAssumption`, `AuditAssumption`,
`FilterAssumption`, `ListsAssumption`, `SummaryAssumption`, `MinimizerAssumption`). Beside bounds, `ListsAssumption`
says which fields a warning has, `MinimizerAssumption` that no short stack is also a full one (a short stack ends
before the line of the full one does), `SummaryAssumption` that there are finitely many logs,
`PathAssumption` that the folders of the sources and of the build are not the root. Each proof has the
same frame: an inductive invariant, that the initial states have it, one lemma for each group of actions that
preserves it, and a theorem for each property that follows (`PathNames` has no steps, and its property is about
operators). TLC checked every such invariant on the instances of section 3 before it was proved.

- `PipelineProofs`. `CpuExclusive` is not inductive: that jobs have distinct pipes depends on the pipes being
  removed from and put back to the set by the main thread, long after the job has ended. The invariant `LeaseInv`
  adds that during the phases that schedule the list of uncollected jobs and the set of free pipes partition the
  pipes and that a job outside the list is over (`Holding`), that a job in the queue has not been submitted
  (`QueueFresh`), and that occupied pipes are distinct also after these phases (`Distinct`). From it:
  `TypeCorrectness`, `PipeConservation`, `CpuExclusion` (with the arithmetic lemma that CPU ranges of distinct pipes
  are disjoint) and `LeaseRefinement`, where each action maps to `Begin`, `End` or a stutter. `StageInv` extends it
  for the order of the stages: each task of a phase is still to be submitted, in flight or done (`Accounted`), what
  is still to be submitted is idle (`TodoFresh`), the pool holds what is queued (`PoolQueued`), and a failure that
  was met is still there (`FailureKept`). With these, a phase that begins has all tasks of the earlier ones done:
  `StageOrder` and `HonestOutcome`. `ThreadForEveryPipe` counts: what runs while a fuzz job waits are other fuzz
  jobs, each on a pipe of its own.
- `PipelineProofs`, about `CampaignSizing`. `SizingInv` relates pipes, workers and CPUs after the split; the budget
  follows with facts on `\div` for all values. `Filled` adds that the split leaves no room for a further pipe, which
  the later cap by the number of harnesses keeps: `MaximalPipes`.
- `DiskProofs`. The files of a run are read by later runs, so that `DiskInv` is about the folder at all times: what a
  workdir holds (`Stored`: kernel copied, kernel run and kernel traced are one), what the task at work has done so
  far (`Fuzzing`, `Stages`), what a harness that is scheduled lacks (`Configured`, `Options`), how far builds are
  (`Positions`), and what their target holds meanwhile. `RebuildFresh` needs `FilesFresh`: a file that one build has
  copied may be torn only while another build of the same harness writes it, and that build, or its failure, keeps
  the next phase from beginning. `TargetWhole` needs `Targets`: unless a build of the harness was stopped or failed
  in a copy, a target that no build has touched in this run is of one revision; and `Hands`: until two builds of it
  copied at the same time there is at most one at work (`AtWork`), the files it came to are its own, and those of a
  target at rest are of one build (`Single`; `Started` numbers it). `HasResults`, `Ended`, `NothingCut` and `Triaged`
  carry what is known from one phase to the next. `ResultsKept` is an action property: each step keeps results and
  kernel, as a task that fuzzes is past its check of the folder (`Fuzzing`).
- `FastMatcherProofs`. `MatcherInv` relates stages, locks and the histories: what is in the database is the union of
  the counted traces and of what threads have inserted so far of the one they hold (`Database`), the lock has one
  holder (`Locked`), and threads that returned did so on an empty queue (`Drained`). From it `Partition`,
  `ReportExactness` and `UnionRefinement`, where a crash is a stutter of the union.
- `WorkdirProofs`. For `Launcher` alone, and for its composition with the decoding. `Prepared` says what a `run` has
  done at each of its steps: past the removal the workdir has no results, past the copy it has the kernel that is
  launched. `ProperLists` and `Decoded` say which lists there may be and what the decoding under way may rely on: a
  list is of traces that exist, and what the decoding under way goes on from is a whole one of the current traces
  unless it is `spoiled`; `Complete` says what there is when it has ended. `NoneLeft` says that the traces went
  with the corpus, which makes `ListsMatchKernel` inductive: a workdir that gets another kernel has no list.
- `SmatcherProofs`. `Justified` bounds the database and what processes hold by what the workdirs reach, and says
  that a process past its matching holds all that its own reach; signs follow. `InTurn` is the protocol that the
  processes keep to until a race: one of them writes at a time, the file is torn while it does, and one that is
  about to truncate the file it merged holds all that is in it. From it `LossOnlyByRace`: every step but a race
  merges into the `CoverageStore` or stutters.
- `AuditProofs`, about `SharedTree`. `ConfigNotLost` has to hold at every step of an audit, also if the previous
  audit was stopped at any other: `BackedUp` and `Restoring` say where the user's `.config` is at each step. `Asked`
  and `Reported` carry the configuration and the number of the audit to what it delivers (`DeliveredAsked`). For
  `BuildsApart`, `TreeClean` says that a build at work that nobody intruded on finds the tree as its `mrproper` left
  it: other builds only clean it once more.
- `AuditProofs`, about `AuditLists`. For reports and lists of any length. A result may be dropped as a duplicate
  only if its text was recorded; `Recording` says that every recorded text is of a result that was written or is of
  an excluded place, and `Writing` that what was written is in order, relevant and without repetitions. `LookedUp`
  says that each result the transfer has passed is in the new list, if it has an id; with `FilterExact` this makes
  `AuditComplete`. For `ReviewsKept`, `Searched` says that no entry the search has passed speaks for the result at
  hand, so that the entry that decides is the first that does; what was written is `Settled` from then on.
- `FastMatcherProofs`, about `TraceReader`. The loop carries all that `TraceRead` says of the sequence from one line
  to the next, so that no induction over the sequence is needed: `CoveredSoFar` says that the ranges are what the
  edges read so far cover, but for what the held half still adds, `PrevIsLast` that the last destination is that of
  the last edge, or the token while a half is held, and `HeldIsHalf` that a half is held exactly after a line that
  ends in the token, which a panic relies on. `ReadInOrder` says that no line is skipped before one that is cut
  short.
- `FastMatcherProofs`, about `PathNames`. Paths may have any number of names and `MaxPath` is any number: nothing is
  a bound here. `Stacks` and `Walk` are functions on the numbers of names; `ComputedExists` builds such a function up
  from its first value, once and for all (the steps are a function, as no theorem with an operator as its parameter
  could be used), and `StepByStep` is the induction over the numbers of names, as a statement about sets.
  `StacksLead` says that after each name what is left on the stack leads to where the names read so far lead, from
  any folder. `LeadsConcat` and `NamesLead` carry it over to a path that is joined to the folder of the build, and to
  one that this folder is taken off (`StrippedKeepsFile`), and `RootedStacks` says that a path from the root comes to
  the names of its file, so that the script finds the folder of the sources at its front exactly if the file is in
  it. For a path that stays in its folder `InsideStacks` adds that a ".." always finds a name to remove, so that only
  names are left. Hence what smatcher strips is what `normalize` would have dropped (`ListedNormal`), the regular
  expression matches all of a plain path (`PlainMatched`), and two spellings meet exactly if the names of their files
  are the same (`RecognisedSame`).
- `SummaryProofs`. `SummaryExact` is of a finished run, and relies on the scan that filled the arrays: `Arrays` says
  that no tag and no log is listed twice, that a log is below its own tag, and that a tag is below the class of the
  issue that came first with it; `Treated`, that each log of the run is still to be scanned or listed; `Shown`
  carries `SummaryExact` through the rendering. For `SamplesWhole`, `Queues` and `Writers` say who may write a
  decoded log: each order is in the list, in the part not handed out, or with one job, of the run or of an
  interrupted one, and a file that is being written has its one writer. `Awaited` says that a log of the run with a
  kernel has a decoded file, an order, or `MAX_SAMPLES` others of the run that share its entry: when the samples are
  chosen, those that come before it are counted, which is why the logs have to be finite. The wait for the jobs then
  makes all of the run's own files end (`Linked`). `JobsDisjoint` follows from `Queues`, which needs that the list
  is emptied at the start of each run: what `get_best_stackdump` appended is never handed to a job.
- `MinimizerProofs`. `CountedSoFar` says that `callers.lst` has, of each dump that is over, how many of its stacks
  have each folder (at most that, if its run was stopped), and of the dump at hand those before `pos`; it is what
  makes the counts of a full stack and of its short one independent. `ShortsSeen` and `ShortsChosen` say that each
  short stack passed has a folder and is in a dump that was computed, well or not, is to be, or was cut; `PastChosen` that
  for dumps that are over it is another one than the dump at hand, so that a run can leave that one.

Only model-checked, and why:

- liveness (`Termination`, and that of the lease in `LeaseImplemented`): out of the prover's reach.
  `LeaseRefinement` is of its safety part (`LeaseSafe`);
- `Reports` of `FastMatcher`: liveness.

## 6. Abstractions

- A kernel is the revision it was built from, per copied file; contents of lists, results and
  traces are members of small sets.
- A task that returns at once because its outputs exist is, in `Pipeline`, a task that finishes.
- kAFL, parsl, make, smatch, Ghidra and eu-addr2line are external: they succeed or fail, and in
  `CampaignDisk` kAFL writes its stats files some time after it starts and exits with success only
  when they exist.
- `CampaignSizing` takes the options as positive numbers; argparse lets zero pass, and the program
  then ends with a traceback.
- In `Summary` a log is the set of markers the script greps for, the text of an issue is the marker and a
  value that stands for the rest, and checksums are an arbitrary function fixed at the start (tags) or in
  each run (ids). Background jobs of a script ignore the interrupt of the terminal. Pids are unique.
- The checks of its files that fast_matcher makes before its threads begin are left out.
- DWARF resolution in fast_matcher is the constant relation `SameFunc`.
- The kernel's makefiles are external: `make O=` refuses a tree with `.config` or `include/config`,
  `olddefconfig` makes a default `.config` where there is none.
- In `PathNames` a name is a model value with the rest that the regular expression leaves of it; symbolic links
  are not followed by either tool. The folder of the sources is taken as normalized, as the compiler writes it; that
  the `sed` finds it inside of a path, a vmlinux without `DW_AT_comp_dir` and the line numbers are left out.
- In `Minimizer` a stack is a model value with its short form; the links that repeat the counts are left out. A `"failed"`
  list stands for an empty one and for one that lacks what gcovr did not come to.
- `smatch_match_rust.lst`, which smatcher looks for, is written by nothing in the repository. When it combines lists,
  the last line of one that was cut short may be read as another place; this is left out.
- In `SmatcherDb` the bytes of two processes that write at once may make a file that cannot be read.

Not modelled, and why:

- the trace parser of `smatch_match.py` and some functions of fast_matcher's `lib.rs`: nothing calls them any
  more; what `main()` of `smatch_match.py` does is in `TraceDecode`;
- the option tables of `init_harness.py`: data that kbuild, the guest and kAFL interpret;
- the aggregation in `stats.py` and the text and csv of `summarize.sh`: formatting of files kAFL writes;
- the preparation of the workspace, the guest's user space and the deployment recipes: no state of their own
  that outlives a step and that another part of the repository reads;
- the corpus of syzkaller and the patches: data.

## 7. Plan

Written, in the order of importance: `Pipeline` with `CpuLease`, `CampaignSizing`, `CampaignDisk`, `FastMatcher` with
`CoverageUnion`, `TraceReader`, `AuditFilter`, `AuditTransfer` and `AuditLists`, `SmatchAudit` and `SharedTree`,
`Launcher`, `TraceDecode` and `Workdir`, `SmatcherDb` with `CoverageStore`, `Summary`, `Minimizer`, `PathNames`, and the
proofs about each of them.

To come: `Prepare`, make targets and the generators of shared folders and images, if their outputs come to be read by
another part.
