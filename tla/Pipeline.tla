------------------------------ MODULE Pipeline ------------------------------
(***************************************************************************)
(* The campaign orchestrator of bkc/kafl/pipeline.py: run_campaign() is    *)
(* the main thread, the parsl thread pool runs the tasks it submits.       *)
(*                                                                         *)
(* The main thread goes through the phases                                 *)
(*    build -> fuzz <-> poll -> drain -> trace -> smatcher -> done         *)
(* and leaves them for "aborted" when it collects the exception of a task, *)
(* for "interrupted" on ctrl-c.  In every phase it first submits the tasks *)
(* of `todo' and then collects those of `tasks'.  Fuzz jobs are special:   *)
(* each one leases a pipe, i.e. a range of Workers CPUs, and the main      *)
(* thread starts another job only on a pipe a collected job gave back.     *)
(*                                                                         *)
(* A task that finds its outputs in place and returns at once (a skipped   *)
(* build, a skipped fuzz job) is a task that finishes; what such a skip    *)
(* trusts is the subject of CampaignDisk.                                  *)
(***************************************************************************)
EXTENDS Integers, Sequences, FiniteSets, SequencesExt

CONSTANTS
    N,        \* number of entries (workdirs) in `pipeline'
    Pipes,    \* args.pipes: fuzz jobs at a time, and threads of the pool
    Workers,  \* args.workers: CPUs of one fuzz job
    MayFail   \* the kinds of task that may raise in this instance

Kinds == {"build", "fuzz", "trace", "smatch", "triage", "smatcher"}

ASSUME PipelineAssumption ==
    /\ N \in Nat \ {0}
    /\ Pipes \in Nat \ {0}
    /\ Workers \in Nat \ {0}
    /\ MayFail \subseteq Kinds

Entries == 1 .. N

\* Entry 0 stands for the campaign itself: the tasks that exist once.
Tasks == ({"build", "fuzz", "trace", "smatch"} \X Entries)
            \cup ({"triage", "smatcher"} \X {0})

Build(e)  == <<"build", e>>
Fuzz(e)   == <<"fuzz", e>>
Trace(e)  == <<"trace", e>>
Smatch(e) == <<"smatch", e>>
Triage    == <<"triage", 0>>
Smatcher  == <<"smatcher", 0>>

AllPipes == 0 .. Pipes - 1

\* max_threads of the pool.  (Seeded fault: one thread kept for the main loop.)
ThreadsShort == Pipes - 1
Threads == Pipes

\* --cpu-offset workers*pipe_id -p workers: the CPUs of pipe p.
\* (Seeded fault: the offset is the pipe itself.)
CpusUnscaled(p) == p .. p + Workers - 1
Cpus(p) == Workers * p .. Workers * p + Workers - 1

Phases  == {"build", "fuzz", "poll", "drain", "trace", "smatcher"}
Stopped == {"done", "aborted", "interrupted"}

\* What the main thread can observe of a task, and where the pool has it:
\* "waiting" on the future it depends on, "queued" for a thread, ...
Futures == {"none", "waiting", "queued", "running", "done", "failed"}
Over    == {"done", "failed"}

VARIABLES
    pc,      \* phase of the main thread
    todo,    \* tasks the phase has yet to submit (fuzz_queue when fuzzing)
    tasks,   \* futures the phase has yet to collect (build_tasks, fuzz_tasks, ...)
    scan,    \* position of `for t in fuzz_tasks' while polling
    pipes,   \* pipes the main thread may hand out
    pipeOf,  \* pipe_id argument of each fuzz job
    future,  \* state of every task
    pool     \* tasks waiting for a thread of the pool, in order

vars == <<pc, todo, tasks, scan, pipes, pipeOf, future, pool>>

-----------------------------------------------------------------------------
(* The tasks of each phase, in the order the loops submit them.            *)

BuildTodo == [e \in Entries |-> Build(e)]
FuzzTodo  == [e \in Entries |-> Fuzz(e)]

\* For every entry its trace job and the smatch job that waits for it, then
\* the triage job, which waits for nothing.  (Seeded fault: one pair too many.)
TraceTodoOffByOne ==
    [i \in 1 .. 2 * N + 2 |-> IF i % 2 = 1 THEN Trace((i + 1) \div 2) ELSE Smatch(i \div 2)]
TraceTodo ==
    [i \in 1 .. 2 * N + 1 |->
        IF i = 2 * N + 1 THEN Triage
        ELSE IF i % 2 = 1 THEN Trace((i + 1) \div 2) ELSE Smatch(i \div 2)]

Init ==
    /\ pc = "build"
    /\ todo = BuildTodo
    /\ tasks = <<>>
    /\ scan = 1
    /\ pipes = AllPipes
    /\ pipeOf = [e \in Entries |-> 0]
    /\ future = [t \in Tasks |-> "none"]
    /\ pool = <<>>

-----------------------------------------------------------------------------
(* The main thread.                                                        *)

\* parsl hands a task to the pool once the futures among its arguments are
\* done, and fails it without running it when one of them failed.
\* (Seeded fault: wait_task is not passed.)
LaunchAtOnce(t) ==
    /\ future' = [future EXCEPT ![t] = "queued"]
    /\ pool' = Append(pool, t)
Launch(t) ==
    LET state == IF t[1] # "smatch" THEN "queued"
                 ELSE CASE future[Trace(t[2])] = "done"   -> "queued"
                        [] future[Trace(t[2])] = "failed" -> "failed"
                        [] OTHER                          -> "waiting"
    IN  /\ future' = [future EXCEPT ![t] = state]
        /\ pool' = IF state = "queued" THEN Append(pool, t) ELSE pool

\* One iteration of the loops that only submit: builds, traces, the smatcher.
Submit ==
    /\ pc \in {"build", "trace", "smatcher"}
    /\ todo # <<>>
    /\ Launch(Head(todo))
    /\ todo' = Tail(todo)
    /\ tasks' = Append(tasks, Head(todo))
    /\ UNCHANGED <<pc, scan, pipes, pipeOf>>

\* pipes.pop(), fuzz_queue.pop() and fuzz_tasks.remove(t).
\* (Seeded faults: each reads the element and leaves it where it is.)
TakePeek(p) == pipes
Take(p) == pipes \ {p}
Popped == Front(todo)
DroppedNot(i) == tasks
Dropped(i) == RemoveAt(tasks, i)

\* pipes.add(t.result()), and where result() leaves the main thread: it goes
\* on with the value of the task or is ended by its exception.
\* (Seeded faults: the pipe is not put back; the exception is caught and dropped.)
GivenLost(t) == pipes
Given(t) == IF future[t] = "done" THEN pipes \cup {pipeOf[t[2]]} ELSE pipes
AfterResultSwallowed(t) == pc
AfterResult(t) == IF future[t] = "done" THEN pc ELSE "aborted"

\* while pipes and fuzz_queue: start the last job of the queue on a free pipe.
DispatchFuzz ==
    /\ pc = "fuzz"
    /\ todo # <<>>
    /\ \E p \in pipes :
        /\ pipes' = Take(p)
        /\ pipeOf' = [pipeOf EXCEPT ![Last(todo)[2]] = p]
    /\ Launch(Last(todo))
    /\ todo' = Popped
    /\ tasks' = Append(tasks, Last(todo))
    /\ UNCHANGED <<pc, scan>>

\* while not pipes: sleep, then look at every fuzz job.
StartPoll ==
    /\ pc \in {"fuzz", "poll"}
    /\ pipes = {}
    /\ pc = "poll" => scan > Len(tasks)
    /\ pc' = "poll"
    /\ scan' = 1
    /\ UNCHANGED <<todo, tasks, pipes, pipeOf, future, pool>>

\* One iteration of `for t in fuzz_tasks'.  A finished job is removed from the
\* list being iterated, so the iterator skips the job that followed it.  The
\* result gives the pipe back, or raises the exception of the job.
PollTask ==
    /\ pc = "poll"
    /\ scan \in 1 .. Len(tasks)
    /\ scan' = scan + 1
    /\ LET t == tasks[scan]
       IN  IF future[t] \in Over
           THEN tasks' = Dropped(scan) /\ pipes' = Given(t) /\ pc' = AfterResult(t)
           ELSE UNCHANGED <<tasks, pipes, pc>>
    /\ UNCHANGED <<todo, pipeOf, future, pool>>

\* The sweep is over and found a pipe: back to `while fuzz_queue'.
EndPoll ==
    /\ pc = "poll"
    /\ scan > Len(tasks)
    /\ pipes # {}
    /\ pc' = "fuzz"
    /\ UNCHANGED <<todo, tasks, scan, pipes, pipeOf, future, pool>>

\* The queue is empty and a pipe is free: wait for the remaining fuzz jobs.
EndDispatch ==
    /\ pc = "fuzz"
    /\ todo = <<>>
    /\ pipes # {}
    /\ pc' = "drain"
    /\ UNCHANGED <<todo, tasks, scan, pipes, pipeOf, future, pool>>

\* One iteration of [t.result() for t in ...]: blocks until the task is over.
Collect ==
    /\ pc \in {"build", "drain", "trace", "smatcher"}
    /\ todo = <<>>
    /\ tasks # <<>>
    /\ future[Head(tasks)] \in Over
    /\ tasks' = Tail(tasks)
    /\ pc' = AfterResult(Head(tasks))
    /\ UNCHANGED <<todo, scan, pipes, pipeOf, future, pool>>

\* Everything submitted has been collected: the next phase begins.
NextPhase ==
    /\ todo = <<>>
    /\ tasks = <<>>
    /\ \/ pc = "build"    /\ pc' = "fuzz"     /\ todo' = FuzzTodo
       \/ pc = "drain"    /\ pc' = "trace"    /\ todo' = TraceTodo
       \/ pc = "trace"    /\ pc' = "smatcher" /\ todo' = <<Smatcher>>
       \/ pc = "smatcher" /\ pc' = "done"     /\ todo' = <<>>
    /\ UNCHANGED <<tasks, scan, pipes, pipeOf, future, pool>>

\* KeyboardInterrupt ends main(); the pool still runs what was submitted.
Interrupt ==
    /\ pc \in Phases
    /\ pc' = "interrupted"
    /\ UNCHANGED <<todo, tasks, scan, pipes, pipeOf, future, pool>>

-----------------------------------------------------------------------------
(* The pool: parsl's ThreadPoolExecutor(max_threads = args.pipes).         *)

Running == {t \in Tasks : future[t] = "running"}

\* A free thread takes the task at the head of the queue.
Start ==
    /\ pool # <<>>
    /\ Cardinality(Running) < Threads
    /\ future' = [future EXCEPT ![Head(pool)] = "running"]
    /\ pool' = Tail(pool)
    /\ UNCHANGED <<pc, todo, tasks, scan, pipes, pipeOf>>

\* The task returns, and the smatch job that waited for a trace is queued; ...
Finish(t) ==
    /\ future[t] = "running"
    /\ LET next == Smatch(t[2])
           wakes == t[1] = "trace" /\ future[next] = "waiting"
       IN  /\ future' = [u \in Tasks |->
                            IF u = t THEN "done"
                            ELSE IF wakes /\ u = next THEN "queued" ELSE future[u]]
           /\ pool' = IF wakes THEN Append(pool, next) ELSE pool
    /\ UNCHANGED <<pc, todo, tasks, scan, pipes, pipeOf>>

\* ... or it raises, and the smatch job fails with it, without having run.
Fail(t) ==
    /\ t[1] \in MayFail
    /\ future[t] = "running"
    /\ future' = [u \in Tasks |->
                    IF \/ u = t
                       \/ t[1] = "trace" /\ u = Smatch(t[2]) /\ future[u] = "waiting"
                    THEN "failed" ELSE future[u]]
    /\ UNCHANGED <<pc, todo, tasks, scan, pipes, pipeOf, pool>>

\* The program has ended: nothing is left to run.
Ended ==
    /\ pc \in Stopped
    /\ pool = <<>> /\ Running = {}
    /\ UNCHANGED vars

-----------------------------------------------------------------------------
Main ==
    \/ Submit \/ DispatchFuzz \/ StartPoll \/ PollTask \/ EndPoll
    \/ EndDispatch \/ Collect \/ NextPhase

Next ==
    \/ Main
    \/ Interrupt
    \/ Start
    \/ \E t \in Tasks : Finish(t) \/ Fail(t)
    \/ Ended

Spec == Init /\ [][Next]_vars

\* The main thread is scheduled, an idle thread of the pool takes work, and
\* every job ends: kAFL, make, smatch and the decoders all terminate.
Fairness ==
    /\ WF_vars(Main)
    /\ WF_vars(Start)
    /\ \A t \in Tasks : WF_vars(Finish(t) \/ Fail(t))

FairSpec == Spec /\ Fairness

-----------------------------------------------------------------------------
(* Properties.                                                             *)

Occupied(e) == future[Fuzz(e)] \in {"queued", "running"}

TypeOK ==
    /\ pc \in Phases \cup Stopped
    /\ todo \in Seq(Tasks) /\ tasks \in Seq(Tasks) /\ pool \in Seq(Tasks)
    /\ scan \in Nat
    /\ pipes \subseteq AllPipes
    /\ pipeOf \in [Entries -> AllPipes]
    /\ future \in [Tasks -> Futures]

\* Two fuzz jobs that occupy their pipes never share a CPU, whatever the order
\* in which jobs end and are noticed, and also while the pool drains after an
\* abort (pipeline.py:246-266, --cpu-offset at 132).
CpuExclusive ==
    \A e, f \in Entries :
        e # f /\ Occupied(e) /\ Occupied(f) => Cpus(pipeOf[e]) \cap Cpus(pipeOf[f]) = {}

\* While the loop schedules, a pipe is either free or held by exactly one job
\* not collected yet: removing from the list being iterated loses no pipe and
\* frees none twice (pipeline.py:264-266).
PipesConserved ==
    LET held == {pipeOf[t[2]] : t \in ToSet(tasks)}
    IN  pc \in {"fuzz", "poll"} =>
            /\ held = AllPipes \ pipes
            /\ \A i, j \in DOMAIN tasks :
                  i # j => pipeOf[tasks[i][2]] # pipeOf[tasks[j][2]]

\* A fuzz job that was given its CPUs never waits for a thread: no job of an
\* earlier phase or of an abandoned pipe still occupies one, so the pool
\* being sized by args.pipes is enough (pipeline.py:407-414).
FuzzHasThread ==
    LET queued == {e \in Entries : future[Fuzz(e)] = "queued"}
    IN  queued # {} => Cardinality(Running) + Cardinality(queued) <= Threads

\* No task starts before what it reads is complete: a fuzz job before every
\* build, a trace or the triage before every fuzz job, a smatch job before its
\* own trace, the campaign report before everything (pipeline.py:244-289).
StagesOrdered ==
    LET done(k)    == \A e \in Entries : future[<<k, e>>] = "done"
        started(t) == future[t] \in {"queued", "running", "done"}
    IN  /\ (\E e \in Entries : started(Fuzz(e))) => done("build")
        /\ (started(Triage) \/ \E e \in Entries : started(Trace(e))) => done("fuzz")
        /\ \A e \in Entries : started(Smatch(e)) => future[Trace(e)] = "done"
        /\ started(Smatcher) => done("trace") /\ done("smatch") /\ future[Triage] = "done"

\* No failure is lost and none is invented: a campaign that runs to its end
\* has completed every task, one that aborts has a failed task, although a
\* failed fuzz job can go unnoticed while others are dispatched and skipped
\* positions of the sweep are left for a later one (pipeline.py:261-269).
OutcomeHonest ==
    /\ pc = "done" => \A t \in Tasks : future[t] = "done"
    /\ pc = "aborted" => \E t \in Tasks : future[t] = "failed"

\* Every campaign comes to an end with an idle pool, although smatch jobs wait
\* for other tasks of the same pool and the main thread for all of them.
Termination == <>[](pc \in Stopped /\ pool = <<>> /\ Running = {})

\* The scheduling loop implements the lease of CPUs.
Lease == INSTANCE CpuLease WITH
    Jobs <- Entries, Slots <- AllPipes, slot <- pipeOf,
    stage <- [e \in Entries |-> IF Occupied(e) THEN "busy"
                                ELSE IF future[Fuzz(e)] \in Over THEN "over" ELSE "idle"]

\* Every step of the orchestrator is a step of the lease or leaves it alone:
\* a job begins only on a pipe no busy job holds (pipeline.py:251-266), and
\* every job begun ends.
LeaseImplemented == Lease!LeaseFairSpec
LeaseSafe == Lease!LeaseSpec
=============================================================================
