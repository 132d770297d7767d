--------------------------- MODULE PipelineProofs ---------------------------
(***************************************************************************)
(* Proofs about Pipeline, for every number of entries, pipes and workers   *)
(* and every choice of the tasks that may fail, and about CampaignSizing,  *)
(* which says how many pipes and workers there are.                        *)
(***************************************************************************)
EXTENDS Pipeline, CampaignSizing, SequenceTheorems, FiniteSetTheorems, TLAPS

(* Removing one position of a list keeps the others, in their order: what  *)
(* fuzz_tasks.remove(t) does while the list is iterated.                   *)
LEMMA RemoveAtFacts ==
    ASSUME NEW S, NEW s \in Seq(S), NEW i \in 1 .. Len(s)
    PROVE  /\ RemoveAt(s, i) \in Seq(S)
           /\ Len(RemoveAt(s, i)) = Len(s) - 1
           /\ \A j \in 1 .. Len(s) - 1 :
                RemoveAt(s, i)[j] = IF j < i THEN s[j] ELSE s[j + 1]
<1> DEFINE front == SubSeq(s, 1, i - 1)
           back  == SubSeq(s, i + 1, Len(s))
<1>0. i \in Nat /\ Len(s) \in Nat /\ 1 <= i /\ i <= Len(s)
  BY LenProperties
<1>1. /\ front \in Seq(S) /\ Len(front) = i - 1
      /\ \A j \in 1 .. i - 1 : front[j] = s[j]
  BY <1>0, SubSeqProperties
<1>2. /\ back \in Seq(S) /\ Len(back) = Len(s) - i
      /\ \A j \in 1 .. Len(s) - i : back[j] = s[i + j]
  BY <1>0, SubSeqProperties
<1>3. RemoveAt(s, i) = front \o back
  BY DEF RemoveAt
<1> HIDE DEF front, back
<1>4. /\ front \o back \in Seq(S)
      /\ Len(front \o back) = Len(front) + Len(back)
      /\ \A j \in 1 .. Len(front) + Len(back) :
            (front \o back)[j] = IF j <= Len(front) THEN front[j] ELSE back[j - Len(front)]
  BY <1>1, <1>2, ConcatProperties
<1>5. ASSUME NEW j \in 1 .. Len(s) - 1
      PROVE  RemoveAt(s, i)[j] = IF j < i THEN s[j] ELSE s[j + 1]
  <2>1. CASE j < i
    BY <1>0, <1>1, <1>2, <1>3, <1>4, <2>1
  <2>2. CASE ~(j < i)
    <3>1. j - (i - 1) \in 1 .. Len(s) - i /\ ~(j <= Len(front)) /\ j - Len(front) = j - (i - 1)
      BY <1>0, <1>1, <2>2
    <3>2. RemoveAt(s, i)[j] = back[j - (i - 1)]
      BY <1>0, <1>1, <1>2, <1>3, <1>4, <3>1
    <3>3. back[j - (i - 1)] = s[i + (j - (i - 1))]
      BY <1>2, <3>1
    <3>4. i + (j - (i - 1)) = j + 1
      BY <1>0
    <3>5. QED
      BY <3>2, <3>3, <3>4, <2>2
  <2>3. QED
    BY <2>1, <2>2
<1>6. QED
  BY <1>0, <1>1, <1>2, <1>3, <1>4, <1>5

(* Front drops the last element: fuzz_queue.pop().                         *)
LEMMA FrontFacts ==
    ASSUME NEW S, NEW s \in Seq(S), s # <<>>
    PROVE  /\ Front(s) \in Seq(S)
           /\ Len(Front(s)) = Len(s) - 1
           /\ \A i \in 1 .. Len(s) - 1 : Front(s)[i] = s[i]
<1>1. Len(s) \in Nat \ {0}
  BY EmptySeq
<1>2. \A i \in 1 .. Len(s) - 1 : s[i] \in S
  BY <1>1, ElementOfSeq
<1>3. Front(s) = SubSeq(s, 1, Len(s) - 1)
  BY DEF Front
<1>4. Len(Front(s)) = IF 1 <= Len(s) - 1 THEN Len(s) - 1 - 1 + 1 ELSE 0
  BY <1>1, <1>2, <1>3, SubSeqProperties
<1>5. \A i \in 1 .. Len(s) - 1 - 1 + 1 : Front(s)[i] = s[1 + i - 1]
  BY <1>1, <1>2, <1>3, SubSeqProperties
<1>6. Front(s) \in Seq(S)
  BY <1>1, <1>2, <1>3, SubSeqProperties
<1>7. Len(s) - 1 - 1 + 1 = Len(s) - 1 /\ \A i \in 1 .. Len(s) - 1 : 1 + i - 1 = i
  BY <1>1
<1>8. ASSUME NEW i \in 1 .. Len(s) - 1 PROVE Front(s)[i] = s[i]
  <2>1. Front(s)[i] = s[1 + i - 1]
    BY <1>5, <1>7
  <2>2. 1 + i - 1 = i
    BY <1>7
  <2>3. QED
    BY <2>1, <2>2
<1>9. Len(Front(s)) = Len(s) - 1
  <2> DEFINE n == Len(s)
             m == Len(Front(s))
  <2>1. n \in Nat \ {0} /\ m = IF 1 <= n - 1 THEN n - 1 - 1 + 1 ELSE 0
    BY <1>1, <1>4
  <2> HIDE DEF n, m
  <2>2. m = n - 1
    BY <2>1
  <2>3. QED
    BY <2>2 DEF n, m
<1>10. QED
  BY <1>6, <1>8, <1>9

-----------------------------------------------------------------------------
(* The inductive invariant.  CpuExclusive alone is not inductive: a pipe   *)
(* that is given back could still be occupied.  It is not, because while   *)
(* the loop schedules, the uncollected jobs hold pairwise different pipes, *)
(* none of them free (Holding), every job that occupies a pipe is among    *)
(* them (Holding), a job not dispatched yet was never submitted            *)
(* (QueueFresh), and the pool starts no fuzz job twice (PoolFresh).        *)

Scheduling == pc \in {"fuzz", "poll"}

BuildsFirst ==
    pc = "build" =>
        /\ pipes = AllPipes
        /\ \A e \in Entries : future[Fuzz(e)] = "none"
        /\ \A i \in 1 .. Len(todo) : todo[i][1] # "fuzz"

FuzzLast == pc \in {"trace", "smatcher"} => \A i \in 1 .. Len(todo) : todo[i][1] # "fuzz"

QueueFresh ==
    Scheduling =>
        /\ Len(todo) <= N
        /\ \A i \in 1 .. Len(todo) : todo[i] = Fuzz(i) /\ future[Fuzz(i)] = "none"

PoolFresh ==
    \A i \in 1 .. Len(pool) : pool[i][1] = "fuzz" =>
        /\ future[pool[i]] = "queued"
        /\ \A j \in 1 .. Len(pool) : j # i => pool[j] # pool[i]

FuzzJobsOnly ==
    Scheduling => \A i \in 1 .. Len(tasks) :
                     tasks[i][1] = "fuzz" /\ future[tasks[i]] # "none"

PipeAt(i) == pipeOf[tasks[i][2]]

Holding ==
    Scheduling =>
        /\ \A i \in 1 .. Len(tasks) : PipeAt(i) \notin pipes
        /\ \A i, j \in 1 .. Len(tasks) : i # j => PipeAt(i) # PipeAt(j)
        /\ \A p \in AllPipes \ pipes : \E i \in 1 .. Len(tasks) : PipeAt(i) = p
        /\ \A e \in Entries : Occupied(e) => \E i \in 1 .. Len(tasks) : tasks[i] = Fuzz(e)

Distinct ==
    \A e, f \in Entries :
        e # f /\ Occupied(e) /\ Occupied(f) => pipeOf[e] # pipeOf[f]

LeaseInv ==
    /\ TypeOK /\ BuildsFirst /\ FuzzLast /\ QueueFresh /\ PoolFresh
    /\ FuzzJobsOnly /\ Holding /\ Distinct

-----------------------------------------------------------------------------
(* Type correctness.                                                       *)

(* The tasks of the phases are tasks, and tell their kind and entry.       *)
LEMMA TaskFacts ==
    /\ \A e \in Entries : /\ Build(e) \in Tasks /\ Fuzz(e) \in Tasks
                          /\ Trace(e) \in Tasks /\ Smatch(e) \in Tasks
    /\ Triage \in Tasks /\ Smatcher \in Tasks
    /\ \A t \in Tasks : /\ t = <<t[1], t[2]>>
                        /\ t[1] \in {"build", "fuzz", "trace", "smatch"} => t[2] \in Entries
                        /\ t[1] \in Kinds
                        /\ t[1] = "fuzz" => t = Fuzz(t[2])
BY DEF Tasks, Build, Fuzz, Trace, Smatch, Triage, Smatcher, Kinds

(* What the loops of each phase submit are sequences of tasks.             *)
LEMMA TodoTypes ==
    /\ BuildTodo \in Seq(Tasks) /\ FuzzTodo \in Seq(Tasks)
    /\ TraceTodo \in Seq(Tasks) /\ <<Smatcher>> \in Seq(Tasks)
<1>1. N \in Nat /\ N >= 1
  BY PipelineAssumption
<1>2. BuildTodo \in Seq(Tasks) /\ FuzzTodo \in Seq(Tasks)
  <2>1. BuildTodo \in [1 .. N -> Tasks] /\ FuzzTodo \in [1 .. N -> Tasks]
    BY TaskFacts DEF BuildTodo, FuzzTodo, Entries
  <2>2. QED
    BY <1>1, <2>1, SeqDef
<1>3. TraceTodo \in Seq(Tasks)
  <2>1. ASSUME NEW i \in 1 .. 2 * N + 1
        PROVE  TraceTodo[i] \in Tasks
    <3>1. CASE i = 2 * N + 1
      BY <3>1, TaskFacts DEF TraceTodo
    <3>2. CASE i # 2 * N + 1 /\ i % 2 = 1
      <4>1. (i + 1) \div 2 \in Entries
        BY <1>1, <3>2 DEF Entries
      <4>2. QED
        BY <3>2, <4>1, TaskFacts DEF TraceTodo
    <3>3. CASE i # 2 * N + 1 /\ i % 2 # 1
      <4>1. i \div 2 \in Entries
        BY <1>1, <3>3 DEF Entries
      <4>2. QED
        BY <3>3, <4>1, TaskFacts DEF TraceTodo
    <3>4. QED
      BY <3>1, <3>2, <3>3
  <2>2. TraceTodo \in [1 .. 2 * N + 1 -> Tasks]
    BY <2>1 DEF TraceTodo
  <2>3. QED
    BY <1>1, <2>2, SeqDef
<1>4. QED
  BY <1>2, <1>3, TaskFacts

(* run_campaign() starts with values of the right type.                    *)
LEMMA InitTypeOK == Init => TypeOK
<1>1. AllPipes # {} /\ 0 \in AllPipes
  BY PipelineAssumption DEF AllPipes
<1>2. QED
  BY <1>1, TodoTypes DEF Init, TypeOK, Phases, Futures

(* Submitting a task keeps the futures and the pool of the right type.     *)
LEMMA LaunchTypeOK ==
    ASSUME TypeOK, NEW t \in Tasks, Launch(t)
    PROVE  /\ future' \in [Tasks -> Futures]
           /\ pool' \in Seq(Tasks)
BY AppendProperties DEF TypeOK, Launch, Futures

(* Every step keeps the types; a pipe is taken back from fuzz jobs only.   *)
LEMMA NextTypeOK == TypeOK /\ FuzzJobsOnly /\ [Next]_vars => TypeOK'
<1> SUFFICES ASSUME TypeOK, FuzzJobsOnly, [Next]_vars
             PROVE  TypeOK'
  OBVIOUS
<1>1. CASE Submit
  <2>1. Head(todo) \in Tasks /\ Tail(todo) \in Seq(Tasks)
    BY <1>1, HeadTailProperties DEF Submit, TypeOK
  <2>2. QED
    BY <1>1, <2>1, LaunchTypeOK, AppendProperties DEF Submit, TypeOK
<1>2. CASE DispatchFuzz
  <2>1. Len(todo) \in Nat \ {0}
    BY <1>2, EmptySeq DEF DispatchFuzz, TypeOK
  <2>2. Last(todo) \in Tasks
    BY <2>1, ElementOfSeq DEF TypeOK, Last
  <2>3. Front(todo) \in Seq(Tasks)
    BY <2>1, ElementOfSeq, SubSeqProperties DEF TypeOK, Front
  <2>4. pipeOf' \in [Entries -> AllPipes] /\ pipes' \subseteq AllPipes
    BY <1>2 DEF DispatchFuzz, TypeOK, Take
  <2>5. QED
    BY <1>2, <2>2, <2>3, <2>4, LaunchTypeOK, AppendProperties
    DEF DispatchFuzz, TypeOK, Popped
<1>3. CASE StartPoll
  BY <1>3 DEF StartPoll, TypeOK, Phases
<1>4. CASE PollTask
  <2>1. scan \in 1 .. Len(tasks) /\ tasks[scan] \in Tasks
    BY <1>4, ElementOfSeq DEF PollTask, TypeOK
  <2>2. RemoveAt(tasks, scan) \in Seq(Tasks)
    BY <2>1, RemoveAtFacts DEF TypeOK
  <2>3. future[tasks[scan]] = "done" => pipes \cup {pipeOf[tasks[scan][2]]} \subseteq AllPipes
    <3>1. tasks[scan][1] = "fuzz"
      BY <1>4, <2>1, LenProperties DEF PollTask, FuzzJobsOnly, Scheduling, TypeOK
    <3>2. QED
      BY <2>1, <3>1, TaskFacts DEF TypeOK
  <2>4. QED
    BY <1>4, <2>1, <2>2, <2>3 DEF PollTask, TypeOK, Dropped, Given, AfterResult, Phases, Stopped
<1>5. CASE EndPoll
  BY <1>5 DEF EndPoll, TypeOK, Phases
<1>6. CASE EndDispatch
  BY <1>6 DEF EndDispatch, TypeOK, Phases
<1>7. CASE Collect
  BY <1>7, HeadTailProperties DEF Collect, TypeOK, AfterResult, Phases, Stopped
<1>8. CASE NextPhase
  BY <1>8, TodoTypes DEF NextPhase, TypeOK, Phases, Stopped
<1>9. CASE Interrupt
  BY <1>9 DEF Interrupt, TypeOK, Phases, Stopped
<1>10. CASE Start
  BY <1>10, HeadTailProperties DEF Start, TypeOK, Futures
<1>11. ASSUME NEW t \in Tasks, Finish(t)
       PROVE  TypeOK'
  <2>1. t[1] = "trace" => Smatch(t[2]) \in Tasks
    BY TaskFacts
  <2>2. QED
    BY <1>11, <2>1, AppendProperties DEF Finish, TypeOK, Futures
<1>12. ASSUME NEW t \in Tasks, Fail(t)
       PROVE  TypeOK'
  BY <1>12 DEF Fail, TypeOK, Futures
<1>13. CASE Ended \/ UNCHANGED vars
  BY <1>13 DEF Ended, vars, TypeOK
<1>14. QED
  BY <1>1, <1>2, <1>3, <1>4, <1>5, <1>6, <1>7, <1>8, <1>9, <1>10, <1>11, <1>12, <1>13
  DEF Next, Main

-----------------------------------------------------------------------------
(* The invariant holds initially and is kept by every step.                *)

(* The inductive invariant holds before the builds are submitted.          *)
LEMMA InitLeaseInv == Init => LeaseInv
<1> SUFFICES ASSUME Init
             PROVE  LeaseInv
  OBVIOUS
<1>1. TypeOK
  BY InitTypeOK
<1>2. \A i \in 1 .. Len(todo) : todo[i][1] = "build"
  BY PipelineAssumption DEF Init, BuildTodo, Build, Entries
<1>3. \A e \in Entries : future[Fuzz(e)] = "none"
  BY TaskFacts DEF Init
<1>4. QED
  BY <1>1, <1>2, <1>3
  DEF LeaseInv, Init, BuildsFirst, FuzzLast, QueueFresh, PoolFresh, FuzzJobsOnly,
      Holding, Distinct, Scheduling, Occupied

(* Outside the scheduling loop no fuzz job is submitted.                   *)
LEMMA SubmitKeeps == LeaseInv /\ Submit => LeaseInv'
<1> SUFFICES ASSUME LeaseInv, Submit
             PROVE  LeaseInv'
  OBVIOUS
<1> DEFINE t == Head(todo)
<1>0. TypeOK'
  BY NextTypeOK DEF LeaseInv, Next, Main
<1>1. /\ t \in Tasks /\ t = todo[1] /\ 1 \in 1 .. Len(todo)
      /\ Len(Tail(todo)) = Len(todo) - 1
      /\ \A i \in 1 .. Len(Tail(todo)) : Tail(todo)[i] = todo[i + 1] /\ i + 1 \in 1 .. Len(todo)
  <2>1. todo \in Seq(Tasks) /\ todo # <<>> /\ Len(todo) \in Nat \ {0}
    BY EmptySeq DEF LeaseInv, TypeOK, Submit
  <2>2. Head(todo) = todo[1]
    BY <2>1
  <2>3. QED
    BY <2>1, <2>2, HeadTailProperties
<1>2. t[1] # "fuzz" /\ ~Scheduling /\ ~Scheduling'
  BY <1>1 DEF LeaseInv, BuildsFirst, FuzzLast, Submit, Scheduling
<1>3. \A u \in Tasks : u # t => future'[u] = future[u]
  BY DEF LeaseInv, TypeOK, Submit, Launch
<1>4. \A e \in Entries : future'[Fuzz(e)] = future[Fuzz(e)]
  BY <1>2, <1>3, TaskFacts DEF Fuzz
<1>5. \/ pool' = pool
      \/ /\ Len(pool') = Len(pool) + 1 /\ pool'[Len(pool) + 1] = t
         /\ \A i \in 1 .. Len(pool) : pool'[i] = pool[i]
  BY <1>1, AppendProperties DEF LeaseInv, TypeOK, Submit, Launch
<1>6. PoolFresh'
  <2>1. Len(pool) \in Nat /\ \A i \in 1 .. Len(pool) : pool[i] \in Tasks
    BY LenProperties, ElementOfSeq DEF LeaseInv, TypeOK
  <2>2. \A i \in 1 .. Len(pool') : pool'[i][1] = "fuzz" => i \in 1 .. Len(pool) /\ pool'[i] = pool[i]
    BY <1>2, <1>5, <2>1
  <2>3. QED
    BY <1>2, <1>3, <1>5, <2>1, <2>2 DEF LeaseInv, PoolFresh
<1>7. BuildsFirst'
  BY <1>1, <1>4 DEF LeaseInv, BuildsFirst, Submit
<1>8. FuzzLast'
  BY <1>1 DEF LeaseInv, FuzzLast, Submit
<1>9. Distinct'
  BY <1>4 DEF LeaseInv, Distinct, Occupied, Submit
<1>10. QED
  BY <1>0, <1>2, <1>6, <1>7, <1>8, <1>9 DEF LeaseInv, QueueFresh, FuzzJobsOnly, Holding

(* A job is dispatched: its pipe was free, so no job in the list holds it, *)
(* and no job outside the list occupies one.                               *)
LEMMA DispatchKeeps == LeaseInv /\ DispatchFuzz => LeaseInv'
<1> SUFFICES ASSUME LeaseInv, DispatchFuzz
             PROVE  LeaseInv'
  OBVIOUS
<1> DEFINE n == Len(todo)
           k == Len(tasks)
           t == Last(todo)
<1>0. TypeOK /\ TypeOK' /\ Scheduling /\ Scheduling' /\ pc = "fuzz" /\ pc' = "fuzz"
  BY NextTypeOK DEF LeaseInv, Next, Main, Scheduling, DispatchFuzz
<1>1. n \in Nat \ {0} /\ n \in 1 .. n /\ k \in Nat /\ N \in Nat
  BY <1>0, EmptySeq, LenProperties, PipelineAssumption DEF TypeOK, DispatchFuzz
<1>2. t = Fuzz(n) /\ n \in Entries /\ future[t] = "none" /\ t \in Tasks /\ t[2] = n /\ t[1] = "fuzz"
  <2>1. t = Fuzz(n) /\ future[t] = "none" /\ n <= N
    BY <1>0, <1>1 DEF LeaseInv, QueueFresh, Last
  <2>2. QED
    BY <1>1, <2>1, TaskFacts DEF Entries, Fuzz
<1>3. PICK p \in pipes : pipes' = pipes \ {p} /\ pipeOf' = [pipeOf EXCEPT ![n] = p]
  BY <1>2 DEF DispatchFuzz, Take
<1>4. /\ Len(tasks') = k + 1 /\ tasks'[k + 1] = t
      /\ \A i \in 1 .. k : tasks'[i] = tasks[i]
  BY <1>0, <1>2, AppendProperties DEF TypeOK, DispatchFuzz
<1>5. Len(todo') = n - 1 /\ \A i \in 1 .. n - 1 : todo'[i] = todo[i] /\ i \in 1 .. n
  <2>1. todo' = Front(todo) /\ todo # <<>> /\ todo \in Seq(Tasks)
    BY <1>0 DEF DispatchFuzz, Popped, TypeOK
  <2>2. QED
    BY <1>1, <2>1, FrontFacts
<1>6. future' = [future EXCEPT ![t] = "queued"] /\ pool' = Append(pool, t)
  BY <1>2 DEF DispatchFuzz, Launch
<1>7. /\ future'[t] = "queued"
      /\ \A u \in Tasks : u # t => future'[u] = future[u]
      /\ \A e \in Entries : e # n => Fuzz(e) # t /\ future'[Fuzz(e)] = future[Fuzz(e)]
  <2>1. future \in [Tasks -> Futures]
    BY <1>0 DEF TypeOK
  <2>2. \A e \in Entries : e # n => Fuzz(e) # t
    BY <1>2 DEF Fuzz
  <2>3. QED
    BY <1>2, <1>6, <2>1, <2>2, TaskFacts
<1>8. /\ pipeOf'[n] = p /\ p \in AllPipes
      /\ \A e \in Entries : e # n => pipeOf'[e] = pipeOf[e]
  BY <1>0, <1>2, <1>3 DEF TypeOK
<1>9. \A i \in 1 .. k : /\ tasks[i] \in Tasks /\ tasks[i][1] = "fuzz"
                        /\ tasks[i][2] \in Entries /\ tasks[i][2] # n
                        /\ tasks[i] = Fuzz(tasks[i][2]) /\ tasks[i] # t
  <2> TAKE i \in 1 .. k
  <2>1. tasks[i] \in Tasks
    BY <1>0, ElementOfSeq DEF TypeOK
  <2>2. tasks[i][1] = "fuzz" /\ future[tasks[i]] # "none"
    BY <1>0 DEF LeaseInv, FuzzJobsOnly
  <2>3. QED
    BY <1>2, <2>1, <2>2, TaskFacts
<1> DEFINE old(i) == pipeOf[tasks[i][2]]
           new(i) == pipeOf'[tasks'[i][2]]
<1>a. /\ \A i \in 1 .. k : old(i) \notin pipes
      /\ \A i, j \in 1 .. k : i # j => old(i) # old(j)
      /\ \A q \in AllPipes \ pipes : \E i \in 1 .. k : old(i) = q
      /\ \A e \in Entries : Occupied(e) => \E i \in 1 .. k : tasks[i] = Fuzz(e)
  BY <1>0 DEF LeaseInv, Holding, PipeAt
<1>10. new(k + 1) = p /\ \A i \in 1 .. k : new(i) = old(i) /\ old(i) # p
  BY <1>2, <1>4, <1>8, <1>9, <1>a
<1>11. QueueFresh'
  <2>1. \A i \in 1 .. n - 1 : todo'[i] = Fuzz(i) /\ future[Fuzz(i)] = "none" /\ i \in Entries /\ i # n
    BY <1>0, <1>1, <1>2, <1>5 DEF LeaseInv, QueueFresh, Entries
  <2>2. n - 1 <= N
    BY <1>0, <1>1 DEF LeaseInv, QueueFresh
  <2>3. QED
    BY <1>5, <1>7, <2>1, <2>2, TaskFacts DEF QueueFresh
<1>12. PoolFresh'
  <2>1. Len(pool') = Len(pool) + 1 /\ pool'[Len(pool) + 1] = t /\ Len(pool) \in Nat
        /\ \A i \in 1 .. Len(pool) : pool'[i] = pool[i] /\ pool[i] \in Tasks
    BY <1>0, <1>2, <1>6, AppendProperties, LenProperties, ElementOfSeq DEF TypeOK
  <2>2. \A i \in 1 .. Len(pool) : pool[i] # t
    BY <1>2 DEF LeaseInv, PoolFresh
  <2>3. QED
    BY <1>7, <2>1, <2>2 DEF LeaseInv, PoolFresh
<1>13. FuzzJobsOnly'
  <2>1. \A i \in 1 .. k : future[tasks[i]] # "none"
    BY <1>0 DEF LeaseInv, FuzzJobsOnly
  <2>2. QED
    BY <1>1, <1>2, <1>4, <1>7, <1>9, <2>1 DEF FuzzJobsOnly
<1>14. Holding'
  <2>0. \A i \in 1 .. k + 1 : i \in 1 .. k \/ i = k + 1
    BY <1>1
  <2> HIDE DEF old, new
  <2>1. \A i \in 1 .. k + 1 : new(i) \notin pipes'
    BY <1>3, <1>10, <1>a, <2>0
  <2>2. \A i, j \in 1 .. k + 1 : i # j => new(i) # new(j)
    BY <1>10, <1>a, <2>0
  <2>3. \A q \in AllPipes \ pipes' : \E i \in 1 .. k + 1 : new(i) = q
    BY <1>1, <1>3, <1>10, <1>a
  <2>4. \A e \in Entries : Occupied(e)' => \E i \in 1 .. k + 1 : tasks'[i] = Fuzz(e)
    BY <1>1, <1>2, <1>4, <1>7, <1>a DEF Occupied
  <2> USE DEF old, new
  <2>5. QED
    BY <1>4, <2>1, <2>2, <2>3, <2>4 DEF Holding, PipeAt, Occupied
<1>15. Distinct'
  <2>1. \A e \in Entries : Occupied(e) => pipeOf[e] \notin pipes
    <3> SUFFICES ASSUME NEW e \in Entries, Occupied(e)
                 PROVE  pipeOf[e] \notin pipes
      OBVIOUS
    <3>1. PICK i \in 1 .. k : tasks[i] = Fuzz(e)
      BY <1>a
    <3>2. old(i) = pipeOf[e]
      BY <3>1 DEF Fuzz
    <3>3. QED
      BY <1>a, <3>2
  <2>2. \A e \in Entries : e # n /\ Occupied(e)' =>
            Occupied(e) /\ pipeOf'[e] = pipeOf[e] /\ pipeOf[e] # p
    BY <1>3, <1>7, <1>8, <2>1 DEF Occupied
  <2>3. QED
    BY <1>8, <2>2 DEF LeaseInv, Distinct
<1>16. BuildsFirst' /\ FuzzLast'
  BY <1>0 DEF BuildsFirst, FuzzLast
<1>17. QED
  BY <1>0, <1>11, <1>12, <1>13, <1>14, <1>15, <1>16 DEF LeaseInv

(* One position of the sweep: the pipe that is given back was held by the  *)
(* removed job alone, and that job no longer occupies it.                  *)
LEMMA PollKeeps == LeaseInv /\ PollTask => LeaseInv'
<1> SUFFICES ASSUME LeaseInv, PollTask
             PROVE  LeaseInv'
  OBVIOUS
<1> DEFINE k == Len(tasks)
           t == tasks[scan]
           old(i) == pipeOf[tasks[i][2]]
<1>0. /\ TypeOK /\ TypeOK' /\ Scheduling /\ pc = "poll"
      /\ scan \in 1 .. k /\ k \in Nat /\ tasks \in Seq(Tasks)
      /\ UNCHANGED <<todo, pipeOf, future, pool>>
  BY NextTypeOK, LenProperties DEF LeaseInv, Next, Main, Scheduling, PollTask, TypeOK
<1>1. /\ \A i \in 1 .. k : old(i) \notin pipes
      /\ \A i, j \in 1 .. k : i # j => old(i) # old(j)
      /\ \A q \in AllPipes \ pipes : \E i \in 1 .. k : old(i) = q
      /\ \A e \in Entries : Occupied(e) => \E i \in 1 .. k : tasks[i] = Fuzz(e)
      /\ \A i \in 1 .. k : tasks[i][1] = "fuzz" /\ future[tasks[i]] # "none"
  BY <1>0 DEF LeaseInv, Holding, PipeAt, FuzzJobsOnly
<1>2. QueueFresh' /\ PoolFresh' /\ Distinct' /\ BuildsFirst' /\ FuzzLast'
  <2>1. pc' \in {"poll", "aborted"}
    BY <1>0 DEF PollTask, AfterResult
  <2>2. QED
    BY <1>0, <2>1
    DEF LeaseInv, QueueFresh, PoolFresh, Distinct, BuildsFirst, FuzzLast, Scheduling, Occupied
<1>3. CASE future[t] = "done"
  <2> DEFINE new(i) == pipeOf'[tasks'[i][2]]
             up(i) == IF i < scan THEN i ELSE i + 1
  <2>1. /\ tasks' = RemoveAt(tasks, scan) /\ pc' = "poll"
        /\ pipes' = pipes \cup {old(scan)}
    BY <1>0, <1>3 DEF PollTask, Dropped, Given, AfterResult, Over
  <2>2. Len(tasks') = k - 1 /\ \A i \in 1 .. k - 1 : tasks'[i] = tasks[up(i)]
    BY <1>0, <2>1, RemoveAtFacts
  <2>3. \A i \in 1 .. k - 1 : up(i) \in 1 .. k /\ up(i) # scan
    BY <1>0
  <2>4. \A i, j \in 1 .. k - 1 : i # j => up(i) # up(j)
    BY <1>0
  <2>5. \A m \in 1 .. k : m # scan => \E i \in 1 .. k - 1 : up(i) = m
    <3> SUFFICES ASSUME NEW m \in 1 .. k, m # scan
                 PROVE  \E i \in 1 .. k - 1 : up(i) = m
      OBVIOUS
    <3>1. CASE m < scan
      BY <1>0, <3>1
    <3>2. CASE m > scan
      <4>1. m - 1 \in 1 .. k - 1 /\ up(m - 1) = m
        BY <1>0, <3>2
      <4>2. QED
        BY <4>1
    <3>3. QED
      BY <1>0, <3>1, <3>2
  <2>6. \A i \in 1 .. k - 1 : new(i) = old(up(i))
    BY <1>0, <2>2
  <2>7. \A e \in Entries : Occupied(e) => Fuzz(e) # t
    BY <1>3 DEF Occupied
  <2> HIDE DEF up
  <2>8. FuzzJobsOnly'
    BY <1>0, <1>1, <2>2, <2>3 DEF FuzzJobsOnly
  <2> HIDE DEF old, new
  <2>9. \A i \in 1 .. k - 1 : new(i) \notin pipes'
    BY <1>0, <1>1, <2>1, <2>3, <2>6
  <2>10. \A i, j \in 1 .. k - 1 : i # j => new(i) # new(j)
    BY <1>1, <2>3, <2>4, <2>6
  <2>11. \A q \in AllPipes \ pipes' : \E i \in 1 .. k - 1 : new(i) = q
    <3> SUFFICES ASSUME NEW q \in AllPipes \ pipes'
                 PROVE  \E i \in 1 .. k - 1 : new(i) = q
      OBVIOUS
    <3>1. PICK m \in 1 .. k : old(m) = q
      BY <1>1, <2>1
    <3>2. m # scan
      BY <2>1, <3>1
    <3>3. QED
      BY <2>5, <2>6, <3>1, <3>2
  <2>12. \A e \in Entries : Occupied(e) => \E i \in 1 .. k - 1 : tasks'[i] = Fuzz(e)
    <3> SUFFICES ASSUME NEW e \in Entries, Occupied(e)
                 PROVE  \E i \in 1 .. k - 1 : tasks'[i] = Fuzz(e)
      OBVIOUS
    <3>1. PICK m \in 1 .. k : tasks[m] = Fuzz(e)
      BY <1>1
    <3>2. m # scan
      BY <2>7, <3>1
    <3>3. QED
      BY <2>2, <2>5, <3>1, <3>2
  <2> USE DEF new
  <2>13. Holding'
    BY <1>0, <2>2, <2>9, <2>10, <2>11, <2>12 DEF Holding, PipeAt, Occupied
  <2>14. QED
    BY <1>0, <1>2, <2>8, <2>13 DEF LeaseInv
<1>4. CASE future[t] = "failed"
  <2>1. pc' = "aborted"
    BY <1>0, <1>4 DEF PollTask, AfterResult, Over
  <2>2. QED
    BY <1>0, <1>2, <2>1 DEF LeaseInv, Holding, FuzzJobsOnly, Scheduling
<1>5. CASE future[t] \notin Over
  <2>1. UNCHANGED <<tasks, pipes, pc>>
    BY <1>5 DEF PollTask
  <2>2. Holding' /\ FuzzJobsOnly'
    BY <1>0, <2>1 DEF LeaseInv, Holding, FuzzJobsOnly, Scheduling, PipeAt, Occupied
  <2>3. QED
    BY <1>0, <1>2, <2>2 DEF LeaseInv
<1>6. QED
  BY <1>3, <1>4, <1>5 DEF Over

(* The remaining steps of the main thread touch neither a fuzz job nor the *)
(* pool; entering the loop from the builds, all pipes are free.            *)
LEMMA ControlKeeps ==
    LeaseInv /\ (StartPoll \/ EndPoll \/ EndDispatch \/ Collect \/ NextPhase \/ Interrupt)
        => LeaseInv'
<1> SUFFICES ASSUME LeaseInv,
                    StartPoll \/ EndPoll \/ EndDispatch \/ Collect \/ NextPhase \/ Interrupt
             PROVE  LeaseInv'
  OBVIOUS
<1>0. TypeOK /\ TypeOK' /\ UNCHANGED <<pipes, pipeOf, future, pool>>
  BY NextTypeOK
  DEF LeaseInv, Next, Main, StartPoll, EndPoll, EndDispatch, Collect, NextPhase, Interrupt
<1>1. PoolFresh' /\ Distinct'
  BY <1>0 DEF LeaseInv, PoolFresh, Distinct, Occupied
<1>2. CASE StartPoll \/ EndPoll
  <2>1. Scheduling /\ Scheduling' /\ UNCHANGED <<todo, tasks>> /\ pc' \in {"fuzz", "poll"}
    BY <1>2 DEF StartPoll, EndPoll, Scheduling
  <2>2. QED
    BY <1>0, <1>1, <2>1
    DEF LeaseInv, BuildsFirst, FuzzLast, QueueFresh, FuzzJobsOnly, Holding, PipeAt, Occupied
<1>3. CASE EndDispatch \/ Interrupt \/ (Collect /\ pc' # pc)
  <2>1. pc' \in {"drain", "interrupted", "aborted"}
    BY <1>3 DEF EndDispatch, Interrupt, Collect, AfterResult
  <2>2. QED
    BY <1>0, <1>1, <2>1
    DEF LeaseInv, BuildsFirst, FuzzLast, QueueFresh, FuzzJobsOnly, Holding, Scheduling
<1>4. CASE Collect /\ pc' = pc
  <2>1. ~Scheduling /\ ~Scheduling' /\ UNCHANGED todo
    BY <1>4 DEF Collect, Scheduling
  <2>2. BuildsFirst' /\ FuzzLast'
    BY <1>0, <1>4, <2>1 DEF LeaseInv, BuildsFirst, FuzzLast
  <2>3. QED
    BY <1>0, <1>1, <2>1, <2>2 DEF LeaseInv, QueueFresh, FuzzJobsOnly, Holding
<1>5. CASE NextPhase /\ pc = "build"
  <2>1. /\ pc' = "fuzz" /\ todo' = FuzzTodo /\ tasks' = <<>>
        /\ pipes' = AllPipes /\ \A e \in Entries : future'[Fuzz(e)] = "none"
    BY <1>0, <1>5 DEF NextPhase, LeaseInv, BuildsFirst
  <2>2. QueueFresh'
    BY <2>1, PipelineAssumption DEF QueueFresh, FuzzTodo, Entries
  <2>3. QED
    BY <1>0, <1>1, <2>1, <2>2
    DEF LeaseInv, BuildsFirst, FuzzLast, FuzzJobsOnly, Holding, Occupied
<1>6. CASE NextPhase /\ pc # "build"
  <2>1. pc' \in {"trace", "smatcher", "done"}
    BY <1>6 DEF NextPhase
  <2>2. \A i \in 1 .. Len(todo') : todo'[i][1] # "fuzz"
    <3>1. CASE todo' = TraceTodo
      <4>1. N \in Nat /\ Len(TraceTodo) = 2 * N + 1
        BY PipelineAssumption DEF TraceTodo
      <4>2. \A i \in 1 .. 2 * N + 1 : TraceTodo[i][1] # "fuzz"
        BY DEF TraceTodo, Triage, Trace, Smatch
      <4>3. QED
        BY <3>1, <4>1, <4>2
    <3>2. CASE todo' # TraceTodo
      BY <1>6, <3>2 DEF NextPhase, Smatcher
    <3>3. QED
      BY <3>1, <3>2
  <2>3. QED
    BY <1>0, <1>1, <2>1, <2>2
    DEF LeaseInv, BuildsFirst, FuzzLast, QueueFresh, FuzzJobsOnly, Holding, Scheduling
<1>7. QED
  BY <1>2, <1>3, <1>4, <1>5, <1>6

(* The pool moves a fuzz job from queued to running, where it still        *)
(* occupies its pipe, ...                                                  *)
LEMMA StartKeeps == LeaseInv /\ Start => LeaseInv'
<1> SUFFICES ASSUME LeaseInv, Start
             PROVE  LeaseInv'
  OBVIOUS
<1> DEFINE t == Head(pool)
           m == Len(pool)
<1>0. /\ TypeOK /\ TypeOK' /\ UNCHANGED <<pc, todo, tasks, scan, pipes, pipeOf>>
      /\ m \in Nat \ {0} /\ 1 \in 1 .. m /\ future \in [Tasks -> Futures]
  BY NextTypeOK, EmptySeq DEF LeaseInv, Next, Start, TypeOK
<1>1. /\ t \in Tasks /\ t = pool[1]
      /\ Len(pool') = m - 1 /\ \A i \in 1 .. m - 1 : pool'[i] = pool[i + 1]
  <2>1. pool \in Seq(Tasks) /\ pool # <<>> /\ pool' = Tail(pool) /\ Head(pool) = pool[1]
    BY <1>0 DEF Start, TypeOK
  <2>2. QED
    BY <1>0, <2>1, HeadTailProperties
<1>2. \A i \in 1 .. m : pool[i] \in Tasks
  BY <1>0, ElementOfSeq DEF TypeOK
<1>3. /\ future'[t] = "running" /\ \A u \in Tasks : u # t => future'[u] = future[u]
      /\ t[1] = "fuzz" => future[t] = "queued"
  BY <1>0, <1>1 DEF LeaseInv, PoolFresh, Start
<1>4. \A e \in Entries : /\ Occupied(e)' <=> Occupied(e)
                         /\ future'[Fuzz(e)] = "none" <=> future[Fuzz(e)] = "none"
  <2>1. \A e \in Entries : Fuzz(e) \in Tasks /\ (Fuzz(e) = t => t[1] = "fuzz")
    BY TaskFacts DEF Fuzz
  <2>2. QED
    BY <1>3, <2>1 DEF Occupied
<1>5. PoolFresh'
  <2> SUFFICES ASSUME NEW i \in 1 .. m - 1, pool'[i][1] = "fuzz"
               PROVE  /\ future'[pool'[i]] = "queued"
                      /\ \A j \in 1 .. m - 1 : j # i => pool'[j] # pool'[i]
    BY <1>1 DEF PoolFresh
  <2>1. \A j \in 1 .. m - 1 : j + 1 \in 1 .. m /\ j + 1 # 1
    BY <1>0
  <2>2. \A j \in 1 .. m : j # i + 1 => pool[j] # pool[i + 1]
    BY <1>1, <2>1 DEF LeaseInv, PoolFresh
  <2>3. pool[i + 1] # t /\ future[pool[i + 1]] = "queued"
    BY <1>0, <1>1, <2>1, <2>2 DEF LeaseInv, PoolFresh
  <2>4. future'[pool'[i]] = "queued"
    BY <1>1, <1>2, <1>3, <2>1, <2>3
  <2>5. \A j \in 1 .. m - 1 : j # i => j + 1 # i + 1
    BY <1>0
  <2>6. QED
    BY <1>1, <2>1, <2>2, <2>4, <2>5
<1>6. FuzzJobsOnly'
  <2>1. \A i \in 1 .. Len(tasks) : tasks[i] \in Tasks
    BY <1>0, ElementOfSeq DEF TypeOK
  <2>2. QED
    BY <1>0, <1>3, <2>1 DEF LeaseInv, FuzzJobsOnly, Scheduling
<1>7. QueueFresh'
  <2>1. N \in Nat /\ Len(todo) \in Nat
    BY <1>0, PipelineAssumption, LenProperties DEF TypeOK
  <2>2. Len(todo) <= N => \A i \in 1 .. Len(todo) : i \in Entries
    BY <2>1 DEF Entries
  <2>3. QED
    BY <1>0, <1>4, <2>2 DEF LeaseInv, QueueFresh, Scheduling
<1>8. BuildsFirst' /\ FuzzLast'
  BY <1>0, <1>4 DEF LeaseInv, BuildsFirst, FuzzLast
<1>9. Holding'
  BY <1>0, <1>4 DEF LeaseInv, Holding, Scheduling, PipeAt, Occupied
<1>10. Distinct'
  BY <1>0, <1>4 DEF LeaseInv, Distinct, Occupied
<1>11. QED
  BY <1>0, <1>5, <1>6, <1>7, <1>8, <1>9, <1>10 DEF LeaseInv

(* ... and from running to over, where it no longer does.                  *)
LEMMA OverKeeps ==
    ASSUME LeaseInv, NEW t \in Tasks, Finish(t) \/ Fail(t)
    PROVE  LeaseInv'
<1> DEFINE next == Smatch(t[2])
<1>0. /\ TypeOK /\ TypeOK' /\ UNCHANGED <<pc, todo, tasks, scan, pipes, pipeOf>>
      /\ future[t] = "running" /\ future \in [Tasks -> Futures]
  BY NextTypeOK DEF LeaseInv, Next, Finish, Fail, TypeOK
<1>1. /\ future'[t] \in Over
      /\ \A u \in Tasks : u # t /\ u # next => future'[u] = future[u]
      /\ \A u \in Tasks : future'[u] = "none" <=> future[u] = "none"
  BY <1>0 DEF Finish, Fail, Over
<1>2. \A e \in Entries : /\ Fuzz(e) \in Tasks /\ Fuzz(e) # next
                         /\ Occupied(e)' => Occupied(e)
  <2>1. \A e \in Entries : Fuzz(e) \in Tasks /\ Fuzz(e) # next
    BY TaskFacts DEF Fuzz, Smatch
  <2>2. QED
    BY <1>1, <2>1 DEF Occupied, Over
<1>3. \/ pool' = pool
      \/ /\ Len(pool') = Len(pool) + 1 /\ pool'[Len(pool) + 1] = next
         /\ \A i \in 1 .. Len(pool) : pool'[i] = pool[i]
  <2>1. t[1] = "trace" => next \in Tasks
    BY TaskFacts
  <2>2. pool' = pool \/ (t[1] = "trace" /\ pool' = Append(pool, next))
    <3>1. CASE Finish(t)
      BY <3>1 DEF Finish
    <3>2. CASE Fail(t)
      BY <3>2 DEF Fail
    <3>3. QED
      BY <3>1, <3>2
  <2>3. pool \in Seq(Tasks)
    BY <1>0 DEF TypeOK
  <2>4. ASSUME t[1] = "trace", pool' = Append(pool, next)
        PROVE  /\ Len(pool') = Len(pool) + 1 /\ pool'[Len(pool) + 1] = next
               /\ \A i \in 1 .. Len(pool) : pool'[i] = pool[i]
    <3> HIDE DEF next
    <3>1. QED
      BY <2>1, <2>3, <2>4, AppendProperties
  <2>5. QED
    BY <2>2, <2>4
<1>4. PoolFresh'
  <2>1. Len(pool) \in Nat /\ \A i \in 1 .. Len(pool) : pool[i] \in Tasks
    BY <1>0, LenProperties, ElementOfSeq DEF TypeOK
  <2>2. next[1] = "smatch"
    BY DEF Smatch
  <2>3. \A i \in 1 .. Len(pool') : pool'[i][1] = "fuzz" =>
            i \in 1 .. Len(pool) /\ pool'[i] = pool[i] /\ pool[i] # next
    BY <1>3, <2>1, <2>2
  <2>4. \A i \in 1 .. Len(pool) : pool[i][1] = "fuzz" => future[pool[i]] = "queued" /\ pool[i] # t
    BY <1>0 DEF LeaseInv, PoolFresh
  <2>5. \A i \in 1 .. Len(pool') : pool'[i][1] = "fuzz" => future'[pool'[i]] = "queued"
    BY <1>1, <2>1, <2>3, <2>4
  <2>6. \A i, j \in 1 .. Len(pool') : pool'[i][1] = "fuzz" /\ i # j => pool'[j] # pool'[i]
    BY <1>3, <2>1, <2>2, <2>3 DEF LeaseInv, PoolFresh
  <2>7. QED
    BY <2>5, <2>6 DEF PoolFresh
<1>5. FuzzJobsOnly'
  <2>1. \A i \in 1 .. Len(tasks) : tasks[i] \in Tasks
    BY <1>0, ElementOfSeq DEF TypeOK
  <2>2. QED
    BY <1>0, <1>1, <2>1 DEF LeaseInv, FuzzJobsOnly, Scheduling
<1>6. QueueFresh'
  <2>1. N \in Nat /\ Len(todo) \in Nat
    BY <1>0, PipelineAssumption, LenProperties DEF TypeOK
  <2>2. Len(todo) <= N => \A i \in 1 .. Len(todo) : i \in Entries
    BY <2>1 DEF Entries
  <2>3. QED
    BY <1>0, <1>1, <1>2, <2>2 DEF LeaseInv, QueueFresh, Scheduling
<1>7. BuildsFirst' /\ FuzzLast'
  BY <1>0, <1>1, <1>2 DEF LeaseInv, BuildsFirst, FuzzLast
<1>8. Holding'
  BY <1>0, <1>2 DEF LeaseInv, Holding, Scheduling, PipeAt, Occupied
<1>9. Distinct'
  BY <1>0, <1>2 DEF LeaseInv, Distinct, Occupied
<1>10. QED
  BY <1>0, <1>4, <1>5, <1>6, <1>7, <1>8, <1>9 DEF LeaseInv

-----------------------------------------------------------------------------
(* The theorems.                                                           *)

(* Every step of the main thread and of the pool keeps the invariant.      *)
LEMMA NextLeaseInv == LeaseInv /\ [Next]_vars => LeaseInv'
<1> SUFFICES ASSUME LeaseInv, [Next]_vars
             PROVE  LeaseInv'
  OBVIOUS
<1>1. CASE Ended \/ UNCHANGED vars
  BY <1>1
  DEF Ended, vars, LeaseInv, TypeOK, BuildsFirst, FuzzLast, QueueFresh, PoolFresh,
      FuzzJobsOnly, Holding, Distinct, Scheduling, PipeAt, Occupied
<1>2. QED
  BY <1>1, SubmitKeeps, DispatchKeeps, PollKeeps, ControlKeeps, StartKeeps, OverKeeps
  DEF Next, Main

(* LeaseInv is an invariant of every campaign, however its tasks are       *)
(* interleaved with the scheduling loop and whichever of them fail.        *)
THEOREM LeaseInvariance == Spec => []LeaseInv
<1>1. Init => LeaseInv
  BY InitLeaseInv
<1>2. LeaseInv /\ [Next]_vars => LeaseInv'
  BY NextLeaseInv
<1>3. QED
  BY <1>1, <1>2, PTL DEF Spec

(* Type correctness: in particular the sweep gives back only pipes, which  *)
(* needs the list it iterates to hold fuzz jobs only.                      *)
THEOREM TypeCorrectness == Spec => []TypeOK
<1>1. LeaseInv => TypeOK
  BY DEF LeaseInv
<1>2. QED
  BY <1>1, LeaseInvariance, PTL

(* The CPU ranges of different pipes do not meet.                          *)
LEMMA CpusDisjoint ==
    ASSUME NEW p \in AllPipes, NEW q \in AllPipes, p # q
    PROVE  Cpus(p) \cap Cpus(q) = {}
<1>1. Workers \in Nat \ {0} /\ p \in Nat /\ q \in Nat
  BY PipelineAssumption DEF AllPipes
<1>2. ASSUME NEW a \in Nat, NEW b \in Nat, a < b
      PROVE  Workers * a + Workers <= Workers * b
  <2>1. PICK d \in Nat : b = a + 1 + d
    <3>1. b - a - 1 \in Nat /\ b = a + 1 + (b - a - 1)
      BY <1>2
    <3>2. QED
      BY <3>1
  <2>2. Workers * b = Workers * a + Workers + Workers * d
    BY <1>1, <2>1
  <2>3. Workers * d \in Nat /\ Workers * a \in Nat
    BY <1>1
  <2>4. QED
    BY <1>1, <2>2, <2>3
<1>3. CASE p < q
  BY <1>1, <1>2, <1>3 DEF Cpus
<1>4. CASE q < p
  BY <1>1, <1>2, <1>4 DEF Cpus
<1>5. QED
  BY <1>1, <1>3, <1>4

(* Two fuzz jobs that occupy their pipes never share a CPU.                *)
THEOREM CpuExclusion == Spec => []CpuExclusive
<1>1. LeaseInv => CpuExclusive
  BY CpusDisjoint DEF LeaseInv, TypeOK, Distinct, CpuExclusive
<1>2. QED
  BY <1>1, LeaseInvariance, PTL

(* While the loop schedules, no pipe is lost and none is handed out twice, *)
(* although the sweep removes from the list it iterates.                   *)
THEOREM PipeConservation == Spec => []PipesConserved
<1>1. LeaseInv => PipesConserved
  <2> SUFFICES ASSUME LeaseInv, Scheduling
               PROVE  /\ {pipeOf[t[2]] : t \in ToSet(tasks)} = AllPipes \ pipes
                      /\ \A i, j \in DOMAIN tasks :
                            i # j => pipeOf[tasks[i][2]] # pipeOf[tasks[j][2]]
    BY DEF PipesConserved, Scheduling
  <2>1. DOMAIN tasks = 1 .. Len(tasks) /\ ToSet(tasks) = {tasks[i] : i \in 1 .. Len(tasks)}
    BY LenProperties DEF LeaseInv, TypeOK, ToSet
  <2>2. \A i \in 1 .. Len(tasks) : PipeAt(i) \in AllPipes
    <3>1. \A i \in 1 .. Len(tasks) : tasks[i] \in Tasks /\ tasks[i][1] = "fuzz"
      BY ElementOfSeq DEF LeaseInv, TypeOK, FuzzJobsOnly
    <3>2. QED
      BY <3>1, TaskFacts DEF PipeAt, LeaseInv, TypeOK
  <2>3. QED
    BY <2>1, <2>2 DEF LeaseInv, Holding, PipeAt
<1>2. QED
  BY <1>1, LeaseInvariance, PTL

-----------------------------------------------------------------------------
(* The scheduling loop implements the lease of CPUs.                       *)

(* Dispatching an entry begins its job on a slot no busy job holds.        *)
LEMMA DispatchBegins ==
    LeaseInv /\ DispatchFuzz => \E e \in Entries : Lease!Begin(e)
<1> SUFFICES ASSUME LeaseInv, DispatchFuzz
             PROVE  \E e \in Entries : Lease!Begin(e)
  OBVIOUS
<1> DEFINE n == Len(todo)
           stageOf(fut, e) == IF fut[Fuzz(e)] \in {"queued", "running"} THEN "busy"
                              ELSE IF fut[Fuzz(e)] \in Over THEN "over" ELSE "idle"
<1>0. TypeOK /\ pc = "fuzz" /\ Scheduling /\ future \in [Tasks -> Futures]
  BY DEF LeaseInv, TypeOK, Scheduling, DispatchFuzz
<1>1. n \in Nat \ {0} /\ n <= N /\ N \in Nat
  BY <1>0, EmptySeq, PipelineAssumption DEF LeaseInv, TypeOK, DispatchFuzz, QueueFresh
<1>2. Last(todo) = Fuzz(n) /\ n \in Entries /\ future[Fuzz(n)] = "none" /\ Fuzz(n) \in Tasks
  BY <1>0, <1>1, TaskFacts DEF LeaseInv, QueueFresh, Last, Entries
<1>3. PICK p \in pipes : pipeOf' = [pipeOf EXCEPT ![n] = p]
  <2>1. Last(todo)[2] = n
    BY <1>2 DEF Fuzz
  <2>2. \E p \in pipes : pipeOf' = [pipeOf EXCEPT ![Last(todo)[2]] = p]
    BY DEF DispatchFuzz
  <2>3. QED
    BY <2>1, <2>2
<1>4. future' = [future EXCEPT ![Fuzz(n)] = "queued"]
  BY <1>2 DEF DispatchFuzz, Launch, Fuzz
<1>5. p \in AllPipes /\ \A e \in Entries : Occupied(e) => pipeOf[e] # p
  <2> SUFFICES ASSUME NEW e \in Entries, Occupied(e)
               PROVE  pipeOf[e] \notin pipes
    BY <1>0 DEF TypeOK
  <2>1. PICK i \in 1 .. Len(tasks) : tasks[i] = Fuzz(e)
    BY <1>0 DEF LeaseInv, Holding
  <2>2. PipeAt(i) = pipeOf[e] /\ PipeAt(i) \notin pipes
    BY <1>0, <2>1 DEF LeaseInv, Holding, PipeAt, Fuzz
  <2>3. QED
    BY <2>2
<1>6. \A e \in Entries : e # n => Fuzz(e) # Fuzz(n) /\ Fuzz(e) \in Tasks
  BY TaskFacts DEF Fuzz
<1>7. [e \in Entries |-> stageOf(future', e)]
        = [[e \in Entries |-> stageOf(future, e)] EXCEPT ![n] = "busy"]
  <2>1. \A e \in Entries : stageOf(future', e) = IF e = n THEN "busy" ELSE stageOf(future, e)
    BY <1>0, <1>2, <1>4, <1>6
  <2>2. QED
    BY <2>1
<1>8. stageOf(future, n) = "idle"
  BY <1>2 DEF Over
<1>9. Lease!Begin(n)
  BY <1>2, <1>3, <1>5, <1>7, <1>8 DEF Lease!Begin, Occupied
<1>10. QED
  BY <1>2, <1>9

(* The end of a fuzz job ends its lease; the end of another task and the   *)
(* start of a job on a thread leave the lease alone.                       *)
LEMMA OverEnds ==
    ASSUME LeaseInv, NEW t \in Tasks, Finish(t) \/ Fail(t)
    PROVE  (\E e \in Entries : Lease!End(e)) \/ UNCHANGED Lease!leaseVars
<1> DEFINE next == Smatch(t[2])
           stageOf(fut, e) == IF fut[Fuzz(e)] \in {"queued", "running"} THEN "busy"
                              ELSE IF fut[Fuzz(e)] \in Over THEN "over" ELSE "idle"
<1>0. /\ future \in [Tasks -> Futures] /\ pipeOf' = pipeOf /\ future[t] = "running"
      /\ future'[t] \in Over
      /\ \A u \in Tasks : u # t /\ u # next => future'[u] = future[u]
  BY DEF LeaseInv, TypeOK, Finish, Fail, Over
<1>1. \A e \in Entries : Fuzz(e) \in Tasks /\ Fuzz(e) # next
  BY TaskFacts DEF Fuzz, Smatch
<1>2. CASE t[1] = "fuzz"
  <2>1. PICK e \in Entries : t = Fuzz(e)
    BY <1>2, TaskFacts
  <2>2. \A d \in Entries : stageOf(future', d) = IF d = e THEN "over" ELSE stageOf(future, d)
    BY <1>0, <1>1, <2>1 DEF Fuzz, Over
  <2>3. [d \in Entries |-> stageOf(future', d)]
          = [[d \in Entries |-> stageOf(future, d)] EXCEPT ![e] = "over"]
    BY <2>2
  <2>4. stageOf(future, e) = "busy"
    BY <1>0, <2>1
  <2>5. Lease!End(e)
    BY <1>0, <2>3, <2>4 DEF Lease!End, Occupied
  <2>6. QED
    BY <2>5
<1>3. CASE t[1] # "fuzz"
  <2>1. \A e \in Entries : Fuzz(e) # t
    BY <1>3 DEF Fuzz
  <2>2. \A e \in Entries : future'[Fuzz(e)] = future[Fuzz(e)]
    BY <1>0, <1>1, <2>1
  <2>3. QED
    BY <1>0, <2>2 DEF Lease!leaseVars, Occupied
<1>4. QED
  BY <1>2, <1>3

(* What the orchestrator does outside the fuzz jobs leaves the lease alone. *)
LEMMA OthersStutter ==
    LeaseInv /\ (\/ Submit \/ StartPoll \/ PollTask \/ EndPoll \/ EndDispatch \/ Collect
                 \/ NextPhase \/ Interrupt \/ Start \/ Ended \/ UNCHANGED vars)
        => UNCHANGED Lease!leaseVars
<1> SUFFICES ASSUME LeaseInv,
                    \/ Submit \/ StartPoll \/ PollTask \/ EndPoll \/ EndDispatch \/ Collect
                    \/ NextPhase \/ Interrupt \/ Start \/ Ended \/ UNCHANGED vars
             PROVE  UNCHANGED Lease!leaseVars
  OBVIOUS
<1>1. CASE Submit
  <2>1. todo \in Seq(Tasks) /\ todo # <<>> /\ Len(todo) \in Nat \ {0}
    BY <1>1, EmptySeq DEF LeaseInv, TypeOK, Submit
  <2>2. Head(todo) = todo[1] /\ Head(todo) \in Tasks /\ 1 \in 1 .. Len(todo)
    BY <2>1, HeadTailProperties
  <2>3. Head(todo)[1] # "fuzz"
    BY <1>1, <2>2 DEF LeaseInv, BuildsFirst, FuzzLast, Submit
  <2>4. \A u \in Tasks : u # Head(todo) => future'[u] = future[u]
    BY <1>1 DEF LeaseInv, TypeOK, Submit, Launch
  <2>5. \A e \in Entries : future'[Fuzz(e)] = future[Fuzz(e)]
    BY <2>3, <2>4, TaskFacts DEF Fuzz
  <2>6. QED
    BY <1>1, <2>5 DEF Submit, Lease!leaseVars, Occupied
<1>2. CASE Start
  <2>1. pool \in Seq(Tasks) /\ pool # <<>> /\ Len(pool) \in Nat \ {0}
    BY <1>2, EmptySeq DEF LeaseInv, TypeOK, Start
  <2>2. Head(pool) = pool[1] /\ Head(pool) \in Tasks /\ 1 \in 1 .. Len(pool)
    BY <2>1, HeadTailProperties
  <2>3. Head(pool)[1] = "fuzz" => future[Head(pool)] = "queued"
    BY <2>2 DEF LeaseInv, PoolFresh
  <2>4. /\ future'[Head(pool)] = "running"
        /\ \A u \in Tasks : u # Head(pool) => future'[u] = future[u]
    BY <1>2, <2>2 DEF LeaseInv, TypeOK, Start
  <2>5. \A e \in Entries : /\ Occupied(e)' <=> Occupied(e)
                           /\ future'[Fuzz(e)] \in Over <=> future[Fuzz(e)] \in Over
    <3>1. \A e \in Entries : Fuzz(e) \in Tasks /\ (Fuzz(e) = Head(pool) => Head(pool)[1] = "fuzz")
      BY TaskFacts DEF Fuzz
    <3>2. QED
      BY <2>3, <2>4, <3>1 DEF Occupied, Over
  <2>6. QED
    BY <1>2, <2>5 DEF Start, Lease!leaseVars
<1>3. CASE \/ StartPoll \/ PollTask \/ EndPoll \/ EndDispatch \/ Collect
           \/ NextPhase \/ Interrupt \/ Ended \/ UNCHANGED vars
  <2>1. future' = future /\ pipeOf' = pipeOf
    BY <1>3
    DEF StartPoll, PollTask, EndPoll, EndDispatch, Collect, NextPhase, Interrupt, Ended, vars
  <2>2. QED
    BY <2>1 DEF Lease!leaseVars, Occupied
<1>4. QED
  BY <1>1, <1>2, <1>3

(* Every campaign is a behaviour of CpuLease under the refinement mapping  *)
(* of Pipeline: jobs run at most once, on a slot of their own.             *)
THEOREM LeaseRefinement == Spec => LeaseSafe
<1>1. Init => Lease!LeaseInit
  <2> SUFFICES ASSUME Init
               PROVE  Lease!LeaseInit
    OBVIOUS
  <2>1. \A e \in Entries : ~Occupied(e) /\ future[Fuzz(e)] \notin Over
    BY TaskFacts DEF Init, Occupied, Over
  <2>2. pipeOf \in [Entries -> AllPipes]
    BY InitTypeOK DEF TypeOK
  <2>3. QED
    BY <2>1, <2>2 DEF Lease!LeaseInit
<1>2. LeaseInv /\ [Next]_vars => [Lease!LeaseNext]_(Lease!leaseVars)
  <2>1. ASSUME LeaseInv, [Next]_vars
        PROVE  (\E e \in Entries : Lease!Begin(e) \/ Lease!End(e)) \/ UNCHANGED Lease!leaseVars
    BY <2>1, DispatchBegins, OverEnds, OthersStutter DEF Next, Main
  <2>2. QED
    BY <2>1 DEF Lease!LeaseNext
<1>3. QED
  BY <1>1, <1>2, LeaseInvariance, PTL DEF Spec, LeaseSafe, Lease!LeaseSpec

-----------------------------------------------------------------------------
(* The stages of a campaign.  StagesOrdered is not inductive: the main     *)
(* thread could submit a task a second time or too early, or the pool      *)
(* could start one that is over.  It does not, because the tasks of the    *)
(* stages before the present one are done, those of later stages were      *)
(* never submitted, and those of the present one are done, or waiting to   *)
(* be submitted or collected (Accounted); because what is waiting to be    *)
(* submitted is of this stage and was not submitted (TodoFresh); and       *)
(* because the queue of the pool holds queued tasks, once (PoolQueued).    *)

Stage(t) == CASE t[1] = "build" -> 1
              [] t[1] = "fuzz" -> 2
              [] t[1] \in {"trace", "smatch", "triage"} -> 3
              [] OTHER -> 4

Now == CASE pc = "build" -> 1
         [] pc \in {"fuzz", "poll", "drain"} -> 2
         [] pc = "trace" -> 3
         [] pc = "smatcher" -> 4
         [] OTHER -> 5

Going == pc \in Phases \cup {"done"}

In(t, s) == \E i \in 1 .. Len(s) : s[i] = t

Accounted ==
    Going => \A t \in Tasks :
        /\ Stage(t) < Now => future[t] = "done"
        /\ Stage(t) > Now => future[t] = "none"
        /\ Stage(t) = Now => future[t] = "done" \/ In(t, todo) \/ In(t, tasks)

TodoFresh ==
    Going => \A i \in 1 .. Len(todo) :
        /\ Stage(todo[i]) = Now /\ future[todo[i]] = "none"
        /\ \A j \in 1 .. Len(todo) : j # i => todo[j] # todo[i]

PoolQueued ==
    \A i \in 1 .. Len(pool) :
        /\ future[pool[i]] = "queued"
        /\ \A j \in 1 .. Len(pool) : j # i => pool[j] # pool[i]

FailureKept == pc = "aborted" => \E t \in Tasks : future[t] = "failed"

StageInv ==
    /\ LeaseInv
    /\ Accounted /\ TodoFresh /\ PoolQueued /\ StagesOrdered /\ FailureKept

\* What a task reads: the tasks that StagesOrdered wants done before it starts.
Needs(t) == CASE t[1] = "build" -> {}
              [] t[1] = "fuzz" -> {Build(e) : e \in Entries}
              [] t[1] \in {"trace", "triage"} -> {Fuzz(e) : e \in Entries}
              [] t[1] = "smatch" -> {Trace(t[2])}
              [] OTHER -> {Trace(e) : e \in Entries} \cup {Smatch(e) : e \in Entries} \cup {Triage}

Began(f, t) == f[t] \in {"queued", "running", "done"}
Ordered(f) == \A t \in Tasks : Began(f, t) => \A u \in Needs(t) : f[u] = "done"

(* Stages and needs of each kind of task: a smatch job needs its trace,    *)
(* every other task only what is of earlier stages.                        *)
LEMMA StageFacts ==
    /\ \A t \in Tasks : /\ Stage(t) \in 1 .. 4
                        /\ Stage(t) = 2 <=> t[1] = "fuzz"
                        /\ Needs(t) \subseteq Tasks
                        /\ t[1] = "smatch" => t[2] \in Entries /\ t = Smatch(t[2]) /\ Needs(t) = {Trace(t[2])}
                        /\ t[1] # "smatch" => \A u \in Needs(t) : Stage(u) < Stage(t)
    /\ \A e \in Entries : /\ Stage(Build(e)) = 1 /\ Stage(Fuzz(e)) = 2
                          /\ Stage(Trace(e)) = 3 /\ Stage(Smatch(e)) = 3
    /\ Stage(Triage) = 3 /\ Stage(Smatcher) = 4
<1>1. /\ \A e \in Entries : /\ Stage(Build(e)) = 1 /\ Stage(Fuzz(e)) = 2
                            /\ Stage(Trace(e)) = 3 /\ Stage(Smatch(e)) = 3
      /\ Stage(Triage) = 3 /\ Stage(Smatcher) = 4
  BY DEF Stage, Build, Fuzz, Trace, Smatch, Triage, Smatcher
<1>2. ASSUME NEW t \in Tasks
      PROVE  /\ Stage(t) \in 1 .. 4
             /\ Stage(t) = 2 <=> t[1] = "fuzz"
             /\ Needs(t) \subseteq Tasks
             /\ t[1] = "smatch" => t[2] \in Entries /\ t = Smatch(t[2]) /\ Needs(t) = {Trace(t[2])}
             /\ t[1] # "smatch" => \A u \in Needs(t) : Stage(u) < Stage(t)
  <2>1. CASE \E e \in Entries : t = Build(e)
    BY <1>1, <2>1 DEF Needs, Build
  <2>2. CASE \E e \in Entries : t = Fuzz(e)
    <3>1. t[1] = "fuzz" /\ Stage(t) = 2
      BY <1>1, <2>2 DEF Fuzz
    <3>2. Needs(t) = {Build(e) : e \in Entries}
      BY <3>1 DEF Needs
    <3>3. QED
      BY <1>1, <3>1, <3>2, TaskFacts
  <2>3. CASE \E e \in Entries : t = Trace(e)
    <3>1. t[1] = "trace" /\ Stage(t) = 3
      BY <1>1, <2>3 DEF Trace
    <3>2. Needs(t) = {Fuzz(e) : e \in Entries}
      BY <3>1 DEF Needs
    <3>3. QED
      BY <1>1, <3>1, <3>2, TaskFacts
  <2>4. CASE \E e \in Entries : t = Smatch(e)
    BY <1>1, <2>4, TaskFacts DEF Needs, Smatch
  <2>5. CASE t = Triage
    BY <1>1, <2>5, TaskFacts DEF Needs, Triage
  <2>6. CASE t = Smatcher
    BY <1>1, <2>6, TaskFacts DEF Needs, Smatcher
  <2>7. QED
    BY <2>1, <2>2, <2>3, <2>4, <2>5, <2>6
    DEF Tasks, Build, Fuzz, Trace, Smatch, Triage, Smatcher
<1>3. QED
  BY <1>1, <1>2

(* StagesOrdered says that the needs of what has begun are done.           *)
LEMMA OrderedIsStages ==
    /\ StagesOrdered <=> Ordered(future)
    /\ StagesOrdered' <=> Ordered(future')
<1> DEFINE Fine(f) ==
      /\ (\E e \in Entries : Began(f, Fuzz(e))) => \A e \in Entries : f[Build(e)] = "done"
      /\ (Began(f, Triage) \/ \E e \in Entries : Began(f, Trace(e)))
            => \A e \in Entries : f[Fuzz(e)] = "done"
      /\ \A e \in Entries : Began(f, Smatch(e)) => f[Trace(e)] = "done"
      /\ Began(f, Smatcher) => /\ \A e \in Entries : f[Trace(e)] = "done"
                               /\ \A e \in Entries : f[Smatch(e)] = "done"
                               /\ f[Triage] = "done"
<1>1. (StagesOrdered <=> Fine(future)) /\ (StagesOrdered' <=> Fine(future'))
  BY DEF StagesOrdered, Began, Build, Fuzz, Trace, Smatch
<1>2. ASSUME NEW f
      PROVE  Fine(f) <=> Ordered(f)
  <2>1. /\ \A e \in Entries : /\ Needs(Build(e)) = {}
                              /\ Needs(Fuzz(e)) = {Build(d) : d \in Entries}
                              /\ Needs(Trace(e)) = {Fuzz(d) : d \in Entries}
                              /\ Needs(Smatch(e)) = {Trace(e)}
        /\ Needs(Triage) = {Fuzz(d) : d \in Entries}
        /\ Needs(Smatcher) = {Trace(d) : d \in Entries} \cup {Smatch(d) : d \in Entries} \cup {Triage}
    BY DEF Needs, Build, Fuzz, Trace, Smatch, Triage, Smatcher
  <2>2. \A t \in Tasks : \/ \E e \in Entries : t \in {Build(e), Fuzz(e), Trace(e), Smatch(e)}
                         \/ t \in {Triage, Smatcher}
    BY DEF Tasks, Build, Fuzz, Trace, Smatch, Triage, Smatcher
  <2>3. Ordered(f) => Fine(f)
    BY <2>1, TaskFacts DEF Ordered
  <2>4. ASSUME Fine(f), NEW t \in Tasks, Began(f, t), NEW u \in Needs(t)
        PROVE  f[u] = "done"
    BY <2>1, <2>2, <2>4
  <2>5. QED
    BY <2>3, <2>4 DEF Ordered
<1>3. QED
  BY <1>1, <1>2

(* A step that undoes no task and begins only what has all it needs keeps  *)
(* the order.                                                              *)
LEMMA OrderKept ==
    ASSUME StagesOrdered,
           \A t \in Tasks : future[t] = "done" => future'[t] = "done",
           \A t \in Tasks : Began(future', t) => \/ Began(future, t)
                                                 \/ \A u \in Needs(t) : future[u] = "done"
    PROVE  StagesOrdered'
BY OrderedIsStages, StageFacts DEF Ordered

(* Submitting a task of the present stage that was never submitted.        *)
LEMMA LaunchStage ==
    ASSUME StageInv, Going, NEW t \in Tasks, future[t] = "none", Stage(t) = Now, Launch(t)
    PROVE  /\ PoolQueued' /\ StagesOrdered'
           /\ future'[t] # "none" /\ \A u \in Tasks : u # t => future'[u] = future[u]
<1>1. /\ future \in [Tasks -> Futures] /\ pool \in Seq(Tasks) /\ Len(pool) \in Nat
      /\ \A i \in 1 .. Len(pool) : pool[i] \in Tasks
      /\ Accounted /\ PoolQueued /\ StagesOrdered
  BY LenProperties, ElementOfSeq DEF StageInv, LeaseInv, TypeOK
<1>2. /\ \A u \in Tasks : u # t => future'[u] = future[u]
      /\ future'[t] \in {"queued", "waiting", "failed"}
      /\ t[1] = "smatch" /\ future'[t] = "queued" => future[Trace(t[2])] = "done"
      /\ pool' = IF future'[t] = "queued" THEN Append(pool, t) ELSE pool
  BY <1>1 DEF Launch
<1>3. t[1] # "smatch" => \A u \in Needs(t) : future[u] = "done"
  BY <1>1, StageFacts DEF Accounted
<1>4. StagesOrdered'
  <2>1. future'[t] = "queued" => \A u \in Needs(t) : future[u] = "done"
    BY <1>2, <1>3, StageFacts
  <2>2. QED
    BY <1>1, <1>2, <2>1, OrderKept DEF Began
<1>5. PoolQueued'
  <2>1. CASE pool' = pool
    BY <1>1, <1>2, <2>1 DEF PoolQueued
  <2>2. CASE pool' = Append(pool, t) /\ future'[t] = "queued"
    <3>1. /\ Len(pool') = Len(pool) + 1 /\ pool'[Len(pool) + 1] = t
          /\ \A i \in 1 .. Len(pool) : pool'[i] = pool[i] /\ pool[i] # t
      BY <1>1, <2>2, AppendProperties DEF PoolQueued
    <3>2. QED
      BY <1>1, <1>2, <2>2, <3>1 DEF PoolQueued
  <2>3. QED
    BY <1>2, <2>1, <2>2
<1>6. QED
  BY <1>2, <1>4, <1>5

\* A list of tasks that has every task of stage k, once, and no other.
Whole(s, k) ==
    /\ \A t \in Tasks : Stage(t) = k => In(t, s)
    /\ \A i \in 1 .. Len(s) :
          /\ Stage(s[i]) = k
          /\ \A j \in 1 .. Len(s) : j # i => s[j] # s[i]

(* The loops of each phase submit every task of its stage, once.           *)
LEMMA TodoWhole ==
    Whole(BuildTodo, 1) /\ Whole(FuzzTodo, 2) /\ Whole(TraceTodo, 3) /\ Whole(<<Smatcher>>, 4)
<1>1. N \in Nat \ {0} /\ Entries = 1 .. N
  BY PipelineAssumption DEF Entries
<1>2. /\ \A t \in Tasks : Stage(t) = 1 => \E e \in Entries : t = Build(e)
      /\ \A t \in Tasks : Stage(t) = 2 => \E e \in Entries : t = Fuzz(e)
      /\ \A t \in Tasks : Stage(t) = 3 => t = Triage \/ \E e \in Entries : t = Trace(e) \/ t = Smatch(e)
      /\ \A t \in Tasks : Stage(t) = 4 => t = Smatcher
  BY DEF Tasks, Stage, Build, Fuzz, Trace, Smatch, Triage, Smatcher
<1>3. Whole(BuildTodo, 1)
  <2>1. Len(BuildTodo) = N /\ \A i \in 1 .. N : BuildTodo[i] = Build(i)
    BY <1>1 DEF BuildTodo
  <2>2. \A i, j \in 1 .. N : i # j => Build(i) # Build(j)
    BY DEF Build
  <2>3. QED
    BY <1>1, <1>2, <2>1, <2>2, StageFacts DEF Whole, In
<1>4. Whole(FuzzTodo, 2)
  <2>1. Len(FuzzTodo) = N /\ \A i \in 1 .. N : FuzzTodo[i] = Fuzz(i)
    BY <1>1 DEF FuzzTodo
  <2>2. \A i, j \in 1 .. N : i # j => Fuzz(i) # Fuzz(j)
    BY DEF Fuzz
  <2>3. QED
    BY <1>1, <1>2, <2>1, <2>2, StageFacts DEF Whole, In
<1>5. Whole(TraceTodo, 3)
  <2> DEFINE m == 2 * N + 1
  <2>1. Len(TraceTodo) = m /\ m \in Nat
    BY <1>1 DEF TraceTodo
  <2>2. \A i \in 1 .. m : \/ i = m /\ TraceTodo[i] = Triage
                          \/ \E e \in 1 .. N : i = 2 * e - 1 /\ i # m /\ TraceTodo[i] = Trace(e)
                          \/ \E e \in 1 .. N : i = 2 * e /\ i # m /\ TraceTodo[i] = Smatch(e)
    <3> TAKE i \in 1 .. m
    <3>1. CASE i = m
      BY <3>1 DEF TraceTodo
    <3>2. CASE i # m /\ i % 2 = 1
      <4>1. (i + 1) \div 2 \in 1 .. N /\ i = 2 * ((i + 1) \div 2) - 1
        BY <1>1, <3>2
      <4>2. TraceTodo[i] = Trace((i + 1) \div 2)
        BY <3>2 DEF TraceTodo
      <4>3. QED
        BY <3>2, <4>1, <4>2
    <3>3. CASE i # m /\ i % 2 # 1
      <4>1. i \div 2 \in 1 .. N /\ i = 2 * (i \div 2)
        BY <1>1, <3>3
      <4>2. TraceTodo[i] = Smatch(i \div 2)
        BY <3>3 DEF TraceTodo
      <4>3. QED
        BY <3>3, <4>1, <4>2
    <3>4. QED
      BY <3>1, <3>2, <3>3
  <2>3. \A e, d \in 1 .. N : /\ Trace(e) # Smatch(d) /\ Trace(e) # Triage /\ Smatch(e) # Triage
                             /\ Trace(e) = Trace(d) => e = d
                             /\ Smatch(e) = Smatch(d) => e = d
    BY DEF Trace, Smatch, Triage
  <2>4. ASSUME NEW i \in 1 .. m, NEW j \in 1 .. m, TraceTodo[i] = TraceTodo[j]
        PROVE  i = j
    BY <2>2, <2>3, <2>4
  <2>5. \A i \in 1 .. m : Stage(TraceTodo[i]) = 3
    BY <1>1, <2>2, StageFacts
  <2>6. ASSUME NEW e \in 1 .. N
        PROVE  In(Trace(e), TraceTodo) /\ In(Smatch(e), TraceTodo)
    <3>1. /\ 2 * e - 1 \in 1 .. m /\ 2 * e \in 1 .. m /\ 2 * e - 1 # m /\ 2 * e # m
          /\ (2 * e - 1) % 2 = 1 /\ (2 * e) % 2 # 1
          /\ (2 * e - 1 + 1) \div 2 = e /\ (2 * e) \div 2 = e
      BY <1>1
    <3>2. TraceTodo[2 * e - 1] = Trace(e) /\ TraceTodo[2 * e] = Smatch(e)
      BY <3>1 DEF TraceTodo
    <3>3. QED
      BY <2>1, <3>1, <3>2 DEF In
  <2>7. In(Triage, TraceTodo)
    <3>1. m \in 1 .. m /\ TraceTodo[m] = Triage
      BY <1>1 DEF TraceTodo
    <3>2. QED
      BY <2>1, <3>1 DEF In
  <2>8. QED
    BY <1>1, <1>2, <2>1, <2>4, <2>5, <2>6, <2>7 DEF Whole
<1>6. Whole(<<Smatcher>>, 4)
  BY <1>2, StageFacts DEF Whole, In
<1>7. QED
  BY <1>3, <1>4, <1>5, <1>6

(* The invariant holds before the builds are submitted.                    *)
LEMMA InitStageInv == Init => StageInv
<1> SUFFICES ASSUME Init
             PROVE  StageInv
  OBVIOUS
<1>1. pc = "build" /\ todo = BuildTodo /\ pool = <<>> /\ \A t \in Tasks : future[t] = "none"
  BY DEF Init
<1>2. Now = 1 /\ Whole(todo, 1) /\ todo \in Seq(Tasks)
  BY <1>1, TodoWhole, TodoTypes DEF Now
<1>3. \A i \in 1 .. Len(todo) : todo[i] \in Tasks
  BY <1>2, ElementOfSeq
<1>4. Accounted /\ TodoFresh
  BY <1>1, <1>2, <1>3, StageFacts DEF Accounted, TodoFresh, Whole
<1>5. StagesOrdered
  BY <1>1, OrderedIsStages DEF Ordered, Began
<1>6. PoolQueued /\ FailureKept
  BY <1>1 DEF PoolQueued, FailureKept
<1>7. QED
  BY <1>4, <1>5, <1>6, InitLeaseInv DEF StageInv

(* The first (d = 1) or the last (d = 0) task of the list is submitted.    *)
LEMMA SubmitOne ==
    ASSUME StageInv, Going, pc' = pc, NEW d \in {0, 1}, Len(todo) \in Nat \ {0},
           Len(todo') = Len(todo) - 1,
           \A i \in 1 .. Len(todo) - 1 : todo'[i] = todo[i + d],
           NEW t \in Tasks, t = todo[IF d = 1 THEN 1 ELSE Len(todo)],
           Launch(t), tasks' = Append(tasks, t)
    PROVE  Accounted' /\ TodoFresh' /\ PoolQueued' /\ StagesOrdered' /\ FailureKept'
<1> DEFINE n == Len(todo)
           k == IF d = 1 THEN 1 ELSE n
<1>0. /\ Accounted /\ TodoFresh /\ tasks \in Seq(Tasks) /\ Len(tasks) \in Nat
      /\ \A i \in 1 .. n : todo[i] \in Tasks
      /\ Going' /\ Now' = Now
  BY LenProperties, ElementOfSeq DEF StageInv, LeaseInv, TypeOK, Going, Now
<1>1. k \in 1 .. n /\ t = todo[k]
  OBVIOUS
<1>2. /\ Stage(t) = Now /\ future[t] = "none"
      /\ \A j \in 1 .. n : j # k => todo[j] # t
      /\ \A i \in 1 .. n : Stage(todo[i]) = Now /\ future[todo[i]] = "none"
      /\ \A i, j \in 1 .. n : j # i => todo[j] # todo[i]
  BY <1>0, <1>1 DEF TodoFresh
<1>3. /\ PoolQueued' /\ StagesOrdered'
      /\ \A u \in Tasks : u # t => future'[u] = future[u]
  BY <1>2, LaunchStage
<1>4. \A i \in 1 .. n - 1 : i + d \in 1 .. n /\ i + d # k /\ todo'[i] = todo[i + d]
  OBVIOUS
<1>5. \A j \in 1 .. n : j # k => j - d \in 1 .. n - 1 /\ (j - d) + d = j
  OBVIOUS
<1>6. TodoFresh'
  <2>1. \A i, j \in 1 .. n - 1 : j # i => j + d # i + d
    OBVIOUS
  <2>2. \A i \in 1 .. n - 1 : Stage(todo'[i]) = Now' /\ future'[todo'[i]] = "none"
    BY <1>0, <1>2, <1>3, <1>4
  <2>3. \A i, j \in 1 .. n - 1 : j # i => todo'[j] # todo'[i]
    BY <1>2, <1>4, <2>1
  <2>4. QED
    BY <2>2, <2>3 DEF TodoFresh
<1>7. /\ \A u \in Tasks : u # t /\ In(u, todo) => In(u, todo')
      /\ In(t, tasks') /\ \A u \in Tasks : In(u, tasks) => In(u, tasks')
  <2>1. /\ Len(tasks') = Len(tasks) + 1 /\ tasks'[Len(tasks) + 1] = t
        /\ \A i \in 1 .. Len(tasks) : tasks'[i] = tasks[i]
    BY <1>0, AppendProperties
  <2>2. ASSUME NEW u \in Tasks, u # t, In(u, todo)
        PROVE  In(u, todo')
    <3>1. PICK j \in 1 .. n : todo[j] = u
      BY <2>2 DEF In
    <3>2. j # k /\ j - d \in 1 .. n - 1 /\ todo'[j - d] = u
      BY <1>1, <1>4, <1>5, <2>2, <3>1
    <3>3. QED
      BY <3>2 DEF In
  <2>3. QED
    BY <1>0, <2>1, <2>2 DEF In
<1>8. Accounted'
  BY <1>0, <1>2, <1>3, <1>7 DEF Accounted
<1>9. FailureKept'
  BY DEF FailureKept, Going, Phases
<1>10. QED
  BY <1>3, <1>6, <1>8, <1>9

(* What the main thread submits it submits in order.                       *)
LEMMA SubmitStage == StageInv /\ (Submit \/ DispatchFuzz) => StageInv'
<1> SUFFICES ASSUME StageInv, Submit \/ DispatchFuzz
             PROVE  StageInv'
  OBVIOUS
<1>0. /\ LeaseInv' /\ todo \in Seq(Tasks) /\ todo # <<>> /\ Len(todo) \in Nat \ {0}
      /\ Going /\ pc' = pc
  BY NextLeaseInv, EmptySeq
  DEF StageInv, LeaseInv, TypeOK, Next, Main, Submit, DispatchFuzz, Going, Phases
<1>1. CASE Submit
  <2>1. /\ Head(todo) \in Tasks /\ Head(todo) = todo[1]
        /\ Len(Tail(todo)) = Len(todo) - 1
        /\ \A i \in 1 .. Len(todo) - 1 : Tail(todo)[i] = todo[i + 1]
    BY <1>0, HeadTailProperties
  <2>2. todo' = Tail(todo) /\ tasks' = Append(tasks, Head(todo)) /\ Launch(Head(todo))
    BY <1>1 DEF Submit
  <2>3. Accounted' /\ TodoFresh' /\ PoolQueued' /\ StagesOrdered' /\ FailureKept'
    BY <1>0, <2>1, <2>2, SubmitOne
  <2>4. QED
    BY <1>0, <2>3 DEF StageInv
<1>2. CASE DispatchFuzz
  <2>1. Last(todo) = todo[Len(todo)] /\ Last(todo) \in Tasks
    BY <1>0, ElementOfSeq DEF Last
  <2>2. todo' = Front(todo) /\ tasks' = Append(tasks, Last(todo)) /\ Launch(Last(todo))
    BY <1>2 DEF DispatchFuzz, Popped
  <2>3. Len(Front(todo)) = Len(todo) - 1 /\ \A i \in 1 .. Len(todo) - 1 : Front(todo)[i] = todo[i + 0]
    BY <1>0, FrontFacts
  <2>4. Accounted' /\ TodoFresh' /\ PoolQueued' /\ StagesOrdered' /\ FailureKept'
    BY <1>0, <2>1, <2>2, <2>3, SubmitOne
  <2>5. QED
    BY <1>0, <2>4 DEF StageInv
<1>3. QED
  BY <1>1, <1>2

(* A collected task is done, or its exception ends the campaign: the sweep *)
(* of the polling loop and the waits lose no failure of a task they remove. *)
LEMMA CollectStage == StageInv /\ (PollTask \/ Collect) => StageInv'
<1> SUFFICES ASSUME StageInv, PollTask \/ Collect
             PROVE  StageInv'
  OBVIOUS
<1> DEFINE k == IF pc = "poll" THEN scan ELSE 1
           t == tasks[k]
<1>0. /\ LeaseInv' /\ UNCHANGED <<todo, future, pool>> /\ Going
      /\ tasks \in Seq(Tasks) /\ Len(tasks) \in Nat
      /\ Accounted /\ TodoFresh /\ PoolQueued /\ StagesOrdered
  BY NextLeaseInv, LenProperties
  DEF StageInv, LeaseInv, TypeOK, Next, Main, PollTask, Collect, Going, Phases
<1>1. PoolQueued' /\ StagesOrdered'
  BY <1>0, OrderedIsStages DEF PoolQueued
<1>2. /\ k \in 1 .. Len(tasks) /\ t \in Tasks
      /\ \/ UNCHANGED <<pc, tasks>>
         \/ /\ future[t] \in Over /\ pc' = AfterResult(t)
            /\ \A u \in Tasks : In(u, tasks) /\ u # t => In(u, tasks')
  <2>1. CASE PollTask
    <3>1. /\ pc = "poll" /\ k = scan /\ scan \in 1 .. Len(tasks) /\ t \in Tasks
      BY <1>0, <2>1, ElementOfSeq DEF PollTask
    <3>2. CASE future[t] \in Over
      <4>1. tasks' = RemoveAt(tasks, scan) /\ pc' = AfterResult(t)
        BY <2>1, <3>1, <3>2 DEF PollTask, Dropped
      <4>2. /\ Len(tasks') = Len(tasks) - 1
            /\ \A j \in 1 .. Len(tasks) - 1 :
                 tasks'[j] = IF j < scan THEN tasks[j] ELSE tasks[j + 1]
        BY <1>0, <3>1, <4>1, RemoveAtFacts
      <4>3. ASSUME NEW u \in Tasks, In(u, tasks), u # t
            PROVE  In(u, tasks')
        <5>1. PICK i \in 1 .. Len(tasks) : tasks[i] = u
          BY <4>3 DEF In
        <5>2. CASE i < scan
          BY <1>0, <3>1, <4>2, <5>1, <5>2 DEF In
        <5>3. CASE i > scan
          <6>1. i - 1 \in 1 .. Len(tasks) - 1 /\ ~(i - 1 < scan) /\ (i - 1) + 1 = i
            BY <1>0, <3>1, <5>3
          <6>2. QED
            BY <4>2, <5>1, <6>1 DEF In
        <5>4. QED
          BY <1>0, <3>1, <4>3, <5>1, <5>2, <5>3
      <4>4. QED
        BY <3>1, <3>2, <4>1, <4>3
    <3>3. CASE future[t] \notin Over
      BY <2>1, <3>1, <3>3 DEF PollTask
    <3>4. QED
      BY <3>2, <3>3
  <2>2. CASE Collect
    <3>1. pc # "poll" /\ tasks # <<>> /\ Head(tasks) = tasks[1] /\ tasks' = Tail(tasks)
      BY <1>0, <2>2 DEF Collect
    <3>2. /\ Len(tasks) \in Nat \ {0} /\ t = Head(tasks) /\ t \in Tasks
          /\ Len(tasks') = Len(tasks) - 1
          /\ \A i \in 1 .. Len(tasks) - 1 : tasks'[i] = tasks[i + 1]
      BY <1>0, <3>1, EmptySeq, HeadTailProperties
    <3>3. ASSUME NEW u \in Tasks, In(u, tasks), u # t
          PROVE  In(u, tasks')
      <4>1. PICK i \in 1 .. Len(tasks) : tasks[i] = u
        BY <3>3 DEF In
      <4>2. i - 1 \in 1 .. Len(tasks) - 1 /\ (i - 1) + 1 = i
        BY <3>1, <3>2, <3>3, <4>1
      <4>3. QED
        BY <3>2, <4>1, <4>2 DEF In
    <3>4. future[t] \in Over /\ pc' = AfterResult(t)
      BY <2>2, <3>2 DEF Collect
    <3>5. k \in 1 .. Len(tasks)
      BY <3>1, <3>2
    <3>6. QED
      BY <3>2, <3>3, <3>4, <3>5
  <2>3. QED
    BY <2>1, <2>2
<1>3. CASE future[t] = "failed" /\ pc' = "aborted"
  <2>1. FailureKept'
    BY <1>0, <1>2, <1>3 DEF FailureKept
  <2>2. QED
    BY <1>0, <1>1, <1>3, <2>1 DEF StageInv, Accounted, TodoFresh, Going, Phases
<1>4. CASE pc' = pc /\ \A u \in Tasks : In(u, tasks) /\ future[u] # "done" => In(u, tasks')
  <2>1. Now' = Now /\ Going'
    BY <1>0, <1>4 DEF Now, Going
  <2>2. Accounted'
    BY <1>0, <1>4, <2>1 DEF Accounted
  <2>3. TodoFresh' /\ FailureKept'
    BY <1>0, <2>1 DEF TodoFresh, FailureKept, Going, Phases
  <2>4. QED
    BY <1>0, <1>1, <2>2, <2>3 DEF StageInv
<1>5. QED
  BY <1>2, <1>3, <1>4 DEF AfterResult, Over

(* A stage begins when the list of the one before is empty.                *)
LEMMA ControlStage ==
    StageInv /\ (StartPoll \/ EndPoll \/ EndDispatch \/ NextPhase \/ Interrupt) => StageInv'
<1> SUFFICES ASSUME StageInv, StartPoll \/ EndPoll \/ EndDispatch \/ NextPhase \/ Interrupt
             PROVE  StageInv'
  OBVIOUS
<1>0. /\ LeaseInv' /\ UNCHANGED <<tasks, future, pool>>
      /\ Accounted /\ TodoFresh /\ PoolQueued /\ StagesOrdered
  BY NextLeaseInv
  DEF StageInv, Next, Main, StartPoll, EndPoll, EndDispatch, NextPhase, Interrupt
<1>1. PoolQueued' /\ StagesOrdered'
  BY <1>0, OrderedIsStages DEF PoolQueued
<1>2. FailureKept'
  BY DEF FailureKept, StartPoll, EndPoll, EndDispatch, NextPhase, Interrupt
<1>3. CASE StartPoll \/ EndPoll \/ EndDispatch
  <2>1. Now' = Now /\ Going /\ Going' /\ todo' = todo
    BY <1>3 DEF StartPoll, EndPoll, EndDispatch, Now, Going, Phases
  <2>2. QED
    BY <1>0, <1>1, <1>2, <2>1 DEF StageInv, Accounted, TodoFresh
<1>4. CASE Interrupt
  BY <1>0, <1>1, <1>2, <1>4 DEF StageInv, Interrupt, Accounted, TodoFresh, Going, Phases
<1>5. CASE NextPhase
  <2>1. Going /\ Going' /\ Now' = Now + 1 /\ Now \in 1 .. 4 /\ todo = <<>> /\ tasks = <<>>
    BY <1>5 DEF NextPhase, Now, Going, Phases
  <2>2. \A t \in Tasks : Stage(t) <= Now => future[t] = "done"
    <3>1. \A t \in Tasks : ~In(t, todo) /\ ~In(t, tasks)
      BY <2>1 DEF In
    <3>2. QED
      BY <1>0, <2>1, <3>1, StageFacts DEF Accounted
  <2>3. \A t \in Tasks : Stage(t) > Now => future[t] = "none"
    BY <1>0, <2>1 DEF Accounted
  <2>4. Whole(todo', Now') /\ todo' \in Seq(Tasks)
    <3>1. CASE pc = "smatcher"
      <4>1. todo' = <<>> /\ Now' = 5
        BY <1>5, <3>1 DEF NextPhase, Now
      <4>2. QED
        BY <4>1, StageFacts DEF Whole
    <3>2. CASE pc # "smatcher"
      BY <1>5, <3>2, TodoWhole, TodoTypes DEF NextPhase, Now
    <3>3. QED
      BY <3>1, <3>2
  <2>5. \A i \in 1 .. Len(todo') : todo'[i] \in Tasks
    BY <2>4, ElementOfSeq
  <2>6. Accounted'
    BY <1>0, <2>1, <2>2, <2>3, <2>4, StageFacts DEF Accounted, Whole
  <2>7. TodoFresh'
    BY <1>0, <2>1, <2>3, <2>4, <2>5 DEF TodoFresh, Whole
  <2>8. QED
    BY <1>0, <1>1, <1>2, <2>6, <2>7 DEF StageInv
<1>6. QED
  BY <1>3, <1>4, <1>5

(* Steps of the pool leave alone what is over and what was not submitted.  *)
LEMMA PoolFrame ==
    ASSUME StageInv, UNCHANGED <<pc, todo, tasks>>,
           \A u \in Tasks : future[u] \in {"none", "done", "failed"} => future'[u] = future[u]
    PROVE  Accounted' /\ TodoFresh' /\ FailureKept'
<1>1. Now' = Now /\ (Going' <=> Going) /\ \A i \in 1 .. Len(todo) : todo[i] \in Tasks
  BY ElementOfSeq DEF StageInv, LeaseInv, TypeOK, Now, Going
<1>2. QED
  BY <1>1 DEF StageInv, Accounted, TodoFresh, FailureKept

(* The pool starts what is queued, and what it ends is in order.           *)
LEMMA PoolStage ==
    ASSUME StageInv, Start \/ \E t \in Tasks : Finish(t) \/ Fail(t)
    PROVE  StageInv'
<1>0. /\ LeaseInv' /\ UNCHANGED <<pc, todo, tasks>> /\ future \in [Tasks -> Futures]
      /\ pool \in Seq(Tasks) /\ Len(pool) \in Nat /\ PoolQueued /\ StagesOrdered
      /\ \A i \in 1 .. Len(pool) : pool[i] \in Tasks
  BY NextLeaseInv, LenProperties, ElementOfSeq
  DEF StageInv, LeaseInv, TypeOK, Next, Start, Finish, Fail
<1>1. CASE Start
  <2> DEFINE h == Head(pool)
             m == Len(pool)
  <2>1. /\ pool # <<>> /\ m \in Nat \ {0} /\ h = pool[1] /\ 1 \in 1 .. m /\ h \in Tasks
        /\ future[h] = "queued" /\ future' = [future EXCEPT ![h] = "running"]
        /\ pool' = Tail(pool)
    BY <1>0, <1>1, EmptySeq DEF Start, PoolQueued
  <2>2. Len(pool') = m - 1 /\ \A i \in 1 .. m - 1 : pool'[i] = pool[i + 1]
    BY <1>0, <2>1, HeadTailProperties
  <2>3. future'[h] = "running" /\ \A u \in Tasks : u # h => future'[u] = future[u]
    BY <1>0, <2>1
  <2>4. Accounted' /\ TodoFresh' /\ FailureKept'
    BY <1>0, <2>1, <2>3, PoolFrame
  <2>5. StagesOrdered'
    <3>1. \A u \in Tasks : future[u] = "done" => future'[u] = "done"
      BY <2>1, <2>3
    <3>2. \A u \in Tasks : Began(future', u) => Began(future, u)
      BY <2>1, <2>3 DEF Began
    <3>3. QED
      BY <1>0, <3>1, <3>2, OrderKept
  <2>6. PoolQueued'
    <3>1. /\ \A i \in 1 .. m - 1 : i + 1 \in 1 .. m /\ i + 1 # 1
          /\ \A i, j \in 1 .. m - 1 : j # i => j + 1 # i + 1
      BY <2>1
    <3>2. \A i \in 1 .. m - 1 : pool'[i] # h /\ future'[pool'[i]] = "queued"
      BY <1>0, <2>1, <2>2, <2>3, <3>1 DEF PoolQueued
    <3>3. \A i, j \in 1 .. m - 1 : j # i => pool'[j] # pool'[i]
      BY <1>0, <2>2, <3>1 DEF PoolQueued
    <3>4. QED
      BY <2>2, <3>2, <3>3 DEF PoolQueued
  <2>7. QED
    BY <1>0, <2>4, <2>5, <2>6 DEF StageInv
<1>2. ASSUME NEW t \in Tasks, Finish(t)
      PROVE  StageInv'
  <2> DEFINE next == Smatch(t[2])
             wakes == t[1] = "trace" /\ future[next] = "waiting"
  <2>1. /\ future[t] = "running" /\ future'[t] = "done"
        /\ \A u \in Tasks : u # t => future'[u] = IF wakes /\ u = next THEN "queued" ELSE future[u]
        /\ pool' = IF wakes THEN Append(pool, next) ELSE pool
        /\ t[1] = "trace" => next \in Tasks /\ next # t /\ t = Trace(t[2]) /\ Needs(next) = {t}
    <3>1. t[1] = "trace" => next \in Tasks /\ next # t /\ t = Trace(t[2]) /\ Needs(next) = {t}
      BY TaskFacts DEF Smatch, Trace, Needs
    <3>2. QED
      BY <1>0, <1>2, <3>1 DEF Finish
  <2> HIDE DEF next
  <2>2. Accounted' /\ TodoFresh' /\ FailureKept'
    BY <1>0, <2>1, PoolFrame
  <2>3. \A u \in Tasks : future[u] = "done" => future'[u] = "done"
    BY <2>1
  <2>4. StagesOrdered'
    <3>1. \A u \in Tasks : Began(future', u) => Began(future, u) \/ (wakes /\ u = next)
      BY <2>1 DEF Began
    <3>2. Ordered(future')
      <4> SUFFICES ASSUME NEW u \in Tasks, Began(future', u), NEW v \in Needs(u)
                   PROVE  future'[v] = "done"
        BY DEF Ordered
      <4>1. CASE Began(future, u)
        BY <1>0, <2>3, <4>1, OrderedIsStages, StageFacts DEF Ordered
      <4>2. CASE wakes /\ u = next
        BY <2>1, <4>2
      <4>3. QED
        BY <3>1, <4>1, <4>2
    <3>3. QED
      BY <3>2, OrderedIsStages
  <2>5. PoolQueued'
    <3>1. CASE ~wakes
      BY <1>0, <2>1, <3>1 DEF PoolQueued
    <3>2. CASE wakes
      <4>1. /\ Len(pool') = Len(pool) + 1 /\ pool'[Len(pool) + 1] = next
            /\ \A i \in 1 .. Len(pool) : pool'[i] = pool[i] /\ pool[i] # next /\ pool[i] # t
        BY <1>0, <2>1, <3>2, AppendProperties DEF PoolQueued
      <4>2. future'[next] = "queued"
        BY <2>1, <3>2
      <4>3. \A i \in 1 .. Len(pool) : future'[pool[i]] = "queued"
        BY <1>0, <2>1, <4>1 DEF PoolQueued
      <4>4. QED
        BY <1>0, <4>1, <4>2, <4>3 DEF PoolQueued
    <3>3. QED
      BY <3>1, <3>2
  <2>6. QED
    BY <1>0, <2>2, <2>4, <2>5 DEF StageInv
<1>3. ASSUME NEW t \in Tasks, Fail(t)
      PROVE  StageInv'
  <2>1. /\ pool' = pool
        /\ \A u \in Tasks : future'[u] = future[u]
                            \/ (future[u] \in {"running", "waiting"} /\ future'[u] = "failed")
    BY <1>0, <1>3 DEF Fail
  <2>2. Accounted' /\ TodoFresh' /\ FailureKept'
    BY <1>0, <2>1, PoolFrame
  <2>3. StagesOrdered'
    <3>1. \A u \in Tasks : future[u] = "done" => future'[u] = "done"
      BY <2>1
    <3>2. \A u \in Tasks : Began(future', u) => Began(future, u)
      BY <2>1 DEF Began
    <3>3. QED
      BY <1>0, <3>1, <3>2, OrderKept
  <2>4. PoolQueued'
    BY <1>0, <2>1 DEF PoolQueued
  <2>5. QED
    BY <1>0, <2>2, <2>3, <2>4 DEF StageInv
<1>4. QED
  BY <1>1, <1>2, <1>3

(* StageInv is an invariant of every campaign.                             *)
THEOREM StageInvariance == Spec => []StageInv
<1>1. StageInv /\ (Ended \/ UNCHANGED vars) => StageInv'
  <2> SUFFICES ASSUME StageInv, Ended \/ UNCHANGED vars
               PROVE  StageInv'
    OBVIOUS
  <2>1. UNCHANGED vars
    BY DEF Ended
  <2>2. LeaseInv'
    BY <2>1, NextLeaseInv DEF StageInv
  <2>3. QED
    BY <2>1, <2>2
    DEF vars, StageInv, Accounted, TodoFresh, PoolQueued, StagesOrdered, FailureKept,
        Going, Now
<1>2. StageInv /\ [Next]_vars => StageInv'
  BY <1>1, SubmitStage, CollectStage, ControlStage, PoolStage DEF Next, Main
<1>3. QED
  BY <1>2, InitStageInv, PTL DEF Spec

(* No task starts before what it reads is complete, whatever fails and     *)
(* however the main thread and the pool interleave                         *)
(* (pipeline.py:244-289).                                                  *)
THEOREM StageOrder == Spec => []StagesOrdered
<1>1. StageInv => StagesOrdered
  BY DEF StageInv
<1>2. QED
  BY <1>1, StageInvariance, PTL

(* A campaign that runs to its end has completed every task, one that      *)
(* aborts has a failed task (pipeline.py:261-269).                         *)
THEOREM HonestOutcome == Spec => []OutcomeHonest
<1>1. StageInv => OutcomeHonest
  <2>1. StageInv /\ pc = "done" => \A t \in Tasks : future[t] = "done"
    BY StageFacts DEF StageInv, Accounted, Going, Now
  <2>2. QED
    BY <2>1 DEF StageInv, FailureKept, OutcomeHonest
<1>2. QED
  BY <1>1, StageInvariance, PTL

(* A fuzz job that was given its CPUs finds a free thread of the pool: all *)
(* that runs beside it are other fuzz jobs, each of which holds a pipe of  *)
(* its own (pipeline.py:407-414).                                          *)
THEOREM ThreadForEveryPipe == Spec => []FuzzHasThread
<1>1. StageInv => FuzzHasThread
  <2> SUFFICES ASSUME StageInv, NEW q \in Entries, future[Fuzz(q)] = "queued"
               PROVE  Cardinality(Running) + Cardinality({e \in Entries : future[Fuzz(e)] = "queued"})
                        <= Threads
    BY DEF FuzzHasThread
  <2> DEFINE run  == {e \in Entries : future[Fuzz(e)] = "running"}
             wait == {e \in Entries : future[Fuzz(e)] = "queued"}
  <2>1. Running = {Fuzz(e) : e \in run}
    <3>1. \A e \in Entries : future[Build(e)] = "done"
      BY DEF StageInv, StagesOrdered, Build, Fuzz
    <3>2. \A e \in Entries : future[Trace(e)] \notin {"running", "done"}
      BY DEF StageInv, StagesOrdered, Fuzz, Trace
    <3>3. /\ \A e \in Entries : future[Smatch(e)] # "running"
          /\ future[Triage] # "running" /\ future[Smatcher] # "running"
      <4>1. \A e \in Entries : future[Smatch(e)] # "running"
        BY <3>2 DEF StageInv, StagesOrdered, Smatch, Trace
      <4>2. future[Triage] # "running"
        BY DEF StageInv, StagesOrdered, Fuzz
      <4>3. future[Smatcher] # "running"
        BY <3>2 DEF StageInv, StagesOrdered, Trace
      <4>4. QED
        BY <4>1, <4>2, <4>3
    <3>4. \A t \in Tasks : \/ \E e \in Entries : t \in {Build(e), Fuzz(e), Trace(e), Smatch(e)}
                            \/ t \in {Triage, Smatcher}
      BY DEF Tasks, Build, Fuzz, Trace, Smatch, Triage, Smatcher
    <3>5. \A t \in Tasks : future[t] = "running" => \E e \in Entries : t = Fuzz(e)
      BY <3>1, <3>2, <3>3, <3>4
    <3>6. QED
      BY <3>5, TaskFacts DEF Running
  <2>2. IsFiniteSet(Entries) /\ IsFiniteSet(AllPipes) /\ Cardinality(AllPipes) = Threads
    <3>1. N \in Nat /\ Pipes \in Nat
      BY PipelineAssumption
    <3>2. QED
      BY <3>1, FS_Interval DEF Entries, AllPipes, Threads
  <2>3. IsFiniteSet(run) /\ IsFiniteSet(wait) /\ run \cap wait = {}
    BY <2>2, FS_Subset
  <2>4. IsFiniteSet(Running) /\ Cardinality(Running) <= Cardinality(run)
    <3> DEFINE g == [e \in run |-> Fuzz(e)]
    <3>1. g \in Surjection(run, Running)
      BY <2>1 DEF Surjection
    <3>2. QED
      BY <2>3, <3>1, FS_Surjection
  <2>5. Cardinality(run \cup wait) <= Cardinality(AllPipes)
    <3> DEFINE g == [e \in run \cup wait |-> pipeOf[e]]
    <3>1. g \in Injection(run \cup wait, AllPipes)
      <4>1. \A e \in run \cup wait : Occupied(e) /\ pipeOf[e] \in AllPipes
        BY DEF StageInv, LeaseInv, TypeOK, Occupied
      <4>2. \A e, f \in run \cup wait : pipeOf[e] = pipeOf[f] => e = f
        BY <4>1 DEF StageInv, LeaseInv, Distinct
      <4>3. g \in [run \cup wait -> AllPipes] /\ \A e \in run \cup wait : g[e] = pipeOf[e]
        BY <4>1
      <4> HIDE DEF run, wait, g
      <4>4. QED
        BY <4>2, <4>3 DEF Injection, IsInjective
    <3>2. QED
      BY <2>2, <3>1, FS_Injection
  <2>6. Cardinality(run \cup wait) = Cardinality(run) + Cardinality(wait)
    <3>1. Cardinality(run \cap wait) = 0
      BY <2>3, FS_EmptySet
    <3>2. Cardinality(run) \in Nat /\ Cardinality(wait) \in Nat
      BY <2>3, FS_CardinalityType
    <3>3. Cardinality(run \cup wait) = Cardinality(run) + Cardinality(wait) - Cardinality(run \cap wait)
      BY <2>3, FS_Union
    <3>4. QED
      BY <3>1, <3>2, <3>3
  <2>7. QED
    <3>1. Cardinality(run) \in Nat /\ Cardinality(wait) \in Nat /\ Cardinality(Running) \in Nat
      BY <2>3, <2>4, FS_CardinalityType
    <3>2. Pipes \in Nat
      BY PipelineAssumption
    <3>3. QED
      BY <2>2, <2>4, <2>5, <2>6, <3>1, <3>2 DEF Threads
<1>2. QED
  BY <1>1, StageInvariance, PTL

-----------------------------------------------------------------------------
(* How many pipes there are, and how many CPUs each has: CampaignSizing,   *)
(* for machines and campaigns of every size.                               *)

(* What n \div w groups of w take from n.                                  *)
LEMMA DivBound ==
    ASSUME NEW n \in Nat, NEW w \in Nat \ {0}
    PROVE  /\ n \div w \in Nat
           /\ (n \div w) * w <= n
           /\ n < (n \div w + 1) * w
OBVIOUS

(* Multiplication is monotonic: p groups of w take no more than q >= p.    *)
LEMMA GroupsMonotonic ==
    ASSUME NEW w \in Nat, NEW p \in Nat, NEW q \in Nat, p <= q
    PROVE  p * w \in Nat /\ p * w <= q * w
<1>1. PICK d \in Nat : q = p + d
  <2>1. q - p \in Nat /\ q = p + (q - p)
    OBVIOUS
  <2>2. QED
    BY <2>1
<1>2. q * w = p * w + d * w /\ d * w \in Nat /\ p * w \in Nat
  BY <1>1
<1>3. QED
  BY <1>2

(* The npipes that fit: at least one, and all of them within the machine;   *)
(* when there are several, two CPUs stay free.                             *)
LEMMA PipesFittingFacts ==
    ASSUME NEW n \in Nat \ {0}, NEW w \in Nat \ {0}, w <= n
    PROVE  /\ PipesFitting(n, w) \in Nat \ {0}
           /\ PipesFitting(n, w) * w <= n
           /\ PipesFitting(n, w) > 1 => PipesFitting(n, w) * w <= n - 2
           /\ w < n => (PipesFitting(n, w) + 1) * w > n - 2
<1>1. CASE n >= 2
  <2> DEFINE d == (n - 2) \div w
  <2>1. n - 2 \in Nat
    BY <1>1
  <2>2. d \in Nat /\ d * w <= n - 2 /\ n - 2 < (d + 1) * w
    BY <2>1, DivBound
  <2>3. PipesFitting(n, w) = IF d > 1 THEN d ELSE 1
    BY DEF PipesFitting
  <2> HIDE DEF d
  <2>4. CASE d > 1
    <3>1. PipesFitting(n, w) = d
      BY <2>3, <2>4
    <3>2. d * w <= n
      BY <2>2
    <3>3. QED
      BY <2>2, <2>4, <3>1, <3>2
  <2>5. CASE ~(d > 1)
    <3>1. PipesFitting(n, w) = 1 /\ d + 1 <= 2
      BY <2>2, <2>3, <2>5
    <3>2. (d + 1) * w <= 2 * w
      BY <2>2, <3>1, GroupsMonotonic
    <3>3. 1 * w = w /\ (1 + 1) * w = 2 * w /\ 2 * w \in Nat
      OBVIOUS
    <3>4. n - 2 < 2 * w
      <4>1. (d + 1) * w \in Nat
        BY <2>2
      <4>2. QED
        BY <2>2, <3>2, <3>3, <4>1
    <3>5. QED
      BY <3>1, <3>3, <3>4
  <2>6. QED
    BY <2>4, <2>5
<1>2. CASE ~(n >= 2)
  <2>1. n = 1 /\ w = 1
    BY <1>2
  <2>2. (1 - 2) \div 1 = -1
    OBVIOUS
  <2>3. PipesFitting(n, w) = 1
    BY <2>1, <2>2 DEF PipesFitting
  <2>4. QED
    BY <2>1, <2>3
<1>3. QED
  BY <1>1, <1>2

-----------------------------------------------------------------------------
(* The inductive invariant: from the split on, the npipes fit the machine   *)
(* and the build threads fit twice the machine, before and after the cap.  *)
Split == stage \in {"split", "loaded"}

SizingInv ==
    /\ SizingTypeOK
    /\ stage = "split" => harnesses >= 1
    /\ Split => /\ npipes >= 1 /\ workers <= ncpu
                /\ npipes * workers <= ncpu
                /\ npipes * threads <= 2 * ncpu

(* The options as parsed satisfy the invariant.                            *)
LEMMA InitSizingInv == SizingInit => SizingInv
<1> SUFFICES ASSUME SizingInit
             PROVE  SizingInv
  OBVIOUS
<1>1. /\ stage = "parsed" /\ harnesses \in Nat /\ npipes = 0 /\ threads \in Nat
      /\ ncpu \in Nat \ {0} /\ workers \in Nat \ {0}
  BY SizingAssumption DEF SizingInit
<1>2. QED
  BY <1>1 DEF SizingInv, SizingTypeOK, Split

(* Splitting the CPUs into npipes keeps within the CPUs there are.          *)
LEMMA SplitKeeps == SizingInv /\ (FewCpus \/ SplitCpus) => SizingInv'
<1> SUFFICES ASSUME SizingInv, FewCpus \/ SplitCpus
             PROVE  SizingInv'
  OBVIOUS
<1>1. CASE FewCpus
  <2>1. ncpu \in Nat \ {0} /\ 1 * ncpu = ncpu /\ 1 * (2 * ncpu) = 2 * ncpu /\ 2 * ncpu \in Nat
    BY DEF SizingInv, SizingTypeOK
  <2>2. QED
    BY <1>1, <2>1 DEF FewCpus, SizingInv, SizingTypeOK, Split
<1>2. CASE SplitCpus
  <2> DEFINE p == PipesFitting(ncpu, workers)
  <2>1. ncpu \in Nat \ {0} /\ workers \in Nat \ {0} /\ workers <= ncpu
    BY <1>2 DEF SizingInv, SizingTypeOK, SplitCpus
  <2>2. p \in Nat \ {0} /\ p * workers <= ncpu
    BY <2>1, PipesFittingFacts
  <2> HIDE DEF p
  <2>3. p * (2 * workers) = 2 * (p * workers) /\ p * workers \in Nat /\ 2 * workers \in Nat
    BY <2>1, <2>2
  <2>4. p * (2 * workers) <= 2 * ncpu
    BY <2>1, <2>2, <2>3
  <2>5. npipes' = p /\ threads' = 2 * workers /\ workers' = workers /\ ncpu' = ncpu
    BY <1>2 DEF SplitCpus, p
  <2>6. SizingTypeOK'
    BY <1>2, <2>1, <2>2, <2>3, <2>5 DEF SizingInv, SizingTypeOK, SplitCpus
  <2>7. QED
    BY <1>2, <2>1, <2>2, <2>4, <2>5, <2>6 DEF SizingInv, SplitCpus, Split
<1>3. QED
  BY <1>1, <1>2

(* Fewer npipes need fewer CPUs; the threads scale with what they leave.    *)
LEMMA CapKeeps == SizingInv /\ CapPipes => SizingInv'
<1> SUFFICES ASSUME SizingInv, CapPipes
             PROVE  SizingInv'
  OBVIOUS
<1>0. /\ ncpu \in Nat \ {0} /\ workers \in Nat \ {0} /\ npipes \in Nat \ {0}
      /\ harnesses \in Nat \ {0} /\ npipes * workers <= ncpu /\ workers <= ncpu
  BY DEF SizingInv, SizingTypeOK, Split, CapPipes
<1>1. CASE npipes > harnesses
  <2> DEFINE d == ncpu \div harnesses
  <2>1. harnesses * workers <= ncpu
    <3>1. harnesses * workers \in Nat /\ harnesses * workers <= npipes * workers
      BY <1>0, <1>1, GroupsMonotonic
    <3>2. npipes * workers \in Nat
      BY <1>0
    <3>3. QED
      BY <1>0, <3>1, <3>2
  <2>2. d \in Nat /\ d * harnesses <= ncpu
    BY <1>0, DivBound
  <2>3. threads' = 2 * d /\ npipes' = harnesses /\ UNCHANGED <<ncpu, workers, harnesses>>
    BY <1>1 DEF CapPipes, ScaledThreads
  <2> HIDE DEF d
  <2>4. harnesses * (2 * d) = 2 * (d * harnesses) /\ d * harnesses \in Nat /\ 2 * d \in Nat
    BY <1>0, <2>2
  <2>5. harnesses * (2 * d) <= 2 * ncpu
    BY <1>0, <2>2, <2>4
  <2>6. SizingTypeOK'
    BY <1>0, <2>3, <2>4 DEF SizingInv, SizingTypeOK, CapPipes
  <2>7. QED
    BY <1>0, <2>1, <2>3, <2>5, <2>6 DEF SizingInv, CapPipes, Split
<1>2. CASE ~(npipes > harnesses)
  BY <1>2 DEF SizingInv, SizingTypeOK, CapPipes, Split
<1>3. QED
  BY <1>1, <1>2

(* The invariant holds of every sizing, for all options and harnesses.     *)
THEOREM SizingInvariance == SizingSpec => []SizingInv
<1>1. SizingInv /\ [SizingNext]_sizingVars => SizingInv'
  <2>1. SizingInv /\ (NothingToDo \/ UNCHANGED sizingVars) => SizingInv'
    BY DEF SizingInv, SizingTypeOK, Split, NothingToDo, sizingVars
  <2>2. QED
    BY <2>1, SplitKeeps, CapKeeps DEF SizingNext
<1>2. QED
  BY <1>1, InitSizingInv, PTL DEF SizingSpec

(* The CPUs of every pipe exist, on every machine and in every campaign.   *)
THEOREM CpuBudget == SizingSpec => []CpusInBudget
<1>1. SizingInv => CpusInBudget
  <2> SUFFICES ASSUME SizingInv, Sized, NEW p \in 0 .. npipes - 1
               PROVE  npipes >= 1 /\ workers * p + workers - 1 < ncpu
    BY DEF CpusInBudget, SizingInv, Split, Sized
  <2>1. /\ npipes \in Nat /\ workers \in Nat \ {0} /\ ncpu \in Nat \ {0}
        /\ npipes >= 1 /\ npipes * workers <= ncpu /\ p \in Nat /\ p + 1 <= npipes
    BY DEF SizingInv, SizingTypeOK, Split, Sized
  <2>2. (p + 1) * workers <= npipes * workers
    BY <2>1, GroupsMonotonic
  <2>3. (p + 1) * workers = workers * p + workers /\ workers * p \in Nat /\ npipes * workers \in Nat
    BY <2>1
  <2>4. QED
    BY <2>1, <2>2, <2>3
<1>2. QED
  BY <1>1, SizingInvariance, PTL

(* The builds never oversubscribe the machine by more than two.            *)
THEOREM BuildBudget == SizingSpec => []BuildsInBudget
<1>1. SizingInv => BuildsInBudget
  BY DEF SizingInv, BuildsInBudget, Sized, Split
<1>2. QED
  BY <1>1, SizingInvariance, PTL

-----------------------------------------------------------------------------
(* Sizing wastes no pipe.  That the present npipes are maximal is inductive *)
(* beside SizingInv: before the cap they fill the machine up to the CPUs   *)
(* kept free, and the cap leaves a pipe for every harness.                 *)
Filled ==
    Split /\ workers < ncpu =>
        /\ npipes = harnesses \/ (npipes + 1) * workers > ncpu - 2
        /\ npipes > 1 => npipes * workers <= ncpu - 2

(* Splitting fills the machine; with few CPUs no pipe is left over.        *)
LEMMA SplitFills == SizingInv /\ (FewCpus \/ SplitCpus) => Filled'
<1> SUFFICES ASSUME SizingInv, FewCpus \/ SplitCpus
             PROVE  Filled'
  OBVIOUS
<1>1. CASE FewCpus
  BY <1>1 DEF FewCpus, Filled, SizingInv, SizingTypeOK
<1>2. CASE SplitCpus
  <2>1. /\ ncpu \in Nat \ {0} /\ workers \in Nat \ {0} /\ workers <= ncpu
        /\ ncpu' = ncpu /\ workers' = workers /\ npipes' = PipesFitting(ncpu, workers)
    BY <1>2 DEF SizingInv, SizingTypeOK, SplitCpus
  <2>2. /\ npipes' > 1 => npipes' * workers' <= ncpu' - 2
        /\ workers' < ncpu' => (npipes' + 1) * workers' > ncpu' - 2
    BY <2>1, PipesFittingFacts
  <2>3. QED
    BY <2>2 DEF Filled
<1>3. QED
  BY <1>1, <1>2

(* The cap takes npipes away only to leave one for every harness.           *)
LEMMA CapFills == SizingInv /\ Filled /\ CapPipes => Filled'
<1> SUFFICES ASSUME SizingInv, Filled, CapPipes
             PROVE  Filled'
  OBVIOUS
<1>1. /\ workers \in Nat \ {0} /\ npipes \in Nat /\ harnesses \in Nat \ {0} /\ ncpu \in Nat
      /\ Split /\ UNCHANGED <<harnesses, ncpu, workers>>
  BY DEF SizingInv, SizingTypeOK, CapPipes, Split
<1>2. CASE npipes > harnesses
  <2>1. npipes' = harnesses
    BY <1>2 DEF CapPipes
  <2>2. harnesses * workers \in Nat /\ npipes * workers \in Nat
        /\ harnesses * workers <= npipes * workers
    BY <1>1, <1>2, GroupsMonotonic
  <2>3. workers < ncpu /\ harnesses > 1 => npipes * workers <= ncpu - 2
    BY <1>1, <1>2 DEF Filled
  <2>4. workers < ncpu /\ harnesses > 1 => harnesses * workers <= ncpu - 2
    BY <1>1, <2>2, <2>3
  <2>5. QED
    BY <1>1, <2>1, <2>4 DEF Filled
<1>3. CASE ~(npipes > harnesses)
  BY <1>1, <1>3 DEF CapPipes, Filled, Split
<1>4. QED
  BY <1>2, <1>3

(* With enough CPUs, every harness has a pipe or no further one fits, and  *)
(* several npipes leave the two CPUs free (pipeline.py:398-403).            *)
THEOREM MaximalPipes == SizingSpec => []PipesMaximal
<1>1. SizingInit => SizingInv /\ Filled
  BY InitSizingInv DEF SizingInit, Filled, Split
<1>2. SizingInv /\ Filled /\ (NothingToDo \/ UNCHANGED sizingVars) => Filled'
  BY DEF Filled, Split, NothingToDo, sizingVars
<1>3. SizingInv /\ SizingInv' /\ Filled /\ [SizingNext]_sizingVars => Filled'
  BY <1>2, SplitFills, CapFills DEF SizingNext
<1>4. Filled => PipesMaximal
  BY DEF Filled, PipesMaximal, Split, Sized
<1>5. QED
  BY <1>1, <1>3, <1>4, SizingInvariance, PTL DEF SizingSpec
=============================================================================
