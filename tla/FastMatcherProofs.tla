-------------------------- MODULE FastMatcherProofs --------------------------
(***************************************************************************)
(* Theorems about FastMatcher, for any traces, threads and ranges, about   *)
(* TraceReader, for any file that a thread reads, and about PathNames, for *)
(* any names of files.                                                     *)
(***************************************************************************)
EXTENDS FastMatcher, TraceReader, PathNames, SequenceTheorems,
        FiniteSetTheorems, TLAPS

-----------------------------------------------------------------------------
(* The inductive invariant.  Every trace is in one place; a thread past    *)
(* the pull holds one; the lock is held by the thread that inserts; the    *)
(* database holds the counted traces and what the inserting thread has     *)
(* inserted so far; a thread returns only once the queue is empty.         *)

Busy(w) == stage[w] \in {"read", "lock", "insert"}

Holds ==
    /\ \A w \in Threads : current[w] # Nobody <=> Busy(w)
    /\ \A w \in Threads : stage[w] = "lock" => rest[w] = Covers[current[w]]
    /\ \A w \in Threads : stage[w] = "insert" => rest[w] \subseteq Covers[current[w]]

Locked == \A w \in Threads : stage[w] = "insert" <=> writer = w

Database ==
    \A a \in Addrs :
        a \in db <=> \/ \E t \in counted : a \in Covers[t]
                     \/ \E w \in Threads : /\ stage[w] = "insert"
                                           /\ a \in Covers[current[w]]
                                           /\ a \notin rest[w]

Drained == \A w \in Threads : stage[w] = "exit" => queue = <<>>

Reported ==
    /\ main # "join" => Joined
    /\ reported => report = db

MatcherInv ==
    /\ TypeOK /\ TracesPartitioned /\ Holds /\ Locked /\ Database /\ Drained /\ Reported

USE DEF vmlinux, reported

-----------------------------------------------------------------------------
(* Taking the first element of a queue without repetitions.                *)
LEMMA TailFacts ==
    ASSUME NEW S, NEW q \in Seq(S), q # <<>>,
           \A i, j \in DOMAIN q : i # j => q[i] # q[j]
    PROVE  /\ Head(q) \in S /\ Tail(q) \in Seq(S)
           /\ {Tail(q)[i] : i \in DOMAIN Tail(q)} = {q[i] : i \in DOMAIN q} \ {Head(q)}
           /\ Head(q) \in {q[i] : i \in DOMAIN q}
           /\ \A i, j \in DOMAIN Tail(q) : i # j => Tail(q)[i] # Tail(q)[j]
<1>1. /\ Len(q) \in Nat \ {0} /\ DOMAIN q = 1 .. Len(q)
      /\ Head(q) = q[1] /\ Tail(q) \in Seq(S) /\ Len(Tail(q)) = Len(q) - 1
      /\ \A i \in 1 .. Len(Tail(q)) : Tail(q)[i] = q[i + 1]
  BY HeadTailProperties, LenProperties, EmptySeq
<1>2. DOMAIN Tail(q) = 1 .. Len(q) - 1
  BY <1>1, LenProperties
<1>3. Head(q) \in S /\ Head(q) \in {q[i] : i \in DOMAIN q}
  BY <1>1, ElementOfSeq
<1>4. \A i, j \in DOMAIN Tail(q) : i # j => Tail(q)[i] # Tail(q)[j]
  BY <1>1, <1>2
<1>5. {Tail(q)[i] : i \in DOMAIN Tail(q)} \subseteq {q[i] : i \in DOMAIN q} \ {Head(q)}
  BY <1>1, <1>2
<1>6. ASSUME NEW i \in DOMAIN q, q[i] # Head(q)
      PROVE  q[i] \in {Tail(q)[k] : k \in DOMAIN Tail(q)}
  <2>1. i - 1 \in DOMAIN Tail(q) /\ Tail(q)[i - 1] = q[i]
    BY <1>1, <1>2, <1>6
  <2>2. QED
    BY <2>1
<1>7. QED
  BY <1>1, <1>3, <1>4, <1>5, <1>6

(* The queue is filled with each trace once; no thread has begun.          *)
LEMMA InitMatcherInv == Init => MatcherInv
<1> SUFFICES ASSUME Init
             PROVE  MatcherInv
  OBVIOUS
<1> USE MatcherAssumption
<1> DEFINE n == Cardinality(Traces)
<1>1. n \in Nat /\ queue \in [1 .. n -> Traces]
  BY FS_CardinalityType DEF Init
<1>2. TypeOK
  <2>1. queue \in Seq(Traces)
    BY <1>1, SeqDef
  <2>2. QED
    BY <2>1 DEF Init, TypeOK
<1>3. Queued = Traces
  <2>1. queue \in Injection(1 .. n, Traces)
    BY <1>1 DEF Init, Injection, IsInjective
  <2>2. IsFiniteSet(1 .. n) /\ Cardinality(1 .. n) = n
    BY <1>1, FS_Interval
  <2>3. queue \in Surjection(1 .. n, Traces)
    BY <2>1, <2>2, FS_Injection
  <2>4. QED
    BY <1>1, <2>3 DEF Surjection, Queued
<1>4. TracesPartitioned
  BY <1>3 DEF Init, TracesPartitioned, Held
<1>5. Holds /\ Locked /\ Database /\ Drained /\ Reported
  BY DEF Init, reported, Holds, Busy, Locked, Database, Drained, Reported
<1>6. QED
  BY <1>2, <1>4, <1>5 DEF MatcherInv

-----------------------------------------------------------------------------
(* A thread parses the debug information, or panics over it.               *)
LEMMA BeginKeeps ==
    ASSUME NEW w \in Threads, MatcherInv, Begin(w)
    PROVE  MatcherInv'
<1>1. stage' \in [Threads -> {"start", "pull", "read", "lock", "insert", "exit", "panic"}]
  BY DEF MatcherInv, TypeOK, Begin
<1>2. TypeOK' /\ Queued' = Queued /\ Held' = Held
  BY <1>1 DEF MatcherInv, TypeOK, Begin, Queued, Held
<1>3. TracesPartitioned'
  BY <1>2 DEF MatcherInv, TracesPartitioned, Begin
<1>4. Holds' /\ Locked'
  BY DEF Holds, Busy, Locked, MatcherInv, TypeOK, Begin
<1>5. Database'
  BY DEF Database, MatcherInv, TypeOK, Begin
<1>6. Drained' /\ Reported'
  BY DEF Drained, Reported, Joined, MatcherInv, TypeOK, Begin
<1>7. QED
  BY <1>2, <1>3, <1>4, <1>5, <1>6 DEF MatcherInv

(* A thread takes the first file of the queue.                             *)
LEMMA PullKeeps ==
    ASSUME NEW w \in Threads, MatcherInv, Pull(w)
    PROVE  MatcherInv'
<1> USE MatcherAssumption
<1> DEFINE t == Head(queue)
<1>1. /\ t \in Traces /\ queue' \in Seq(Traces)
      /\ Queued' = Queued \ {t} /\ t \in Queued
      /\ \A i, j \in DOMAIN queue' : i # j => queue'[i] # queue'[j]
  <2>1. queue \in Seq(Traces) /\ queue # <<>> /\ queue' = Tail(queue)
        /\ \A i, j \in DOMAIN queue : i # j => queue[i] # queue[j]
    BY DEF MatcherInv, TypeOK, TracesPartitioned, Pull, Pulled
  <2> DEFINE q == Tail(queue)
  <2>2. /\ t \in Traces /\ q \in Seq(Traces)
        /\ {q[i] : i \in DOMAIN q} = {queue[i] : i \in DOMAIN queue} \ {t}
        /\ t \in {queue[i] : i \in DOMAIN queue}
        /\ \A i, j \in DOMAIN q : i # j => q[i] # q[j]
    BY <2>1, TailFacts
  <2>3. queue' = q
    BY <2>1
  <2> HIDE DEF q
  <2>4. QED
    BY <2>2, <2>3 DEF Queued
<1>2. TypeOK'
  BY <1>1 DEF MatcherInv, TypeOK, Pull
<1>3. current' = [current EXCEPT ![w] = t] /\ current[w] = Nobody /\ t # Nobody
  BY <1>1 DEF MatcherInv, Holds, Busy, Pull
<1>4. Held' = Held \cup {t}
  BY <1>1, <1>3 DEF Held, MatcherInv, TypeOK
<1>5. TracesPartitioned'
  BY <1>1, <1>3, <1>4 DEF TracesPartitioned, MatcherInv, TypeOK, Pull, Held
<1>6. Holds' /\ Locked'
  BY <1>1, <1>3 DEF Holds, Busy, Locked, MatcherInv, TypeOK, Pull
<1>7. Database'
  BY <1>3 DEF Database, MatcherInv, TypeOK, Pull
<1>8. Drained' /\ Reported'
  BY DEF Drained, Reported, Joined, MatcherInv, TypeOK, Pull
<1>9. QED
  BY <1>2, <1>5, <1>6, <1>7, <1>8 DEF MatcherInv

(* The reader of a file returns, or panics, or the thread has none to read;*)
(* or it gets the lock.  None of these touches the queue or the database.  *)
LEMMA ReadKeeps ==
    ASSUME NEW w \in Threads, MatcherInv, Return(w) \/ Read(w) \/ Panic(w) \/ Lock(w)
    PROVE  MatcherInv'
<1> USE MatcherAssumption
<1>1. CASE Return(w)
  <2>1. TypeOK' /\ Queued' = Queued /\ Held' = Held
    BY <1>1 DEF MatcherInv, TypeOK, Return, Queued, Held
  <2>2. TracesPartitioned'
    BY <1>1, <2>1 DEF MatcherInv, TracesPartitioned, Return
  <2>3. Holds' /\ Locked'
    BY <1>1 DEF Holds, Busy, Locked, MatcherInv, TypeOK, Return
  <2>4. Database' /\ Drained' /\ Reported'
    BY <1>1 DEF Database, Drained, Reported, Joined, MatcherInv, TypeOK, Return
  <2>5. QED
    BY <2>1, <2>2, <2>3, <2>4 DEF MatcherInv
<1>2. CASE Read(w)
  <2>1. current[w] \in Traces /\ Covers[current[w]] \subseteq Addrs
    BY <1>2 DEF MatcherInv, TypeOK, Holds, Busy, Read
  <2>2. TypeOK' /\ Queued' = Queued /\ Held' = Held
    BY <1>2, <2>1 DEF MatcherInv, TypeOK, Read, Queued, Held
  <2>3. TracesPartitioned'
    BY <1>2, <2>2 DEF MatcherInv, TracesPartitioned, Read
  <2>4. Holds' /\ Locked'
    BY <1>2 DEF Holds, Busy, Locked, MatcherInv, TypeOK, Read
  <2>5. Database' /\ Drained' /\ Reported'
    BY <1>2 DEF Database, Drained, Reported, Joined, MatcherInv, TypeOK, Read
  <2>6. QED
    BY <2>2, <2>3, <2>4, <2>5 DEF MatcherInv
<1>3. CASE Panic(w)
  <2> DEFINE t == current[w]
  <2>1. t \in Traces /\ t # Nobody
    BY <1>3 DEF MatcherInv, TypeOK, Holds, Busy, Panic
  <2>2. current' = [current EXCEPT ![w] = Nobody]
    BY <1>3 DEF Panic
  <2>3. Held' = Held \ {t} /\ t \in Held /\ Queued' = Queued
    BY <1>3, <2>1, <2>2 DEF MatcherInv, TypeOK, TracesPartitioned, Held, Queued, Panic
  <2>4. TypeOK'
    BY <1>3, <2>1 DEF MatcherInv, TypeOK, Panic
  <2>5. TracesPartitioned'
    BY <1>3, <2>1, <2>2, <2>3 DEF MatcherInv, TypeOK, TracesPartitioned, Panic
  <2>6. Holds' /\ Locked'
    BY <1>3, <2>2 DEF Holds, Busy, Locked, MatcherInv, TypeOK, Panic
  <2>7. Database' /\ Drained' /\ Reported'
    BY <1>3, <2>2 DEF Database, Drained, Reported, Joined, MatcherInv, TypeOK, Panic
  <2>8. QED
    BY <2>4, <2>5, <2>6, <2>7 DEF MatcherInv
<1>4. CASE Lock(w)
  <2>1. TypeOK' /\ Queued' = Queued /\ Held' = Held
    BY <1>4 DEF MatcherInv, TypeOK, Lock, Queued, Held
  <2>2. TracesPartitioned'
    BY <1>4, <2>1 DEF MatcherInv, TracesPartitioned, Lock
  <2>3. Holds' /\ Locked'
    BY <1>4 DEF Holds, Busy, Locked, MatcherInv, TypeOK, Lock
  <2>4. Database'
    BY <1>4 DEF Database, Holds, MatcherInv, TypeOK, Lock
  <2>5. Drained' /\ Reported'
    BY <1>4 DEF Drained, Reported, Joined, MatcherInv, TypeOK, Lock
  <2>6. QED
    BY <2>1, <2>2, <2>3, <2>4, <2>5 DEF MatcherInv
<1>5. QED
  BY <1>1, <1>2, <1>3, <1>4

(* Under the lock, what a thread inserts moves from the rest of its trace  *)
(* to the database; with nothing left the trace counts as a whole.         *)
LEMMA InsertKeeps ==
    ASSUME NEW w \in Threads, MatcherInv, Insert(w) \/ Unlock(w)
    PROVE  MatcherInv'
<1> USE MatcherAssumption
<1> DEFINE t == current[w]
<1>1. /\ stage[w] = "insert" /\ t \in Traces /\ t # Nobody
      /\ rest[w] \subseteq Covers[t] /\ Covers[t] \subseteq Addrs
      /\ \A v \in Threads : stage[v] = "insert" => v = w
  BY DEF MatcherInv, TypeOK, Holds, Busy, Locked, Insert, Unlock
<1>2. CASE Insert(w)
  <2>1. PICK S \in SUBSET rest[w] : db' = db \cup S /\ rest' = [rest EXCEPT ![w] = @ \ S]
    BY <1>2 DEF Insert, Inserted
  <2>2. TypeOK' /\ Queued' = Queued /\ Held' = Held
    BY <1>1, <1>2, <2>1 DEF MatcherInv, TypeOK, Insert, Queued, Held
  <2>3. TracesPartitioned'
    BY <1>2, <2>2 DEF MatcherInv, TracesPartitioned, Insert
  <2>4. Holds' /\ Locked'
    BY <1>1, <1>2, <2>1 DEF Holds, Busy, Locked, MatcherInv, TypeOK, Insert
  <2>5. Database'
    BY <1>1, <1>2, <2>1 DEF Database, MatcherInv, TypeOK, Insert
  <2>6. Drained' /\ Reported'
    BY <1>1, <1>2 DEF Drained, Reported, Joined, MatcherInv, TypeOK, Insert
  <2>7. QED
    BY <2>2, <2>3, <2>4, <2>5, <2>6 DEF MatcherInv
<1>3. CASE Unlock(w)
  <2>1. current' = [current EXCEPT ![w] = Nobody] /\ counted' = counted \cup {t}
    BY <1>3 DEF Unlock
  <2>2. Held' = Held \ {t} /\ t \in Held /\ Queued' = Queued
    BY <1>1, <1>3, <2>1 DEF MatcherInv, TypeOK, TracesPartitioned, Held, Queued, Unlock
  <2>3. TypeOK'
    BY <1>1, <1>3 DEF MatcherInv, TypeOK, Unlock
  <2>4. TracesPartitioned'
    BY <1>1, <1>3, <2>1, <2>2 DEF MatcherInv, TypeOK, TracesPartitioned, Unlock
  <2>5. Holds' /\ Locked'
    BY <1>1, <1>3, <2>1 DEF Holds, Busy, Locked, MatcherInv, TypeOK, Unlock
  <2>6. Database'
    BY <1>1, <1>3, <2>1 DEF Database, MatcherInv, TypeOK, Unlock
  <2>7. Drained' /\ Reported'
    BY <1>1, <1>3 DEF Drained, Reported, Joined, MatcherInv, TypeOK, Unlock
  <2>8. QED
    BY <2>3, <2>4, <2>5, <2>6, <2>7 DEF MatcherInv
<1>4. QED
  BY <1>2, <1>3

(* Every step of a thread or of the main thread keeps the invariant.       *)
LEMMA NextMatcherInv == MatcherInv /\ [Next]_vars => MatcherInv'
<1> SUFFICES ASSUME MatcherInv, [Next]_vars
             PROVE  MatcherInv'
  OBVIOUS
<1>1. ASSUME NEW w \in Threads, Work(w)
      PROVE  MatcherInv'
  BY <1>1, BeginKeeps, PullKeeps, ReadKeeps, InsertKeeps DEF Work
<1>2. CASE Report \/ Crash
  <2>1. TypeOK' /\ Queued' = Queued /\ Held' = Held
    BY <1>2 DEF MatcherInv, TypeOK, Report, Crash, Queued, Held
  <2>2. TracesPartitioned'
    BY <1>2, <2>1 DEF MatcherInv, TracesPartitioned, Report, Crash
  <2>3. Holds' /\ Locked' /\ Database' /\ Drained'
    BY <1>2 DEF Holds, Busy, Locked, Database, Drained, MatcherInv, Report, Crash
  <2>4. Reported'
    BY <1>2 DEF Reported, Joined, Report, Crash
  <2>5. QED
    BY <2>1, <2>2, <2>3, <2>4 DEF MatcherInv
<1>3. CASE UNCHANGED vars
  <2>1. TypeOK' /\ Queued' = Queued /\ Held' = Held
    BY <1>3 DEF MatcherInv, TypeOK, vars, Queued, Held
  <2>2. TracesPartitioned'
    BY <1>3, <2>1 DEF MatcherInv, TracesPartitioned, vars
  <2>3. Holds' /\ Locked' /\ Database' /\ Drained'
    BY <1>3 DEF Holds, Busy, Locked, Database, Drained, MatcherInv, vars
  <2>4. Reported'
    BY <1>3 DEF Reported, Joined, MatcherInv, vars
  <2>5. QED
    BY <2>1, <2>2, <2>3, <2>4 DEF MatcherInv
<1>4. QED
  BY <1>1, <1>2, <1>3 DEF Next, Ended

(* The invariant holds in every reachable state.                           *)
THEOREM MatcherInvariance == Spec => []MatcherInv
<1>1. QED
  BY InitMatcherInv, NextMatcherInv, PTL DEF Spec

(* Every variable keeps its type.                                          *)
THEOREM TypeCorrectness == Spec => []TypeOK
<1>1. MatcherInv => TypeOK
  BY DEF MatcherInv
<1>2. QED
  BY <1>1, MatcherInvariance, PTL

(* For any number of threads, no trace is forgotten or worked on twice.    *)
THEOREM Partition == Spec => []TracesPartitioned
<1>1. MatcherInv => TracesPartitioned
  BY DEF MatcherInv
<1>2. QED
  BY <1>1, MatcherInvariance, PTL

(* The report is the union of the traces that were read, whatever the      *)
(* threads interleave; only panics make it incomplete.                     *)
THEOREM ReportExactness == Spec => []ReportExact
<1>1. MatcherInv => ReportExact
  <2> SUFFICES ASSUME MatcherInv, reported
               PROVE  /\ report = UNION {Covers[t] : t \in counted}
                      /\ Traces \ counted = lost \cup Queued
                      /\ Queued # {} => AllPanicked
    BY DEF ReportExact
  <2>1. Joined /\ report = db
    BY DEF MatcherInv, Reported
  <2>2. Held = {}
    BY <2>1 DEF MatcherInv, Holds, Busy, Joined, Held
  <2>3. \A a \in Addrs : a \in db <=> \E t \in counted : a \in Covers[t]
    BY <2>1 DEF MatcherInv, Database, Joined
  <2>4. db \subseteq Addrs /\ \A t \in counted : Covers[t] \subseteq Addrs
    BY MatcherAssumption DEF MatcherInv, TypeOK
  <2>5. report = UNION {Covers[t] : t \in counted}
    BY <2>1, <2>3, <2>4
  <2>6. Traces \ counted = lost \cup Queued
    BY <2>2 DEF MatcherInv, TracesPartitioned
  <2>7. Queued # {} => AllPanicked
    BY <2>1 DEF MatcherInv, Drained, Joined, AllPanicked, Queued
  <2>8. QED
    BY <2>5, <2>6, <2>7
<1>2. QED
  BY <1>1, MatcherInvariance, PTL

-----------------------------------------------------------------------------
(* The refinement.                                                         *)

Fate == [t \in Traces |-> IF t \in counted THEN "counted"
                          ELSE IF t \in lost \/ (t \in Queued /\ AllPanicked) THEN "lost"
                          ELSE "open"]

(* A trace held by a thread is open: its thread has not panicked.          *)
LEMMA HeldOpen ==
    ASSUME NEW w \in Threads, MatcherInv, Busy(w)
    PROVE  /\ current[w] \in Traces /\ Fate[current[w]] = "open"
           /\ ~reported /\ ~AllPanicked
<1>1. current[w] \in Traces /\ current[w] # Nobody
  BY DEF MatcherInv, TypeOK, Holds
<1>2. current[w] \in Held
  BY <1>1 DEF Held
<1>3. current[w] \notin counted /\ current[w] \notin lost
  BY <1>2 DEF MatcherInv, TracesPartitioned
<1>4. ~reported /\ ~AllPanicked
  BY DEF Busy, MatcherInv, Reported, Joined, AllPanicked
<1>5. QED
  BY <1>1, <1>3, <1>4 DEF Fate

(* Inserting the last range of a trace counts it.                          *)
LEMMA UnlockCounts ==
    ASSUME NEW w \in Threads, MatcherInv, Unlock(w)
    PROVE  Union!Count(current[w]) /\ current[w] \in Traces
<1> DEFINE t == current[w]
<1>1. t \in Traces /\ Fate[t] = "open" /\ ~reported /\ ~AllPanicked
  BY HeldOpen DEF Busy, Unlock
<1>2. counted' = counted \cup {t} /\ lost' = lost /\ UNCHANGED <<reported, report>>
  BY DEF Unlock
<1>3. ~AllPanicked'
  BY DEF Unlock, AllPanicked, MatcherInv, TypeOK
<1>4. Fate' = [Fate EXCEPT ![t] = "counted"]
  BY <1>1, <1>2, <1>3 DEF Fate
<1>5. QED
  BY <1>1, <1>2, <1>4 DEF Union!Count, Fate

(* A panic loses the trace of the thread, if it has one, and, of the last  *)
(* thread, also those still queued.                                        *)
LEMMA PanicLoses ==
    ASSUME NEW w \in Threads, MatcherInv, Begin(w) \/ Panic(w)
    PROVE  Union!Lose
<1> DEFINE S == {t \in Traces : Fate[t] = "open" /\ Fate'[t] = "lost"}
<1>1. ~reported /\ ~AllPanicked
  BY DEF Begin, Panic, MatcherInv, Reported, Joined, AllPanicked
<1>2. /\ lost \subseteq lost' /\ counted' = counted /\ Queued' = Queued
      /\ UNCHANGED <<reported, report>>
  BY DEF Begin, Panic, Queued
<1>3. Fate' = [t \in Traces |-> IF t \in S THEN "lost" ELSE Fate[t]]
  BY <1>1, <1>2 DEF Fate
<1>4. S \in SUBSET {t \in Traces : Fate[t] = "open"}
  OBVIOUS
<1> HIDE DEF S
<1>5. QED
  BY <1>1, <1>2, <1>3, <1>4 DEF Union!Lose, Fate

(* The main thread publishes the union of the counted traces.              *)
LEMMA ReportPublishes ==
    ASSUME MatcherInv, Report
    PROVE  Union!Publish
<1>1. Held = {}
  BY DEF MatcherInv, Holds, Busy, Joined, Held, Report
<1>2. Queued # {} => AllPanicked
  BY DEF MatcherInv, Drained, Joined, AllPanicked, Queued, Report
<1>3. \A t \in Traces : Fate[t] # "open"
  BY <1>1, <1>2 DEF Fate, MatcherInv, TracesPartitioned
<1>4. \A a \in Addrs : a \in db <=> \E t \in counted : a \in Covers[t]
  BY DEF MatcherInv, Database, Joined, Report
<1>5. counted = {u \in Traces : Fate[u] = "counted"}
  BY DEF Fate, MatcherInv, TypeOK
<1>6. db \subseteq Addrs /\ \A t \in counted : Covers[t] \subseteq Addrs
  BY MatcherAssumption DEF MatcherInv, TypeOK
<1>7. db = UNION {Covers[t] : t \in {u \in Traces : Fate[u] = "counted"}}
  BY <1>4, <1>5, <1>6
<1>8. Fate' = Fate /\ ~reported /\ reported' = TRUE /\ report' = db
  BY DEF Report, Fate, Queued, AllPanicked
<1>9. QED
  BY <1>3, <1>7, <1>8 DEF Union!Publish, Fate

(* The other steps of a thread settle nothing.                             *)
LEMMA OthersSettleNothing ==
    ASSUME NEW w \in Threads, MatcherInv,
           Pull(w) \/ Return(w) \/ Read(w) \/ Lock(w) \/ Insert(w)
    PROVE  Fate' = Fate /\ UNCHANGED <<reported, report>>
<1>1. ~AllPanicked /\ ~AllPanicked'
  BY DEF Pull, Return, Read, Lock, Insert, AllPanicked, MatcherInv, TypeOK
<1>2. counted' = counted /\ lost' = lost /\ UNCHANGED <<reported, report>>
  BY DEF Pull, Return, Read, Lock, Insert
<1>3. QED
  BY <1>1, <1>2 DEF Fate

(* For any traces, threads and ranges, the threads and the lock implement  *)
(* a union of whole traces, each settled once.                             *)
THEOREM UnionRefinement == Spec => UnionImplemented
<1>1. Init => Union!UnionInit
  <2> SUFFICES ASSUME Init
               PROVE  Union!UnionInit
    OBVIOUS
  <2>1. ~AllPanicked /\ counted = {} /\ lost = {}
    BY MatcherAssumption DEF Init, AllPanicked
  <2>2. QED
    BY <2>1 DEF Init, Union!UnionInit
<1>2. MatcherInv /\ [Next]_vars => [Union!UnionNext]_(Union!unionVars)
  <2> SUFFICES ASSUME MatcherInv, [Next]_vars
               PROVE  [Union!UnionNext]_(Union!unionVars)
    OBVIOUS
  <2>1. ASSUME NEW w \in Threads, Unlock(w)
        PROVE  Union!UnionNext
    <3>1. Union!Count(current[w]) /\ current[w] \in Traces
      BY <2>1, UnlockCounts
    <3>2. \E t \in Traces : Union!Count(t)
      BY <3>1 DEF Union!Count
    <3>3. QED
      BY <3>2 DEF Union!UnionNext
  <2>2. ASSUME NEW w \in Threads, Begin(w) \/ Panic(w)
        PROVE  Union!UnionNext
    BY <2>2, PanicLoses DEF Union!UnionNext
  <2>3. CASE Report
    BY <2>3, ReportPublishes DEF Union!UnionNext
  <2>4. ASSUME NEW w \in Threads,
               Pull(w) \/ Return(w) \/ Read(w) \/ Lock(w) \/ Insert(w)
        PROVE  UNCHANGED Union!unionVars
    BY <2>4, OthersSettleNothing DEF Fate, Union!unionVars
  <2>5. CASE Crash \/ UNCHANGED vars
    <3>1. Queued' = Queued /\ AllPanicked' = AllPanicked
      BY <2>5 DEF Crash, vars, Queued, AllPanicked
    <3>2. Fate' = Fate /\ UNCHANGED <<reported, report>>
      BY <2>5, <3>1 DEF Crash, vars, Fate
    <3>3. QED
      BY <3>2 DEF Fate, Union!unionVars
  <2>6. QED
    BY <2>1, <2>2, <2>3, <2>4, <2>5 DEF Next, Work, Ended
<1>3. QED
  BY <1>1, <1>2, MatcherInvariance, PTL DEF Spec, UnionImplemented, Union!UnionSpec

HIDE DEF vmlinux, reported

-----------------------------------------------------------------------------
(* What a thread reads: TraceReader, for files of any length over any      *)
(* addresses.                                                              *)

\* The destination of the last edge of a list.
LastDst(edges) == IF edges = <<>> THEN None ELSE edges[Len(edges)][2]

ReaderTypeOK ==
    /\ file \in Seq(Lines)
    /\ next \in 1 .. Len(file) + 1
    /\ status \in {"reading", "done", "panic"}
    /\ held \in Nodes \cup {None}
    /\ used \in Seq(Edges)

\* An edge is held exactly from its first half on, which is the line before.
HeldIsHalf ==
    status = "reading" /\ held # None =>
        next > 1 /\ file[next - 1] \in Edges /\ file[next - 1][2] = PT

\* The edges read are the lines read, as long as none of them is cut short.
ReadInOrder ==
    status = "reading" /\ (\A i \in 1 .. next - 1 : file[i] # Short) =>
        /\ Len(used) = next - 1
        /\ \A i \in 1 .. next - 1 : used[i] = file[i]

\* The ranges lack of the lines read what the held source still adds.
CoveredSoFar ==
    LET more == IF held = None THEN {} ELSE {held} \cup Between(prev, held)
    IN  (ranges \cup more) \ {PT} = Covered(used) \ {PT}

PrevIsLast ==
    LastDst(used) = IF held = None THEN prev ELSE PT

ReaderInv ==
    /\ ReaderTypeOK /\ HeldIsHalf /\ ReadInOrder
    /\ status # "panic" => CoveredSoFar /\ PrevIsLast
    /\ TraceRead

(* Nothing lies between an address and the token, or before the first edge. *)
LEMMA BetweenFacts ==
    /\ \A s : Between(PT, s) = {}
    /\ \A d : Between(d, PT) = {}
    /\ \A s : Between(None, s) = {}
<1>1. MaxAddr \in Nat /\ SameFunc \subseteq (1 .. MaxAddr) \X (1 .. MaxAddr)
  BY ReaderAssumption DEF Addresses
<1>2. \A d, s : <<d, s>> \in SameFunc => d \in 1 .. MaxAddr /\ s \in 1 .. MaxAddr
  BY <1>1
<1>3. MaxAddr + 1 \notin 1 .. MaxAddr /\ 0 \notin 1 .. MaxAddr
  BY <1>1
<1>4. QED
  BY <1>2, <1>3 DEF Between, PT, None

(* What one more edge adds to what a list of edges covers.                 *)
LEMMA CoveredAppend ==
    ASSUME NEW u \in Seq(Edges), NEW e \in Edges
    PROVE  /\ Append(u, e) \in Seq(Edges)
           /\ LastDst(Append(u, e)) = e[2]
           /\ Covered(Append(u, e)) =
                Covered(u) \cup {e[1], e[2]} \cup Between(LastDst(u), e[1])
<1> DEFINE v == Append(u, e)
           n == Len(u)
<1>1. /\ n \in Nat /\ v \in Seq(Edges) /\ Len(v) = n + 1
      /\ v[n + 1] = e /\ \A i \in 1 .. n : v[i] = u[i]
      /\ DOMAIN u = 1 .. n /\ DOMAIN v = 1 .. n + 1
  BY AppendProperties, LenProperties
<1>2. v # <<>> /\ LastDst(v) = e[2]
  BY <1>1, EmptySeq DEF LastDst
<1> DEFINE ends(s) == UNION {{s[i][1], s[i][2]} : i \in DOMAIN s}
           gaps(s) == UNION {Between(s[i][2], s[i + 1][1]) : i \in 1 .. Len(s) - 1}
<1>3. ends(v) = ends(u) \cup {e[1], e[2]}
  <2>1. \A i \in DOMAIN v : (i \in DOMAIN u /\ v[i] = u[i]) \/ (i = n + 1 /\ v[i] = e)
    BY <1>1
  <2>2. \A i \in DOMAIN u : i \in DOMAIN v /\ v[i] = u[i]
    BY <1>1
  <2>3. n + 1 \in DOMAIN v
    BY <1>1
  <2> HIDE DEF v, n
  <2>4. QED
    BY <1>1, <2>1, <2>2, <2>3
<1>4. gaps(v) = gaps(u) \cup Between(LastDst(u), e[1])
  <2>1. CASE u = <<>>
    <3>1. n = 0 /\ LastDst(u) = None
      BY <2>1, EmptySeq DEF LastDst
    <3>2. gaps(v) = {} /\ gaps(u) = {}
      BY <1>1, <3>1
    <3>3. QED
      BY <3>1, <3>2, BetweenFacts
  <2>2. CASE u # <<>>
    <3>1. n \in Nat \ {0} /\ LastDst(u) = u[n][2]
      BY <2>2, EmptySeq, LenProperties DEF LastDst
    <3>2. \A i \in 1 .. n - 1 : v[i] = u[i] /\ v[i + 1] = u[i + 1]
      BY <1>1, <3>1
    <3>3. v[n] = u[n] /\ v[n + 1] = e /\ Len(v) - 1 = n
      <4>1. n \in 1 .. n
        BY <3>1
      <4>2. QED
        BY <1>1, <4>1
    <3>4. 1 .. n = (1 .. n - 1) \cup {n}
      BY <3>1
    <3> HIDE DEF v, n
    <3>5. gaps(v) = UNION {Between(v[i][2], v[i + 1][1]) : i \in (1 .. n - 1) \cup {n}}
      BY <3>3, <3>4
    <3>6. gaps(u) = UNION {Between(v[i][2], v[i + 1][1]) : i \in 1 .. n - 1}
      BY <3>2 DEF n
    <3>7. gaps(v) = gaps(u) \cup Between(v[n][2], v[n + 1][1])
      BY <3>5, <3>6
    <3>8. QED
      BY <3>1, <3>3, <3>7
  <2>3. QED
    BY <2>1, <2>2
<1>5. Covered(v) = ends(v) \cup gaps(v) /\ Covered(u) = ends(u) \cup gaps(u)
  BY DEF Covered
<1> HIDE DEF ends, gaps, v
<1>6. QED
  BY <1>1, <1>2, <1>3, <1>4, <1>5 DEF v

(* A line is an edge, cut short, or not a number, and only one of these.   *)
LEMMA LineKinds ==
    /\ Lines = Edges \cup {Short, Garbage}
    /\ Short \notin Edges /\ Garbage \notin Edges
    /\ Short # Garbage
    /\ None \notin Nodes /\ PT \in Nodes
    /\ \A e \in Edges : e[1] \in Nodes /\ e[2] \in Nodes
<1>1. MaxAddr \in Nat
  BY ReaderAssumption
<1>2. /\ Nodes = (1 .. MaxAddr) \cup {MaxAddr + 1}
      /\ PT = MaxAddr + 1 /\ None = 0
  BY DEF Nodes, Addresses, PT, None
<1>3. 0 \notin Nodes /\ MaxAddr + 1 # 0
  BY <1>1, <1>2
<1>4. QED
  BY <1>2, <1>3 DEF Lines, Edges, Short, Garbage

(* What every step that reads a line leaves: it is one of the file's lines. *)
LEMMA ReadsLine ==
    ASSUME ReaderTypeOK, NEW kind, Reads(kind)
    PROVE  /\ next \in 1 .. Len(file) /\ next \in Nat /\ Len(file) \in Nat
           /\ next \in DOMAIN file /\ file[next] \in kind /\ file[next] \in Lines
           /\ status = "reading" /\ next' = next + 1 /\ next' \in 1 .. Len(file') + 1
           /\ file' = file /\ (next' - 1) = next
<1>1. /\ Len(file) \in Nat /\ DOMAIN file = 1 .. Len(file) /\ status = "reading"
      /\ next \in 1 .. Len(file) + 1 /\ next <= Len(file)
      /\ file' = file /\ next' = next + 1 /\ file[next] \in kind
  BY LenProperties DEF ReaderTypeOK, Reads
<1>2. next \in 1 .. Len(file) /\ next \in Nat /\ (next + 1) - 1 = next
  BY <1>1
<1>3. file[next] \in Lines
  BY <1>1, <1>2, ElementOfSeq DEF ReaderTypeOK
<1>4. QED
  BY <1>1, <1>2, <1>3

(* A line that is an edge and is used keeps the edges read in the order of *)
(* the lines.                                                              *)
LEMMA EdgeUsed ==
    ASSUME ReaderTypeOK, ReadInOrder,
           Reads(Edges), used' = Append(used, file[next])
    PROVE  used' \in Seq(Edges) /\ ReadInOrder'
<1>1. /\ next \in 1 .. Len(file) /\ next \in Nat /\ file[next] \in Edges
      /\ status = "reading" /\ next' = next + 1 /\ file' = file /\ next' - 1 = next
  BY ReadsLine
<1>2. /\ used' \in Seq(Edges) /\ Len(used) \in Nat /\ Len(used') = Len(used) + 1
      /\ used'[Len(used) + 1] = file[next] /\ \A i \in 1 .. Len(used) : used'[i] = used[i]
  BY <1>1, AppendProperties, LenProperties DEF ReaderTypeOK
<1>3. ASSUME \A i \in 1 .. next : file[i] # Short
      PROVE  /\ Len(used') = next
             /\ \A i \in 1 .. next : used'[i] = file[i]
  <2>1. /\ Len(used) = next - 1
        /\ \A i \in 1 .. next - 1 : used[i] = file[i]
    BY <1>1, <1>3 DEF ReadInOrder
  <2>2. ASSUME NEW i \in 1 .. next
        PROVE  used'[i] = file[i]
    <3>1. i \in 1 .. next - 1 \/ i = next
      BY <1>1
    <3>2. QED
      BY <1>1, <1>2, <2>1, <3>1
  <2>3. QED
    BY <1>1, <1>2, <2>1, <2>2
<1>4. QED
  BY <1>1, <1>2, <1>3 DEF ReadInOrder

(* The file a reader starts with.                                          *)
LEMMA ReaderInitInv ==
    ASSUME ReaderInit
    PROVE  ReaderInv
<1>1. file \in Seq(Lines)
  BY DEF ReaderInit, Files
<1>2. Len(file) \in Nat /\ used = <<>> /\ used \in Seq(Edges) /\ Len(used) = 0
  BY <1>1, LenProperties, EmptySeq DEF ReaderInit
<1>3. ReaderTypeOK
  BY <1>1, <1>2 DEF ReaderInit, ReaderTypeOK
<1>4. HeldIsHalf /\ ReadInOrder /\ TraceRead
  BY <1>2 DEF ReaderInit, HeldIsHalf, ReadInOrder, TraceRead
<1>5. Covered(used) = {}
  <2>1. DOMAIN used = {} /\ 1 .. Len(used) - 1 = {}
    BY <1>2, LenProperties
  <2>2. QED
    BY <2>1 DEF Covered
<1>6. CoveredSoFar /\ PrevIsLast
  BY <1>2, <1>5 DEF ReaderInit, CoveredSoFar, PrevIsLast, LastDst
<1>7. QED
  BY <1>3, <1>4, <1>6 DEF ReaderInv

(* A whole edge, or the second half of one, adds its ends and what lies    *)
(* between the edge before and the source of its first half.               *)
LEMMA WholeEdgeStep ==
    ASSUME ReaderInv, WholeEdge
    PROVE  ReaderInv'
<1> DEFINE s == file[next][1]
           d == file[next][2]
           src == IF held = None THEN s ELSE held
<1>1. /\ Reads(Edges) /\ d # PT /\ ~Unexpected(s)
      /\ Yield(src, d)
      /\ used' = Append(used, file[next]) /\ status' = status
  BY DEF WholeEdge
<1>2. /\ ReaderTypeOK /\ ReadInOrder
      /\ next \in 1 .. Len(file) /\ file[next] \in Edges /\ status = "reading"
      /\ next' \in 1 .. Len(file') + 1 /\ file' = file
  BY <1>1, ReadsLine DEF ReaderInv
<1>3. /\ ranges' = ranges \cup Between(prev, src) \cup {src, d}
      /\ prev' = d /\ held' = None
  BY <1>1 DEF Yield
<1>4. used' \in Seq(Edges) /\ ReadInOrder'
  BY <1>1, <1>2, EdgeUsed
<1>5. ReaderTypeOK' /\ HeldIsHalf'
  BY <1>1, <1>2, <1>3, <1>4 DEF ReaderTypeOK, HeldIsHalf
<1>6. /\ LastDst(used') = d
      /\ Covered(used') =
            Covered(used) \cup {s, d} \cup Between(LastDst(used), s)
  BY <1>1, <1>2, CoveredAppend DEF ReaderTypeOK
<1>7. CoveredSoFar /\ PrevIsLast
  BY <1>2 DEF ReaderInv
<1> HIDE DEF s, d
<1>8. (ranges' \cup {}) \ {PT} = Covered(used') \ {PT}
  <2>1. CASE held = None
    <3>1. src = s /\ LastDst(used) = prev
          /\ ranges \ {PT} = Covered(used) \ {PT}
      BY <1>7, <2>1 DEF CoveredSoFar, PrevIsLast
    <3>2. QED
      BY <1>3, <1>6, <3>1
  <2>2. CASE held # None
    <3>1. src = held /\ s = PT /\ LastDst(used) = PT
      BY <1>1, <1>7, <2>2 DEF PrevIsLast, Unexpected
    <3>2. (ranges \cup ({held} \cup Between(prev, held))) \ {PT}
            = Covered(used) \ {PT}
      BY <1>7, <2>2 DEF CoveredSoFar
    <3>3. Between(LastDst(used), s) = {}
      BY <3>1, BetweenFacts
    <3>4. QED
      BY <1>3, <1>6, <3>1, <3>2, <3>3
  <2>3. QED
    BY <2>1, <2>2
<1>9. CoveredSoFar' /\ PrevIsLast'
  BY <1>3, <1>6, <1>8 DEF CoveredSoFar, PrevIsLast
<1>10. TraceRead'
  BY <1>1, <1>2 DEF TraceRead
<1>11. QED
  BY <1>4, <1>5, <1>9, <1>10 DEF ReaderInv

(* The first half of an edge, or one more of a chain of them.              *)
LEMMA HalfEdgeStep ==
    ASSUME ReaderInv, HalfEdge
    PROVE  ReaderInv'
<1> DEFINE s == file[next][1]
<1>1. /\ Reads(Edges) /\ file[next][2] = PT
      /\ ~Unexpected(s) /\ held' = Kept(s)
      /\ used' = Append(used, file[next])
      /\ status' = status /\ prev' = prev /\ ranges' = ranges
  BY DEF HalfEdge
<1>2. /\ ReaderTypeOK /\ ReadInOrder
      /\ next \in 1 .. Len(file) /\ file[next] \in Edges /\ status = "reading"
      /\ next' \in 1 .. Len(file') + 1 /\ file' = file /\ next' - 1 = next /\ next' > 1
  <2>1. ReaderTypeOK /\ ReadInOrder
    BY DEF ReaderInv
  <2>2. next' > 1
    BY <1>1, <2>1, ReadsLine
  <2>3. QED
    BY <1>1, <2>1, <2>2, ReadsLine
<1>3. used' \in Seq(Edges) /\ ReadInOrder'
  BY <1>1, <1>2, EdgeUsed
<1>4. s \in Nodes /\ s # None /\ held' \in Nodes /\ held' # None
  BY <1>1, <1>2, LineKinds DEF Kept, ReaderTypeOK
<1>5. ReaderTypeOK' /\ HeldIsHalf'
  BY <1>1, <1>2, <1>3, <1>4 DEF ReaderTypeOK, HeldIsHalf
<1>6. /\ LastDst(used') = PT
      /\ Covered(used') =
            Covered(used) \cup {s, PT} \cup Between(LastDst(used), s)
  BY <1>1, <1>2, CoveredAppend DEF ReaderTypeOK
<1>7. CoveredSoFar /\ PrevIsLast
  BY <1>2 DEF ReaderInv
<1> HIDE DEF s
<1>8. (ranges \cup ({held'} \cup Between(prev, held'))) \ {PT}
        = Covered(used') \ {PT}
  <2>1. CASE held = None
    <3>1. held' = s /\ LastDst(used) = prev
          /\ ranges \ {PT} = Covered(used) \ {PT}
      BY <1>1, <1>7, <2>1 DEF CoveredSoFar, PrevIsLast, Kept
    <3>2. QED
      BY <1>6, <3>1
  <2>2. CASE held # None
    <3>1. held' = held /\ s = PT /\ LastDst(used) = PT
      BY <1>1, <1>7, <2>2 DEF PrevIsLast, Unexpected, Kept
    <3>2. (ranges \cup ({held} \cup Between(prev, held))) \ {PT}
            = Covered(used) \ {PT}
      BY <1>7, <2>2 DEF CoveredSoFar
    <3>3. Between(LastDst(used), s) = {}
      BY <3>1, BetweenFacts
    <3>4. QED
      BY <1>6, <3>1, <3>2, <3>3
  <2>3. QED
    BY <2>1, <2>2
<1>9. CoveredSoFar' /\ PrevIsLast'
  BY <1>1, <1>4, <1>6, <1>8 DEF CoveredSoFar, PrevIsLast
<1>10. TraceRead'
  BY <1>1, <1>2 DEF TraceRead
<1>11. QED
  BY <1>3, <1>5, <1>9, <1>10 DEF ReaderInv

(* An edge to PT that is followed by one from elsewhere.                   *)
LEMMA MismatchStep ==
    ASSUME ReaderInv, Mismatch
    PROVE  ReaderInv'
<1>1. /\ Reads(Edges) /\ Unexpected(file[next][1])
      /\ status' = "panic" /\ held' = held /\ prev' = prev /\ ranges' = ranges /\ used' = used
  BY DEF Mismatch
<1>2. ReaderTypeOK /\ HeldIsHalf
  BY DEF ReaderInv
<1>3. /\ next \in 1 .. Len(file) /\ next \in Nat /\ file[next] \in Edges
      /\ status = "reading" /\ next' \in 1 .. Len(file') + 1 /\ file' = file
      /\ Len(file) \in Nat
  BY <1>1, <1>2, ReadsLine
<1>4. /\ held # None /\ file[next][1] # PT
      /\ next > 1 /\ file[next - 1] \in Edges /\ file[next - 1][2] = PT
  BY <1>1, <1>2, <1>3 DEF HeldIsHalf, Unexpected
<1>5. next - 1 \in 1 .. Len(file) - 1 /\ (next - 1) + 1 = next
  BY <1>3, <1>4
<1>6. TraceRead'
  <2>1. \E i \in 1 .. Len(file) - 1 :
            /\ file[i] \in Edges /\ file[i + 1] \in Edges
            /\ file[i][2] = PT /\ file[i + 1][1] # PT
    BY <1>3, <1>4, <1>5
  <2>2. QED
    BY <1>1, <1>3, <2>1 DEF TraceRead
<1>7. ReaderTypeOK' /\ HeldIsHalf' /\ ReadInOrder'
  BY <1>1, <1>2, <1>3 DEF ReaderTypeOK, HeldIsHalf, ReadInOrder
<1>8. QED
  BY <1>1, <1>6, <1>7 DEF ReaderInv

(* A word that is not a number.                                            *)
LEMMA NotANumberStep ==
    ASSUME ReaderInv, NotANumber
    PROVE  ReaderInv'
<1>1. /\ Reads({Garbage}) /\ status' = "panic"
      /\ held' = held /\ prev' = prev /\ ranges' = ranges /\ used' = used
  BY DEF NotANumber
<1>2. ReaderTypeOK
  BY DEF ReaderInv
<1>3. /\ next \in DOMAIN file /\ file[next] = Garbage
      /\ next' \in 1 .. Len(file') + 1 /\ file' = file
  BY <1>1, <1>2, ReadsLine
<1>4. TraceRead'
  BY <1>1, <1>3 DEF TraceRead
<1>5. ReaderTypeOK' /\ HeldIsHalf' /\ ReadInOrder'
  BY <1>1, <1>2, <1>3 DEF ReaderTypeOK, HeldIsHalf, ReadInOrder
<1>6. QED
  BY <1>1, <1>4, <1>5 DEF ReaderInv

(* The iterator has no edge: a held half is yielded as an edge to PT, and  *)
(* the ranges are then those of the edges read; otherwise the loop ends.   *)
LEMMA NoEdgeCovers ==
    ASSUME ReaderInv, NoEdge, status = "reading"
    PROVE  /\ held' = None /\ used' = used
           /\ CoveredSoFar' /\ PrevIsLast'
           /\ status' = "reading" \/ (status' = "done" /\ held = None)
<1>1. CoveredSoFar /\ PrevIsLast
  BY DEF ReaderInv
<1>2. CASE held = None
  <2>1. status' = "done" /\ held' = held /\ prev' = prev /\ ranges' = ranges /\ used' = used
    BY <1>2 DEF NoEdge
  <2>2. QED
    BY <1>1, <1>2, <2>1 DEF CoveredSoFar, PrevIsLast
<1>3. CASE held # None
  <2>1. /\ ranges' = ranges \cup Between(prev, held) \cup {held, PT}
        /\ prev' = PT /\ held' = None /\ status' = status /\ used' = used
    BY <1>3 DEF NoEdge, Yield
  <2>2. (ranges \cup ({held} \cup Between(prev, held))) \ {PT}
          = Covered(used) \ {PT}
    BY <1>1, <1>3 DEF CoveredSoFar
  <2>3. (ranges' \cup {}) \ {PT} = Covered(used') \ {PT}
    BY <2>1, <2>2
  <2>4. QED
    BY <1>1, <1>3, <2>1, <2>3 DEF CoveredSoFar, PrevIsLast
<1>4. QED
  BY <1>2, <1>3

(* A line that is cut short.                                               *)
LEMMA ShortLineStep ==
    ASSUME ReaderInv, ShortLine
    PROVE  ReaderInv'
<1>1. Reads({Short}) /\ NoEdge /\ ReaderTypeOK
  BY DEF ShortLine, ReaderInv
<1>2. /\ next \in 1 .. Len(file) /\ next \in Nat /\ next \in DOMAIN file
      /\ file[next] = Short /\ status = "reading"
      /\ next' \in 1 .. Len(file') + 1 /\ file' = file /\ next' - 1 = next
  BY <1>1, ReadsLine
<1>3. /\ held' = None /\ used' = used
      /\ CoveredSoFar' /\ PrevIsLast'
      /\ status' = "reading" \/ (status' = "done" /\ held = None)
  BY <1>1, <1>2, NoEdgeCovers
<1>4. ReaderTypeOK' /\ HeldIsHalf'
  BY <1>1, <1>2, <1>3 DEF ReaderTypeOK, HeldIsHalf
<1>5. ReadInOrder'
  <2>1. next \in 1 .. next
    BY <1>2
  <2>2. next \in 1 .. next' - 1 /\ file'[next] = Short
    BY <1>2, <2>1, Zenon
  <2>3. QED
    BY <2>2, Zenon DEF ReadInOrder
<1>6. ranges' \ {PT} = Covered(used') \ {PT}
  BY <1>3 DEF CoveredSoFar
<1>7. TraceRead'
  BY <1>2, <1>3, <1>6 DEF TraceRead
<1>8. QED
  BY <1>3, <1>4, <1>5, <1>7 DEF ReaderInv

(* The end of the file.                                                    *)
LEMMA EndOfFileStep ==
    ASSUME ReaderInv, EndOfFile
    PROVE  ReaderInv'
<1>1. /\ status = "reading" /\ next > Len(file) /\ file' = file /\ next' = next
      /\ NoEdge /\ ReaderTypeOK /\ ReadInOrder
  BY DEF EndOfFile, ReaderInv
<1>2. /\ Len(file) \in Nat /\ DOMAIN file = 1 .. Len(file) /\ next - 1 = Len(file)
      /\ Len(used) \in Nat /\ DOMAIN used = 1 .. Len(used)
  BY <1>1, LenProperties DEF ReaderTypeOK
<1>3. /\ held' = None /\ used' = used
      /\ CoveredSoFar' /\ PrevIsLast'
      /\ status' = "reading" \/ (status' = "done" /\ held = None)
  BY <1>1, NoEdgeCovers
<1>4. ReaderTypeOK' /\ HeldIsHalf' /\ ReadInOrder'
  BY <1>1, <1>3 DEF ReaderTypeOK, HeldIsHalf, ReadInOrder
<1>5. ranges' \ {PT} = Covered(used') \ {PT}
  BY <1>3 DEF CoveredSoFar
<1>6. ASSUME \A i \in DOMAIN file : file[i] # Short
      PROVE  used = file
  <2>1. Len(used) = Len(file) /\ \A i \in 1 .. Len(file) : used[i] = file[i]
    BY <1>1, <1>2, <1>6 DEF ReadInOrder
  <2>2. file \in Seq(Lines) /\ used \in Seq(Lines)
    <3>1. \A i \in 1 .. Len(used) : used[i] \in Lines
      BY <1>1, <1>2, ElementOfSeq, LineKinds DEF ReaderTypeOK
    <3>2. used \in [1 .. Len(used) -> Lines]
      BY <1>1, <1>2, <3>1, LenProperties DEF ReaderTypeOK
    <3>3. QED
      BY <1>1, <1>2, <3>2, SeqDef DEF ReaderTypeOK
  <2>3. QED
    BY <1>2, <2>1, <2>2, SeqEqual
<1>7. TraceRead'
  BY <1>1, <1>3, <1>5, <1>6 DEF TraceRead
<1>8. QED
  BY <1>3, <1>4, <1>7 DEF ReaderInv

(* Joining the halves of an edge loses no address of a trace and adds none, *)
(* and a thread panics only for the two reasons the code names             *)
(* (lib.rs:178-211, 433-473): for files of any length, any addresses and   *)
(* any report of functions.                                                *)
THEOREM TraceReading == ReaderSpec => []TraceRead
<1>1. ReaderInit => ReaderInv
  BY ReaderInitInv
<1>2. ReaderInv /\ [ReaderNext]_readerVars => ReaderInv'
  <2> SUFFICES ASSUME ReaderInv, [ReaderNext]_readerVars
               PROVE  ReaderInv'
    OBVIOUS
  <2>1. CASE ReaderNext
    BY <2>1, WholeEdgeStep, HalfEdgeStep, MismatchStep, ShortLineStep, EndOfFileStep,
       NotANumberStep DEF ReaderNext
  <2>2. CASE UNCHANGED readerVars
    BY <2>2 DEF readerVars, ReaderInv, ReaderTypeOK, HeldIsHalf, ReadInOrder,
                CoveredSoFar, PrevIsLast, TraceRead
  <2>3. QED
    BY <2>1, <2>2
<1>3. ReaderInv => TraceRead
  BY DEF ReaderInv
<1>4. QED
  BY <1>1, <1>2, <1>3, PTL DEF ReaderSpec

-----------------------------------------------------------------------------
(* The spellings of a path: PathNames, for paths of any length.            *)

(* A set of numbers from 0 on without gaps has all up to n.                *)
LEMMA StepByStep ==
    ASSUME NEW n \in Nat, NEW S, 0 \in S, \A k \in 1 .. n : k - 1 \in S => k \in S
    PROVE  \A k \in 0 .. n : k \in S
<1> DEFINE Left == {k \in 0 .. n : k \notin S}
<1> SUFFICES ASSUME Left # {}
             PROVE  FALSE
  OBVIOUS
<1>1. IsWellFoundedOn({r \in Nat \X Nat : r[1] < r[2]}, Nat)
  BY NatLessThanWellFounded, Zenon DEF OpToRel
<1>2. Left \subseteq Nat
  OBVIOUS
<1> HIDE DEF Left
<1>3. PICK m \in Left : \A y \in Left : ~(<<y, m>> \in {r \in Nat \X Nat : r[1] < r[2]})
  BY <1>1, <1>2, WFMin, Zenon
<1>4. m \in 1 .. n /\ m \notin S
  BY <1>3 DEF Left
<1>5. m - 1 \in S
  <2>1. m - 1 \in 0 .. n /\ m - 1 \in Nat /\ m \in Nat /\ m - 1 < m
    BY <1>4
  <2>2. m - 1 \notin Left
    BY <1>3, <2>1
  <2>3. QED
    BY <2>1, <2>2 DEF Left
<1>6. QED
  BY <1>4, <1>5

(* What is computed from one number to the next.                           *)
Computed(n, S, first, F) ==
    {f \in [0 .. n -> S] : f[0] = first /\ \A k \in 1 .. n : f[k] = F[<<k, f[k - 1]>>]}

(* What is computed name by name exists after every number of names.       *)
LEMMA ComputedExists ==
    ASSUME NEW n \in Nat, NEW S, NEW first \in S, NEW F \in [(1 .. n) \X S -> S]
    PROVE  Computed(n, S, first, F) # {}
<1> DEFINE Upto(m) == {f \in [0 .. m -> S] : f[0] = first /\ \A k \in 1 .. m : f[k] = F[<<k, f[k - 1]>>]}
           Done == {m \in 0 .. n : Upto(m) # {}}
<1>1. 0 \in Done
  <2>1. [k \in 0 .. 0 |-> first] \in Upto(0)
    OBVIOUS
  <2>2. QED
    BY <2>1
<1>2. ASSUME NEW m \in 1 .. n, m - 1 \in Done
      PROVE  m \in Done
  <2>1. PICK f \in Upto(m - 1) : TRUE
    BY <1>2
  <2> DEFINE g == [k \in 0 .. m |-> IF k = m THEN F[<<m, f[m - 1]>>] ELSE f[k]]
  <2>2. f[m - 1] \in S /\ \A k \in 0 .. m - 1 : f[k] \in S
    BY <2>1
  <2>3. g \in [0 .. m -> S]
    BY <2>2
  <2>4. g[0] = first
    BY <2>1
  <2>5. ASSUME NEW k \in 1 .. m
        PROVE  g[k] = F[<<k, g[k - 1]>>]
    <3>1. g[k - 1] = f[k - 1]
      BY <2>5
    <3>2. CASE k = m
      BY <3>1, <3>2
    <3>3. CASE k \in 1 .. m - 1
      BY <2>1, <3>1, <3>3
    <3>4. QED
      BY <3>2, <3>3
  <2>6. g \in Upto(m)
    BY <2>3, <2>4, <2>5
  <2>7. m \in 0 .. n /\ Upto(m) # {}
    <3> HIDE DEF Upto
    <3>1. QED
      BY <2>6
  <2>8. QED
    BY <2>7, Zenon
<1> HIDE DEF Done, Upto
<1>3. \A m \in 0 .. n : m \in Done
  BY <1>1, <1>2, StepByStep, Zenon
<1>a. n \in 0 .. n
  OBVIOUS
<1>4. QED
  BY <1>3, <1>a DEF Done, Upto, Computed

(* A sequence is its last element behind the others.                       *)
LEMMA FrontFacts ==
    ASSUME NEW S, NEW s \in Seq(S), s # <<>>
    PROVE  /\ Front(s) \in Seq(S) /\ Last(s) \in S
           /\ Len(Front(s)) = Len(s) - 1
           /\ s = Append(Front(s), Last(s))
<1>1. /\ Len(s) \in Nat \ {0} /\ \A i \in 1 .. Len(s) : s[i] \in S
      /\ s \in [1 .. Len(s) -> S]
  BY EmptySeq, LenProperties, ElementOfSeq
<1>2. /\ Front(s) \in Seq(S) /\ Len(Front(s)) = Len(s) - 1
      /\ \A i \in 1 .. Len(s) - 1 : Front(s)[i] = s[i]
  <2>1. PICK m \in Nat : m = Len(s) - 1
    <3>1. Len(s) - 1 \in Nat
      BY <1>1
    <3>2. QED
      BY <3>1, Zenon
  <2>2. \A i \in 1 .. m : s[i] \in S
    BY <1>1, <2>1
  <2>3. /\ SubSeq(s, 1, m) \in Seq(S) /\ Len(SubSeq(s, 1, m)) = m
        /\ \A i \in 1 .. m : SubSeq(s, 1, m)[i] = s[i]
    BY <2>2, SubSeqProperties
  <2>4. Front(s) = SubSeq(s, 1, m)
    BY <2>1 DEF Front
  <2>5. QED
    BY <2>1, <2>3, <2>4
<1>3. Last(s) \in S
  BY <1>1 DEF Last
<1>4. s = Append(Front(s), Last(s))
  <2> DEFINE t == Append(Front(s), Last(s))
  <2>1. /\ t \in Seq(S) /\ Len(t) = Len(Front(s)) + 1
        /\ \A i \in 1 .. Len(Front(s)) : t[i] = Front(s)[i]
        /\ t[Len(Front(s)) + 1] = Last(s)
    BY <1>2, <1>3, AppendProperties, Zenon
  <2> HIDE DEF t
  <2>2. Len(t) = Len(s) /\ \A i \in 1 .. Len(s) : t[i] = s[i]
    BY <1>1, <1>2, <2>1 DEF Last
  <2>3. QED
    BY <1>1, <2>1, <2>2, SeqEqual DEF t
<1>5. QED
  BY <1>2, <1>3, <1>4

(* ... and that one is found behind the others.                            *)
LEMMA FrontOfAppend ==
    ASSUME NEW S, NEW s \in Seq(S), NEW e \in S
    PROVE  /\ Append(s, e) \in Seq(S) /\ Append(s, e) # <<>>
           /\ Front(Append(s, e)) = s /\ Last(Append(s, e)) = e
<1>1. /\ Append(s, e) \in Seq(S) /\ Append(s, e) # <<>>
      /\ Len(Append(s, e)) = Len(s) + 1 /\ Len(s) \in Nat
      /\ \A i \in 1 .. Len(s) : Append(s, e)[i] = s[i]
      /\ Append(s, e)[Len(s) + 1] = e
  BY AppendProperties, LenProperties
<1>2. Last(Append(s, e)) = e
  BY <1>1 DEF Last
<1>3. /\ Front(Append(s, e)) \in Seq(S)
      /\ Append(s, e) = Append(Front(Append(s, e)), e)
      /\ Len(Front(Append(s, e))) = Len(s)
  <2>1. LET t == Append(s, e)
        IN  /\ Front(t) \in Seq(S) /\ Len(Front(t)) = Len(t) - 1
            /\ t = Append(Front(t), Last(t))
    BY <1>1, FrontFacts, Zenon
  <2>2. QED
    BY <1>1, <1>2, <2>1
<1>4. Front(Append(s, e)) = s
  <2>1. \A f \in Seq(S) : Append(s, e) = Append(f, e) => s = f
    BY AppendInjective
  <2>2. QED
    BY <1>3, <2>1, Zenon
<1>5. QED
  BY <1>1, <1>2, <1>4

-----------------------------------------------------------------------------
AnyName == Names \cup {".", ".."}

(* Push keeps a stack a sequence of names.                                 *)
LEMMA PushTyped ==
    ASSUME NEW root \in BOOLEAN, NEW N, NEW stack \in Seq(N), NEW name \in N \cup {"."}
    PROVE  Push(root, stack, name) \in Seq(N)
<1>1. CASE stack = <<>>
  BY <1>1, AppendProperties DEF Push
<1>2. CASE stack # <<>>
  BY <1>2, FrontFacts, AppendProperties DEF Push
<1>3. QED
  BY <1>1, <1>2

(* The stack is computed name by name.                                     *)
LEMMA StackSteps ==
    ASSUME NEW root \in BOOLEAN, NEW N, NEW names \in Seq(N \cup {"."})
    PROVE  LET after == Stacks([root |-> root, names |-> names])
           IN  /\ after \in [0 .. Len(names) -> Seq(N)]
               /\ after[0] = <<>>
               /\ \A k \in 1 .. Len(names) : after[k] = Push(root, after[k - 1], names[k])
<1> DEFINE n == Len(names)
           Is(f) == f = [k \in 0 .. n |-> IF k = 0 THEN <<>> ELSE Push(root, f[k - 1], names[k])]
           F == [x \in (1 .. n) \X Seq(N) |-> Push(root, x[2], names[x[1]])]
           after == Stacks([root |-> root, names |-> names])
<1>1. n \in Nat /\ \A k \in 1 .. n : names[k] \in N \cup {"."}
  OBVIOUS
<1>2. after = CHOOSE f : Is(f)
  BY DEF Stacks
<1>3. F \in [(1 .. n) \X Seq(N) -> Seq(N)]
  BY <1>1, PushTyped
<1>4. <<>> \in Seq(N)
  OBVIOUS
<1> HIDE DEF n, F
<1>5. PICK g \in [0 .. n -> Seq(N)] :
            g[0] = <<>> /\ \A k \in 1 .. n : g[k] = F[<<k, g[k - 1]>>]
  <2>1. Computed(n, Seq(N), <<>>, F) # {}
    BY <1>1, <1>3, <1>4, ComputedExists
  <2>2. PICK g \in Computed(n, Seq(N), <<>>, F) : TRUE
    BY <2>1
  <2>3. QED
    BY <2>2, Zenon DEF Computed
<1>6. Is(g)
  <2>1. ASSUME NEW k \in 0 .. n
        PROVE  g[k] = IF k = 0 THEN <<>> ELSE Push(root, g[k - 1], names[k])
    <3>1. CASE k = 0
      BY <1>5, <3>1
    <3>2. CASE k # 0
      <4>1. k \in 1 .. n /\ k - 1 \in 0 .. n
        BY <1>1, <3>2
      <4>2. g[k] = F[<<k, g[k - 1]>>] /\ g[k - 1] \in Seq(N)
        BY <1>5, <4>1
      <4>3. QED
        BY <3>2, <4>1, <4>2 DEF F
    <3>3. QED
      BY <3>1, <3>2
  <2>2. QED
    BY <2>1
<1>7. Is(after)
  BY <1>2, <1>6, Zenon
<1> HIDE DEF after
<1>8. after[0] = <<>> /\ \A k \in 1 .. n : after[k] = Push(root, after[k - 1], names[k])
  BY <1>1, <1>7
<1>9. after \in [0 .. n -> Seq(N)]
  <2> DEFINE Typed == {k \in 0 .. n : after[k] \in Seq(N)}
  <2>1. 0 \in Typed
    <3>1. after[0] \in Seq(N)
      BY <1>4, <1>8, Zenon
    <3>2. QED
      BY <1>1, <3>1
  <2>2. ASSUME NEW k \in 1 .. n, k - 1 \in Typed
        PROVE  k \in Typed
    <3>1. /\ k - 1 \in 0 .. n /\ k \in 0 .. n
          /\ names[k] \in N \cup {"."} /\ after[k - 1] \in Seq(N)
      BY <1>1, <2>2
    <3>2. after[k] = Push(root, after[k - 1], names[k])
      BY <1>8
    <3>3. after[k] \in Seq(N)
      <4> HIDE DEF after
      <4>1. QED
        BY <3>1, <3>2, PushTyped
    <3>4. QED
      BY <3>1, <3>3
  <2> HIDE DEF Typed
  <2>3. \A k \in 0 .. n : k \in Typed
    BY <1>1, <2>1, <2>2, StepByStep, Zenon
  <2>4. QED
    BY <1>7, <2>3 DEF Typed
<1>10. QED
  BY <1>8, <1>9 DEF n, after

(* From a folder, a name leads to a folder.                                *)
LEMMA StepTyped ==
    ASSUME NEW at \in Seq(Names), NEW name \in AnyName
    PROVE  Step(at, name) \in Seq(Names)
<1>1. Front(at) \in Seq(Names)
  <2>1. CASE at # <<>>
    BY <2>1, FrontFacts
  <2>2. CASE at = <<>>
    <3>1. Len(at) - 1 \in Int /\ Len(at) - 1 < 1 /\ 1 \in Int
      BY <2>2
    <3>2. SubSeq(at, 1, Len(at) - 1) = <<>>
      BY <3>1, SubSeqEmpty
    <3>3. QED
      BY <2>2, <3>2 DEF Front
  <2>3. QED
    BY <2>1, <2>2
<1>2. CASE name \in {".", ".."}
  BY <1>1, <1>2 DEF Step
<1>3. CASE name \notin {".", ".."}
  BY <1>3, AppendProperties DEF Step, AnyName
<1>4. QED
  BY <1>2, <1>3

(* Where a path leads is computed name by name.                            *)
LEMMA WalkSteps ==
    ASSUME NEW base \in Seq(Names), NEW names \in Seq(AnyName)
    PROVE  LET at == Walk(base, names)
           IN  /\ at \in [0 .. Len(names) -> Seq(Names)]
               /\ at[0] = base
               /\ \A k \in 1 .. Len(names) : at[k] = Step(at[k - 1], names[k])
<1> DEFINE n == Len(names)
           Is(f) == f = [k \in 0 .. n |-> IF k = 0 THEN base ELSE Step(f[k - 1], names[k])]
           F == [x \in (1 .. n) \X Seq(Names) |-> Step(x[2], names[x[1]])]
           at == Walk(base, names)
<1>1. n \in Nat /\ \A k \in 1 .. n : names[k] \in AnyName
  OBVIOUS
<1>2. at = CHOOSE f : Is(f)
  BY DEF Walk
<1>3. F \in [(1 .. n) \X Seq(Names) -> Seq(Names)]
  BY <1>1, StepTyped
<1>4. base \in Seq(Names)
  OBVIOUS
<1> HIDE DEF n, F
<1>5. PICK g \in [0 .. n -> Seq(Names)] :
            g[0] = base /\ \A k \in 1 .. n : g[k] = F[<<k, g[k - 1]>>]
  <2>1. Computed(n, Seq(Names), base, F) # {}
    BY <1>1, <1>3, <1>4, ComputedExists
  <2>2. PICK g \in Computed(n, Seq(Names), base, F) : TRUE
    BY <2>1
  <2>3. QED
    BY <2>2, Zenon DEF Computed
<1>6. Is(g)
  <2>1. ASSUME NEW k \in 0 .. n
        PROVE  g[k] = IF k = 0 THEN base ELSE Step(g[k - 1], names[k])
    <3>1. CASE k = 0
      BY <1>5, <3>1
    <3>2. CASE k # 0
      <4>1. k \in 1 .. n /\ k - 1 \in 0 .. n
        BY <1>1, <3>2
      <4>2. g[k] = F[<<k, g[k - 1]>>] /\ g[k - 1] \in Seq(Names)
        BY <1>5, <4>1
      <4>3. QED
        BY <3>2, <4>1, <4>2 DEF F
    <3>3. QED
      BY <3>1, <3>2
  <2>2. QED
    BY <2>1
<1>7. Is(at)
  BY <1>2, <1>6, Zenon
<1> HIDE DEF at
<1>8. at[0] = base /\ \A k \in 1 .. n : at[k] = Step(at[k - 1], names[k])
  BY <1>1, <1>7
<1>9. at \in [0 .. n -> Seq(Names)]
  <2> DEFINE Typed == {k \in 0 .. n : at[k] \in Seq(Names)}
  <2>1. 0 \in Typed
    <3>1. at[0] \in Seq(Names)
      BY <1>4, <1>8, Zenon
    <3>2. QED
      BY <1>1, <3>1
  <2>2. ASSUME NEW k \in 1 .. n, k - 1 \in Typed
        PROVE  k \in Typed
    <3>1. /\ k - 1 \in 0 .. n /\ k \in 0 .. n
          /\ names[k] \in AnyName /\ at[k - 1] \in Seq(Names)
      BY <1>1, <2>2
    <3>2. at[k] = Step(at[k - 1], names[k])
      BY <1>8
    <3>3. at[k] \in Seq(Names)
      <4> HIDE DEF at
      <4>1. QED
        BY <3>1, <3>2, StepTyped
    <3>4. QED
      BY <3>1, <3>3
  <2> HIDE DEF Typed
  <2>3. \A k \in 0 .. n : k \in Typed
    BY <1>1, <2>1, <2>2, StepByStep, Zenon
  <2>4. QED
    BY <1>7, <2>3 DEF Typed
<1>10. QED
  BY <1>8, <1>9 DEF n, at

(* Where a path leads is where its last name leads from where the others   *)
(* do.                                                                     *)
LEMMA LeadsAppend ==
    ASSUME NEW base \in Seq(Names), NEW s \in Seq(AnyName), NEW x \in AnyName
    PROVE  /\ Leads(base, s) \in Seq(Names)
           /\ Leads(base, Append(s, x)) = Step(Leads(base, s), x)
<1> DEFINE t == Append(s, x)
           w == Walk(base, s)
           v == Walk(base, t)
           Same == {k \in 0 .. Len(s) : v[k] = w[k]}
<1>1. /\ t \in Seq(AnyName) /\ Len(s) \in Nat /\ Len(t) = Len(s) + 1
      /\ \A i \in 1 .. Len(s) : t[i] = s[i]
      /\ t[Len(s) + 1] = x
  BY AppendProperties, LenProperties
<1>2. /\ w \in [0 .. Len(s) -> Seq(Names)] /\ w[0] = base
      /\ \A k \in 1 .. Len(s) : w[k] = Step(w[k - 1], s[k])
  BY WalkSteps
<1> HIDE DEF w, t
<1>3. v[0] = base /\ \A k \in 1 .. Len(t) : v[k] = Step(v[k - 1], t[k])
  BY <1>1, WalkSteps
<1> HIDE DEF v
<1>4. 0 \in Same
  BY <1>1, <1>2, <1>3
<1>5. ASSUME NEW k \in 1 .. Len(s), k - 1 \in Same
      PROVE  k \in Same
  <2>1. k \in 1 .. Len(t) /\ k \in 0 .. Len(s) /\ t[k] = s[k] /\ v[k - 1] = w[k - 1]
    BY <1>1, <1>5
  <2>2. v[k] = w[k]
    BY <1>2, <1>3, <2>1
  <2>3. QED
    BY <2>1, <2>2
<1> HIDE DEF Same
<1>6. \A k \in 0 .. Len(s) : k \in Same
  BY <1>1, <1>4, <1>5, StepByStep, Zenon
<1>7. v[Len(s)] = w[Len(s)] /\ Len(s) \in 0 .. Len(s)
  BY <1>1, <1>6 DEF Same
<1>8. v[Len(t)] = Step(v[Len(s)], x)
  <2>1. Len(t) \in 1 .. Len(t) /\ Len(t) - 1 = Len(s) /\ t[Len(t)] = x
    BY <1>1
  <2>2. QED
    BY <1>3, <2>1
<1>9. QED
  BY <1>2, <1>7, <1>8 DEF Leads, w, v, t

(* What normalize removes does not change where a path leads.              *)
LEMMA StacksLead ==
    ASSUME NEW base \in Seq(Names), NEW names \in Seq(AnyName)
    PROVE  LET after == Stacks([root |-> FALSE, names |-> names])
           IN  \A k \in 0 .. Len(names) : Leads(base, after[k]) = Walk(base, names)[k]
<1> DEFINE after == Stacks([root |-> FALSE, names |-> names])
           n == Len(names)
           N == Names \cup {".."}
           Same == {k \in 0 .. n : Leads(base, after[k]) = Walk(base, names)[k]}
<1>1. n \in Nat /\ \A k \in 1 .. n : names[k] \in AnyName
  OBVIOUS
<1>2. /\ after \in [0 .. n -> Seq(N)] /\ after[0] = <<>>
      /\ \A k \in 1 .. n : after[k] = Push(FALSE, after[k - 1], names[k])
  <2>1. N \cup {"."} = AnyName
    BY DEF AnyName
  <2>2. names \in Seq(N \cup {"."})
    BY <2>1, Zenon
  <2>3. QED
    BY <2>2, StackSteps
<1>3. /\ Walk(base, names)[0] = base
      /\ \A k \in 1 .. n : Walk(base, names)[k] = Step(Walk(base, names)[k - 1], names[k])
  BY WalkSteps
<1>4. Leads(base, <<>>) = base
  <2>1. <<>> \in Seq(AnyName) /\ Len(<<>>) = 0
    OBVIOUS
  <2>2. Walk(base, <<>>)[0] = base
    BY <2>1, WalkSteps
  <2>3. QED
    BY <2>1, <2>2 DEF Leads
<1> HIDE DEF after, n
<1>5. 0 \in Same
  BY <1>1, <1>2, <1>3, <1>4
<1>6. ASSUME NEW k \in 1 .. n, k - 1 \in Same
      PROVE  k \in Same
  <2> DEFINE s == after[k - 1]
             x == names[k]
  <2>1. /\ k \in 0 .. n /\ k - 1 \in 0 .. n /\ s \in Seq(N) /\ x \in AnyName
        /\ Leads(base, s) = Walk(base, names)[k - 1]
    BY <1>1, <1>2, <1>6
  <2>2. after[k] = Push(FALSE, s, x) /\ Walk(base, names)[k] = Step(Leads(base, s), x)
    BY <1>2, <1>3, <2>1
  <2>3. s \in Seq(AnyName) /\ N \subseteq AnyName
    BY <2>1 DEF AnyName
  <2> HIDE DEF s, x
  <2>4. Leads(base, Push(FALSE, s, x)) = Step(Leads(base, s), x)
    <3>1. CASE x = "."
      BY <3>1 DEF Push, Step
    <3>2. CASE x = ".." /\ s # <<>> /\ Last(s) # ".."
      <4>1. Front(s) \in Seq(N) /\ Last(s) \in Names /\ s = Append(Front(s), Last(s))
        <5> HIDE DEF N
        <5>1. Front(s) \in Seq(N) /\ Last(s) \in N /\ s = Append(Front(s), Last(s))
          BY <2>1, <3>2, FrontFacts, Zenon
        <5>2. QED
          BY <3>2, <5>1 DEF N
      <4>2. Front(s) \in Seq(AnyName) /\ Last(s) \in AnyName /\ Last(s) \notin {".", ".."}
        BY <2>3, <4>1, PathAssumption
      <4>3. /\ Leads(base, Front(s)) \in Seq(Names)
            /\ Leads(base, s) = Step(Leads(base, Front(s)), Last(s))
        BY <4>1, <4>2, LeadsAppend, Zenon
      <4>4. Leads(base, s) = Append(Leads(base, Front(s)), Last(s))
        BY <4>2, <4>3 DEF Step
      <4>5. Front(Leads(base, s)) = Leads(base, Front(s))
        BY <4>1, <4>3, <4>4, FrontOfAppend 
      <4>6. QED
        BY <3>2, <4>5 DEF Push, Step
    <3>3. CASE x # "." /\ ~(x = ".." /\ s # <<>> /\ Last(s) # "..")
      <4>1. Push(FALSE, s, x) = Append(s, x)
        BY <3>3 DEF Push
      <4>2. QED
        BY <2>1, <2>3, <4>1, LeadsAppend
    <3>4. QED
      BY <3>1, <3>2, <3>3
  <2>5. QED
    BY <2>1, <2>2, <2>4
<1> HIDE DEF Same
<1>7. \A k \in 0 .. n : k \in Same
  BY <1>1, <1>5, <1>6, StepByStep, Zenon
<1>8. QED
  BY <1>7 DEF Same, after, n

(* A path is built up name by name.                                        *)
LEMMA PrefixAppend ==
    ASSUME NEW S, NEW s \in Seq(S)
    PROVE  /\ SubSeq(s, 1, 0) = <<>> /\ SubSeq(s, 1, Len(s)) = s
           /\ \A k \in 1 .. Len(s) :
                /\ SubSeq(s, 1, k - 1) \in Seq(S) /\ s[k] \in S
                /\ SubSeq(s, 1, k) = Append(SubSeq(s, 1, k - 1), s[k])
<1>1. SubSeq(s, 1, 0) = <<>> /\ SubSeq(s, 1, Len(s)) = s
  BY SubSeqEmpty, SubSeqFull
<1>2. ASSUME NEW k \in 1 .. Len(s)
      PROVE  /\ SubSeq(s, 1, k - 1) \in Seq(S) /\ s[k] \in S
             /\ SubSeq(s, 1, k) = Append(SubSeq(s, 1, k - 1), s[k])
  <2>1. s[k] \in S /\ k - 1 \in Int /\ 1 \in Int /\ \A i \in 1 .. k - 1 : s[i] \in S
    BY <1>2
  <2>2. SubSeq(s, 1, k - 1) \in Seq(S)
    BY <2>1, SubSeqProperties
  <2>3. Append(SubSeq(s, 1, k - 1), s[k]) = SubSeq(s, 1, k - 1) \o <<s[k]>>
    BY <2>1, <2>2, AppendIsConcat
  <2>4. SubSeq(s, 1, k) = SubSeq(s, 1, k - 1) \o <<s[k]>>
    <3>1. 1 \in 1 .. Len(s) /\ k \in 1 .. Len(s)
      BY <1>2
    <3>2. QED
      BY <3>1, SubSeqRecursiveSecond
  <2>5. QED
    BY <2>1, <2>2, <2>3, <2>4
<1>3. QED
  BY <1>1, <1>2

(* No names lead nowhere else.                                             *)
LEMMA LeadsNowhere ==
    ASSUME NEW base \in Seq(Names)
    PROVE  Leads(base, <<>>) = base
<1>1. <<>> \in Seq(AnyName) /\ Len(<<>>) = 0
  OBVIOUS
<1>2. Walk(base, <<>>)[0] = base
  BY <1>1, WalkSteps
<1>3. QED
  BY <1>1, <1>2 DEF Leads

(* What is appended to a sequence is so behind any other.                  *)
LEMMA ConcatAppend ==
    ASSUME NEW S, NEW a \in Seq(S), NEW b \in Seq(S), NEW e \in S
    PROVE  a \o Append(b, e) = Append(a \o b, e)
<1>1. /\ a \o b \in Seq(S) /\ <<e>> \in Seq(S)
      /\ Append(b, e) = b \o <<e>>
  BY ConcatProperties, AppendIsConcat
<1>2. Append(a \o b, e) = (a \o b) \o <<e>>
  BY <1>1, AppendIsConcat
<1>3. a \o (b \o <<e>>) = (a \o b) \o <<e>>
  BY <1>1, ConcatAssociative
<1>4. QED
  BY <1>1, <1>2, <1>3

(* Where a path leads is where its second part leads from where the first  *)
(* one does.                                                               *)
LEMMA LeadsConcat ==
    ASSUME NEW base \in Seq(Names), NEW a \in Seq(AnyName), NEW b \in Seq(AnyName)
    PROVE  Leads(base, a \o b) = Leads(Leads(base, a), b)
<1> DEFINE from == Leads(base, a)
           Same == {k \in 0 .. Len(b) :
                      Leads(base, a \o SubSeq(b, 1, k)) = Leads(from, SubSeq(b, 1, k))}
<1>1. from \in Seq(Names)
  <2>1. \A x \in AnyName : from \in Seq(Names)
    BY LeadsAppend
  <2>2. "." \in AnyName
    BY DEF AnyName
  <2>3. QED
    BY <2>1, <2>2, Zenon
<1> HIDE DEF from
<1>2. Len(b) \in Nat
  OBVIOUS
<1>3. SubSeq(b, 1, 0) = <<>> /\ SubSeq(b, 1, Len(b)) = b
  BY PrefixAppend
<1>4. 0 \in Same
  <2>1. a \o <<>> = a /\ Leads(from, <<>>) = from
    BY <1>1, ConcatEmptySeq, LeadsNowhere
  <2>2. Leads(base, a \o SubSeq(b, 1, 0)) = Leads(from, SubSeq(b, 1, 0))
    BY <1>3, <2>1, Zenon DEF from
  <2>3. QED
    BY <1>2, <2>2
<1>5. ASSUME NEW k \in 1 .. Len(b), k - 1 \in Same
      PROVE  k \in Same
  <2> DEFINE s == SubSeq(b, 1, k - 1)
             x == b[k]
  <2>1. s \in Seq(AnyName) /\ x \in AnyName /\ SubSeq(b, 1, k) = Append(s, x)
    BY PrefixAppend
  <2>2. Leads(base, a \o s) = Leads(from, s)
    BY <1>5
  <2> HIDE DEF s, x
  <2>3. a \o s \in Seq(AnyName) /\ a \o Append(s, x) = Append(a \o s, x)
    BY <2>1, ConcatAppend, ConcatProperties
  <2>4. Leads(base, Append(a \o s, x)) = Step(Leads(base, a \o s), x)
    BY <2>1, <2>3, LeadsAppend, Zenon
  <2>5. Leads(from, Append(s, x)) = Step(Leads(from, s), x)
    BY <1>1, <2>1, LeadsAppend, Zenon
  <2>6. Leads(base, a \o SubSeq(b, 1, k)) = Leads(from, SubSeq(b, 1, k))
    BY <2>1, <2>2, <2>3, <2>4, <2>5, Zenon
  <2>7. k \in 0 .. Len(b)
    BY <1>2
  <2>8. QED
    BY <2>6, <2>7
<1> HIDE DEF Same
<1>6. \A k \in 0 .. Len(b) : k \in Same
  BY <1>2, <1>4, <1>5, StepByStep, Zenon
<1>7. Len(b) \in 0 .. Len(b)
  BY <1>2
<1>8. Leads(base, a \o SubSeq(b, 1, Len(b))) = Leads(from, SubSeq(b, 1, Len(b)))
  BY <1>6, <1>7 DEF Same
<1>9. QED
  BY <1>3, <1>8, Zenon DEF from

(* Names alone lead deeper into a folder.                                  *)
LEMMA NamesLead ==
    ASSUME NEW base \in Seq(Names), NEW a \in Seq(Names)
    PROVE  Leads(base, a) = base \o a
<1> DEFINE Deep == {k \in 0 .. Len(a) : Leads(base, SubSeq(a, 1, k)) = base \o SubSeq(a, 1, k)}
<1>1. Len(a) \in Nat
  OBVIOUS
<1>2. SubSeq(a, 1, 0) = <<>> /\ SubSeq(a, 1, Len(a)) = a
  BY PrefixAppend
<1>3. 0 \in Deep
  <2>1. base \o <<>> = base /\ Leads(base, <<>>) = base
    BY ConcatEmptySeq, LeadsNowhere
  <2>2. Leads(base, SubSeq(a, 1, 0)) = base \o SubSeq(a, 1, 0)
    BY <1>2, <2>1, Zenon
  <2>3. QED
    BY <1>1, <2>2
<1>4. ASSUME NEW k \in 1 .. Len(a), k - 1 \in Deep
      PROVE  k \in Deep
  <2> DEFINE s == SubSeq(a, 1, k - 1)
             x == a[k]
  <2>1. s \in Seq(Names) /\ x \in Names /\ SubSeq(a, 1, k) = Append(s, x)
    BY PrefixAppend
  <2>2. Leads(base, s) = base \o s
    BY <1>4
  <2> HIDE DEF s, x
  <2>3. s \in Seq(AnyName) /\ x \in AnyName /\ x \notin {".", ".."}
    BY <2>1, PathAssumption DEF AnyName
  <2>4. Leads(base, Append(s, x)) = Step(Leads(base, s), x)
    BY <2>3, LeadsAppend, Zenon
  <2>5. Step(Leads(base, s), x) = Append(Leads(base, s), x)
    BY <2>3 DEF Step
  <2>6. base \o Append(s, x) = Append(base \o s, x)
    BY <2>1, ConcatAppend
  <2>7. Leads(base, SubSeq(a, 1, k)) = base \o SubSeq(a, 1, k)
    BY <2>1, <2>2, <2>4, <2>5, <2>6, Zenon
  <2>8. k \in 0 .. Len(a)
    BY <1>1
  <2>9. QED
    BY <2>7, <2>8
<1> HIDE DEF Deep
<1>5. \A k \in 0 .. Len(a) : k \in Deep
  BY <1>1, <1>3, <1>4, StepByStep, Zenon
<1>6. Len(a) \in 0 .. Len(a)
  BY <1>1
<1>7. Leads(base, SubSeq(a, 1, Len(a))) = base \o SubSeq(a, 1, Len(a))
  BY <1>5, <1>6 DEF Deep
<1>8. QED
  BY <1>2, <1>7, Zenon

(* What is left of a path from the root is where it leads.                 *)
LEMMA RootedStacks ==
    ASSUME NEW names \in Seq(AnyName)
    PROVE  LET after == Stacks([root |-> TRUE, names |-> names])
           IN  \A k \in 0 .. Len(names) : after[k] = Walk(<<>>, names)[k] /\ after[k] \in Seq(Names)
<1> DEFINE after == Stacks([root |-> TRUE, names |-> names])
           w == Walk(<<>>, names)
           n == Len(names)
           Same == {k \in 0 .. n : after[k] = w[k]}
<1>1. n \in Nat /\ <<>> \in Seq(Names)
  OBVIOUS
<1>2. after[0] = <<>> /\ \A k \in 1 .. n : after[k] = Push(TRUE, after[k - 1], names[k])
  <2>1. (Names \cup {".."}) \cup {"."} = AnyName /\ TRUE \in BOOLEAN
    BY DEF AnyName
  <2>2. names \in Seq((Names \cup {".."}) \cup {"."})
    BY <2>1, Zenon
  <2>3. QED
    BY <2>1, <2>2, StackSteps
<1>3. /\ w \in [0 .. n -> Seq(Names)] /\ w[0] = <<>>
      /\ \A k \in 1 .. n : w[k] = Step(w[k - 1], names[k])
  BY <1>1, WalkSteps
<1> HIDE DEF after, w, n
<1>4. 0 \in Same
  BY <1>1, <1>2, <1>3
<1>5. ASSUME NEW k \in 1 .. n, k - 1 \in Same
      PROVE  k \in Same
  <2> DEFINE s == w[k - 1]
             x == names[k]
  <2>1. k \in 0 .. n /\ k - 1 \in 0 .. n /\ after[k - 1] = w[k - 1]
    BY <1>1, <1>5
  <2>2. s \in Seq(Names)
    BY <1>3, <2>1
  <2>3. after[k] = Push(TRUE, s, x) /\ w[k] = Step(s, x)
    BY <1>2, <1>3, <2>1
  <2> HIDE DEF s, x
  <2>4. Push(TRUE, s, x) = Step(s, x)
    <3>1. CASE x = ".." /\ s = <<>>
      <4>1. Front(s) = <<>>
        <5>1. Len(s) - 1 \in Int /\ Len(s) - 1 < 1 /\ 1 \in Int
          BY <3>1
        <5>2. SubSeq(s, 1, Len(s) - 1) = <<>>
          BY <5>1, SubSeqEmpty
        <5>3. QED
          BY <3>1, <5>2 DEF Front
      <4>2. QED
        BY <3>1, <4>1 DEF Push, Step
    <3>2. CASE x = ".." /\ s # <<>>
      <4>1. Last(s) \in Names
        BY <2>2, <3>2, FrontFacts
      <4>2. Last(s) # ".."
        BY <4>1, PathAssumption
      <4>3. QED
        BY <3>2, <4>2 DEF Push, Step
    <3>3. CASE x # ".."
      BY <3>3 DEF Push, Step
    <3>4. QED
      BY <3>1, <3>2, <3>3
  <2>5. QED
    BY <2>1, <2>3, <2>4
<1> HIDE DEF Same
<1>6. \A k \in 0 .. n : k \in Same
  BY <1>1, <1>4, <1>5, StepByStep, Zenon
<1>7. QED
  BY <1>3, <1>6 DEF Same, after, w, n

(* What names are left lead where the path does.                           *)
LEMMA NormalizeKeepsFile ==
    ASSUME NEW root \in BOOLEAN, NEW names \in Seq(AnyName), NEW base \in Seq(Names)
    PROVE  LET p == [root |-> root, names |-> names]
           IN  File(normalize(p), base) = File(p, base)
<1> DEFINE p == [root |-> root, names |-> names]
           n == Len(names)
<1>1. n \in 0 .. n
  OBVIOUS
<1>2. normalize(p) = [root |-> root, names |-> Stacks(p)[n]]
  BY DEF normalize
<1>3. CASE ~root
  <2>1. root = FALSE
    BY <1>3
  <2>2. Leads(base, Stacks(p)[n]) = Walk(base, names)[n]
    BY <1>1, <2>1, StacksLead
  <2>3. QED
    BY <1>2, <2>1, <2>2 DEF File, Leads
<1>4. CASE root
  <2>1. root = TRUE /\ <<>> \in Seq(Names)
    BY <1>4
  <2>2. Stacks(p)[n] = Walk(<<>>, names)[n] /\ Stacks(p)[n] \in Seq(Names)
    BY <1>1, <2>1, RootedStacks
  <2>3. Leads(<<>>, Stacks(p)[n]) = <<>> \o Stacks(p)[n]
    BY <2>1, <2>2, NamesLead
  <2>4. <<>> \o Stacks(p)[n] = Stacks(p)[n]
    BY <2>2, ConcatEmptySeq
  <2>5. File(normalize(p), base) = Leads(<<>>, Stacks(p)[n])
    BY <1>2, <2>1 DEF File
  <2>6. File(p, base) = Walk(<<>>, names)[n]
    BY <2>1 DEF File, Leads
  <2>7. QED
    BY <2>2, <2>3, <2>4, <2>5, <2>6, Zenon
<1>5. QED
  BY <1>3, <1>4

(* As long as a path stays in its folder, what is left after each name are *)
(* names only, and a ".." finds one to remove.                             *)
LEMMA InsideStacks ==
    ASSUME NEW names \in Seq(AnyName), NEW base \in Seq(Names), base # <<>>, Stay(base, names)
    PROVE  LET after == Stacks([root |-> FALSE, names |-> names])
           IN  /\ \A k \in 0 .. Len(names) : after[k] \in Seq(Names)
               /\ \A k \in 1 .. Len(names) : names[k] = ".." => after[k - 1] # <<>>
<1> DEFINE after == Stacks([root |-> FALSE, names |-> names])
           n == Len(names)
           w == Walk(base, names)
           Good == {k \in 0 .. n : after[k] \in Seq(Names)}
<1>1. n \in Nat /\ \A k \in 1 .. n : names[k] \in AnyName
  OBVIOUS
<1>2. \A k \in 1 .. n : IsPrefix(base, w[k])
  BY DEF Stay
<1>3. after[0] = <<>> /\ \A k \in 1 .. n : after[k] = Push(FALSE, after[k - 1], names[k])
  <2>1. (Names \cup {".."}) \cup {"."} = AnyName /\ FALSE \in BOOLEAN
    BY DEF AnyName
  <2>2. names \in Seq((Names \cup {".."}) \cup {"."})
    BY <2>1, Zenon
  <2>3. QED
    BY <2>1, <2>2, StackSteps
<1>4. /\ \A k \in 1 .. n : w[k] = Step(w[k - 1], names[k])
      /\ \A k \in 0 .. n : Leads(base, after[k]) = w[k]
  BY WalkSteps, StacksLead
<1> HIDE DEF n, after, w
<1>a. <<>> \in Seq(Names) /\ \A s \in Seq(Names), x \in Names : Append(s, x) \in Seq(Names)
  BY AppendProperties
<1>5. 0 \in Good
  <2>1. 0 \in 0 .. n
    BY <1>1
  <2>2. QED
    BY <1>3, <1>a, <2>1, Zenon
<1>6. ASSUME NEW k \in 1 .. n, k - 1 \in Good, names[k] = ".."
      PROVE  after[k - 1] # <<>>
  <2>1. SUFFICES ASSUME after[k - 1] = <<>> PROVE FALSE
    OBVIOUS
  <2>2. Leads(base, <<>>) = base /\ k - 1 \in 0 .. n
    BY <1>1, LeadsNowhere
  <2>3. w[k - 1] = base
    BY <1>4, <2>1, <2>2
  <2>4. w[k] = Front(base)
    BY <1>4, <1>6, <2>3 DEF Step
  <2>5. Len(Front(base)) = Len(base) - 1 /\ Len(base) \in Nat
    BY FrontFacts
  <2>6. Len(base) <= Len(w[k])
    BY <1>2 DEF IsPrefix
  <2>7. QED
    BY <2>4, <2>5, <2>6
<1>7. ASSUME NEW k \in 1 .. n, k - 1 \in Good
      PROVE  k \in Good
  <2> DEFINE s == after[k - 1]
             x == names[k]
  <2>a. k \in 0 .. n /\ x \in AnyName
    BY <1>1
  <2>b. s \in Seq(Names) /\ (x = ".." => s # <<>>)
    BY <1>6, <1>7, Zenon
  <2>c. after[k] = Push(FALSE, s, x)
    BY <1>3, Zenon
  <2>1. /\ k \in 0 .. n /\ s \in Seq(Names) /\ x \in AnyName
        /\ after[k] = Push(FALSE, s, x) /\ (x = ".." => s # <<>>)
    BY <2>a, <2>b, <2>c, Zenon
  <2> HIDE DEF s, x
  <2>2. Push(FALSE, s, x) \in Seq(Names)
    <3>1. CASE x = "."
      BY <2>1, <3>1 DEF Push
    <3>2. CASE x = ".."
      <4>1. Front(s) \in Seq(Names) /\ Last(s) \in Names /\ s # <<>>
        BY <2>1, <3>2, FrontFacts
      <4>2. Last(s) # ".."
        BY <4>1, PathAssumption
      <4>3. Push(FALSE, s, x) = Front(s)
        BY <3>2, <4>1, <4>2 DEF Push
      <4>4. QED
        BY <4>1, <4>3
    <3>3. CASE x \in Names
      <4>1. x \notin {".", ".."}
        BY <3>3, PathAssumption
      <4>2. Push(FALSE, s, x) = Append(s, x)
        BY <4>1 DEF Push
      <4>3. QED
        BY <1>a, <2>1, <3>3, <4>2, Zenon
    <3>4. QED
      BY <2>1, <3>1, <3>2, <3>3 DEF AnyName
  <2>3. QED
    BY <2>1, <2>2
<1>8. \A k \in 0 .. n : k \in Good
  <2> HIDE DEF Good
  <2>1. QED
    BY <1>1, <1>5, <1>7, StepByStep, Zenon
<1>9. \A k \in 1 .. n : names[k] = ".." => after[k - 1] # <<>>
  <2>1. ASSUME NEW k \in 1 .. n, names[k] = ".."
        PROVE  after[k - 1] # <<>>
    <3>1. k - 1 \in Good
      BY <1>1, <1>8
    <3>2. QED
      BY <1>6, <2>1, <3>1
  <2>2. QED
    BY <2>1
<1>10. QED
  BY <1>8, <1>9 DEF n, after

(* If nothing is left after some names, normalize takes the others as if   *)
(* they were all.                                                          *)
LEMMA ShiftedStacks ==
    ASSUME NEW names \in Seq(AnyName), NEW m \in 0 .. Len(names),
           Stacks([root |-> FALSE, names |-> names])[m] = <<>>
    PROVE  LET others == SubSeq(names, m + 1, Len(names))
           IN  normalize([root |-> FALSE, names |-> others]) = normalize([root |-> FALSE, names |-> names])
<1> DEFINE others == SubSeq(names, m + 1, Len(names))
           n == Len(names)
           after == Stacks([root |-> FALSE, names |-> names])
           left == Stacks([root |-> FALSE, names |-> others])
           N == Names \cup {".."}
           Same == {k \in 0 .. n - m : left[k] = after[m + k]}
<1>1. n \in Nat /\ m \in Nat /\ n - m \in Nat /\ \A k \in 1 .. n : names[k] \in AnyName
  OBVIOUS
<1>2. /\ others \in Seq(AnyName) /\ Len(others) = n - m
      /\ \A k \in 1 .. n - m : others[k] = names[m + k]
  <2>1. \A i \in m + 1 .. n : names[i] \in AnyName
    BY <1>1
  <2>2. m + 1 \in Int /\ n \in Int
    BY <1>1
  <2>3. /\ others \in Seq(AnyName)
        /\ Len(others) = IF m + 1 <= n THEN n - (m + 1) + 1 ELSE 0
        /\ \A i \in 1 .. n - (m + 1) + 1 : others[i] = names[m + 1 + i - 1]
    BY <2>1, <2>2, SubSeqProperties
  <2> HIDE DEF others, n
  <2>4. QED
    BY <1>1, <2>3
<1>3. N \cup {"."} = AnyName /\ FALSE \in BOOLEAN
  BY DEF AnyName
<1> HIDE DEF others, n, N
<1>4. after[0] = <<>> /\ \A k \in 1 .. n : after[k] = Push(FALSE, after[k - 1], names[k])
  <2>1. names \in Seq(N \cup {"."})
    BY <1>3, Zenon
  <2>2. QED
    BY <1>3, <2>1, StackSteps DEF n
<1>5. left[0] = <<>> /\ \A k \in 1 .. n - m : left[k] = Push(FALSE, left[k - 1], others[k])
  <2>1. others \in Seq(N \cup {"."})
    BY <1>2, <1>3, Zenon
  <2>2. left[0] = <<>> /\ \A k \in 1 .. Len(others) : left[k] = Push(FALSE, left[k - 1], others[k])
    BY <1>3, <2>1, StackSteps
  <2>3. QED
    BY <1>2, <2>2, Zenon
<1>6. after[m] = <<>>
  OBVIOUS
<1>7. left[n - m] = normalize([root |-> FALSE, names |-> others]).names
      /\ after[n] = normalize([root |-> FALSE, names |-> names]).names
  BY <1>2 DEF normalize, n
<1>b. /\ normalize([root |-> FALSE, names |-> others]) = [root |-> FALSE, names |-> left[n - m]]
      /\ normalize([root |-> FALSE, names |-> names]) = [root |-> FALSE, names |-> after[n]]
  BY <1>2 DEF normalize, n
<1> HIDE DEF after, left
<1>8. 0 \in Same
  <2>1. m + 0 = m /\ 0 \in 0 .. n - m
    BY <1>1
  <2>2. QED
    BY <1>5, <1>6, <2>1
<1>9. ASSUME NEW k \in 1 .. n - m, k - 1 \in Same
      PROVE  k \in Same
  <2>1. /\ k \in 0 .. n - m /\ m + k \in 1 .. n /\ (m + k) - 1 = m + (k - 1)
        /\ left[k - 1] = after[m + (k - 1)]
    BY <1>1, <1>9
  <2>2. left[k] = Push(FALSE, left[k - 1], others[k]) /\ others[k] = names[m + k]
    BY <1>2, <1>5
  <2>3. after[m + k] = Push(FALSE, after[(m + k) - 1], names[m + k])
    BY <1>4, <2>1
  <2>4. left[k] = after[m + k]
    BY <2>1, <2>2, <2>3
  <2>5. QED
    BY <2>1, <2>4
<1> HIDE DEF Same
<1>10. \A k \in 0 .. n - m : k \in Same
  BY <1>1, <1>8, <1>9, StepByStep, Zenon
<1>11. left[n - m] = after[n]
  <2>1. n - m \in 0 .. n - m /\ m + (n - m) = n
    BY <1>1
  <2>2. QED
    BY <1>10, <2>1 DEF Same
<1>12. QED
  BY <1>b, <1>11 DEF others

(* The first of some numbers.                                              *)
LEMMA FirstOf ==
    ASSUME NEW I \in SUBSET Nat, I # {}
    PROVE  Min(I) \in I /\ \A y \in I : Min(I) <= y
<1>1. IsWellFoundedOn({r \in Nat \X Nat : r[1] < r[2]}, Nat)
  BY NatLessThanWellFounded, Zenon DEF OpToRel
<1>2. PICK m \in I : \A y \in I : ~(<<y, m>> \in {r \in Nat \X Nat : r[1] < r[2]})
  BY <1>1, WFMin, Zenon
<1>3. \A y \in I : m <= y
  <2>1. SUFFICES ASSUME NEW y \in I PROVE m <= y
    OBVIOUS
  <2>2. y \in Nat /\ m \in Nat /\ ~(<<y, m>> \in {r \in Nat \X Nat : r[1] < r[2]})
    BY <1>2
  <2>3. <<y, m>> \in Nat \X Nat /\ <<y, m>>[1] = y /\ <<y, m>>[2] = m
    BY <2>2
  <2>4. ~(y < m)
    BY <2>2, <2>3
  <2>5. QED
    BY <2>2, <2>4
<1>4. QED
  BY <1>2, <1>3 DEF Min

(* smatcher drops names only that normalize would have dropped.            *)
LEMMA ListedNormal ==
    ASSUME NEW names \in Seq(AnyName),
           \A k \in 1 .. Len(names) :
               names[k] = ".." => Stacks([root |-> FALSE, names |-> names])[k - 1] # <<>>,
           Undotted([root |-> FALSE, names |-> names])
    PROVE  Listed([root |-> FALSE, names |-> names]) = normalize([root |-> FALSE, names |-> names])
<1> DEFINE n == Len(names)
           after == Stacks([root |-> FALSE, names |-> names])
           N == Names \cup {".."}
           I == {k \in 1 .. n : names[k] \notin {".", ".."}}
<1>1. n \in Nat /\ \A k \in 1 .. n : names[k] \in AnyName
  OBVIOUS
<1>2. after[0] = <<>> /\ \A k \in 1 .. n : after[k] = Push(FALSE, after[k - 1], names[k])
  <2>1. N \cup {"."} = AnyName /\ FALSE \in BOOLEAN
    BY DEF AnyName
  <2>2. names \in Seq(N \cup {"."})
    BY <2>1, Zenon
  <2>3. QED
    BY <2>1, <2>2, StackSteps
<1>3. PICK m \in 0 .. n :
        /\ Strip([root |-> FALSE, names |-> names]) = [root |-> FALSE, names |-> SubSeq(names, m + 1, n)]
        /\ \A k \in 1 .. m : names[k] \in {".", ".."}
  <2>1. CASE I = {}
    <3>1. Strip([root |-> FALSE, names |-> names]) = [root |-> FALSE, names |-> <<>>]
      BY <2>1 DEF Strip, SelectInSeq
    <3>2. SubSeq(names, n + 1, n) = <<>>
      BY <1>1, SubSeqEmpty
    <3>3. n \in 0 .. n /\ \A k \in 1 .. n : names[k] \in {".", ".."}
      BY <1>1, <2>1
    <3>4. QED
      BY <3>1, <3>2, <3>3
  <2>2. CASE I # {}
    <3>1. Min(I) \in I /\ \A y \in I : Min(I) <= y
      <4>1. I \in SUBSET Nat
        BY <1>1
      <4> HIDE DEF I
      <4>2. QED
        BY <2>2, <4>1, FirstOf
    <3>2. Strip([root |-> FALSE, names |-> names]) = [root |-> FALSE, names |-> SubSeq(names, Min(I), n)]
      <4> DEFINE f == Min(I)
                 part == SubSeq(names, f, n)
      <4>1. f # 0 /\ f \in 1 .. n /\ names[f] \in Names /\ DOMAIN names = 1 .. n
        BY <1>1, <3>1 DEF AnyName
      <4>2. \A j \in 1 .. f - 1 : names[j] \notin Names
        BY <1>1, <3>1, PathAssumption
      <4>3. Bare[names[f]] = names[f]
        BY <4>1, <4>2 DEF Undotted
      <4>4. part \in Seq(AnyName) /\ Len(part) \in Nat \ {0} /\ part[1] = names[f]
        <5> HIDE DEF f, n
        <5>1. \A i \in f .. n : names[i] \in AnyName
          BY <1>1, <4>1
        <5>2. f \in Int /\ n \in Int /\ f <= n /\ 1 \in 1 .. n - f + 1 /\ f + 1 - 1 = f
          BY <1>1, <4>1
        <5>3. /\ SubSeq(names, f, n) \in Seq(AnyName) /\ Len(SubSeq(names, f, n)) = n - f + 1
              /\ SubSeq(names, f, n)[1] = names[f + 1 - 1]
          BY <5>1, <5>2, SubSeqProperties
        <5>4. QED
          BY <5>2, <5>3
      <4>5. [part EXCEPT ![1] = Bare[@]] = part
        <5>1. Bare[part[1]] = part[1]
          BY <4>3, <4>4
        <5> HIDE DEF part
        <5>2. part \in [1 .. Len(part) -> AnyName]
          BY <4>4
        <5>3. QED
          BY <5>1, <5>2
      <4>6. SelectInSeq(names, LAMBDA x : x \notin {".", ".."}) = f
        BY <2>2, <4>1 DEF SelectInSeq
      <4>7. Strip([root |-> FALSE, names |-> names])
              = [root |-> FALSE, names |-> [part EXCEPT ![1] = Bare[@]]]
        <5> HIDE DEF f
        <5>1. QED
          BY <4>1, <4>6 DEF Strip
      <4>8. QED
        BY <4>5, <4>7
    <3>3. PICK m \in 0 .. n : m + 1 = Min(I)
      <4>1. Min(I) \in 1 .. n
        BY <3>1
      <4>2. Min(I) - 1 \in 0 .. n /\ (Min(I) - 1) + 1 = Min(I)
        BY <1>1, <4>1
      <4>3. QED
        BY <4>2, Zenon
    <3>4. \A k \in 1 .. m : names[k] \in {".", ".."}
      <4>1. SUFFICES ASSUME NEW k \in 1 .. m, names[k] \notin {".", ".."} PROVE FALSE
        OBVIOUS
      <4>2. k \in 1 .. n /\ k < m + 1
        BY <1>1
      <4>3. k \in I
        BY <4>1, <4>2, Zenon
      <4> HIDE DEF I
      <4>4. m + 1 <= k
        BY <3>1, <3>3, <4>3, Zenon
      <4>5. QED
        BY <4>2, <4>4
    <3>5. QED
      BY <3>2, <3>3, <3>4
  <2>3. QED
    BY <2>1, <2>2
<1> DEFINE Empty == {k \in 0 .. m : after[k] = <<>>}
<1>4. 0 \in Empty /\ m \in Nat
  BY <1>1, <1>2, <1>3
<1>5. ASSUME NEW k \in 1 .. m, k - 1 \in Empty
      PROVE  k \in Empty
  <2>1. k \in 1 .. n /\ k \in 0 .. m /\ after[k - 1] = <<>> /\ names[k] \in {".", ".."}
    BY <1>1, <1>3, <1>5
  <2>2. names[k] = "."
    BY <2>1
  <2>3. after[k] = Push(FALSE, after[k - 1], names[k])
    BY <1>2, <2>1
  <2> HIDE DEF after
  <2>4. after[k] = <<>>
    BY <2>1, <2>2, <2>3 DEF Push
  <2>5. QED
    BY <2>1, <2>4
<1> HIDE DEF Empty
<1>6. \A k \in 0 .. m : k \in Empty
  BY <1>4, <1>5, StepByStep, Zenon
<1>7. after[m] = <<>>
  <2>1. m \in 0 .. m
    BY <1>4
  <2>2. m \in Empty
    BY <1>6, <2>1
  <2> HIDE DEF after
  <2>3. QED
    BY <2>2 DEF Empty
<1>8. normalize([root |-> FALSE, names |-> SubSeq(names, m + 1, n)]) = normalize([root |-> FALSE, names |-> names])
  BY <1>3, <1>7, ShiftedStacks, Zenon
<1>9. QED
  BY <1>3, <1>8, Zenon DEF Listed

(* normalize keeps a path of names.                                        *)
LEMMA NamesStay ==
    ASSUME NEW names \in Seq(Names)
    PROVE  normalize([root |-> FALSE, names |-> names]) = [root |-> FALSE, names |-> names]
<1> DEFINE n == Len(names)
           after == Stacks([root |-> FALSE, names |-> names])
           Same == {k \in 0 .. n : after[k] = SubSeq(names, 1, k)}
<1>1. n \in Nat /\ \A k \in 1 .. n : names[k] \in Names
  OBVIOUS
<1>2. after[0] = <<>> /\ \A k \in 1 .. n : after[k] = Push(FALSE, after[k - 1], names[k])
  <2>1. names \in Seq(Names \cup {"."}) /\ FALSE \in BOOLEAN
    OBVIOUS
  <2>2. QED
    BY <2>1, StackSteps
<1>3. normalize([root |-> FALSE, names |-> names]) = [root |-> FALSE, names |-> after[n]]
  BY DEF normalize
<1> HIDE DEF n, after
<1>4. 0 \in Same
  <2>1. SubSeq(names, 1, 0) = <<>>
    BY SubSeqEmpty
  <2>2. QED
    <3>1. 0 \in 0 .. n /\ after[0] = SubSeq(names, 1, 0)
      BY <1>1, <1>2, <2>1
    <3>2. QED
      BY <3>1
<1>5. ASSUME NEW k \in 1 .. n, k - 1 \in Same
      PROVE  k \in Same
  <2>1. k \in 0 .. n /\ after[k - 1] = SubSeq(names, 1, k - 1) /\ names[k] \in Names
    BY <1>1, <1>5
  <2>2. after[k] = Push(FALSE, after[k - 1], names[k])
    BY <1>2
  <2>3. names[k] \notin {".", ".."}
    BY <2>1, PathAssumption
  <2>4. after[k] = Append(SubSeq(names, 1, k - 1), names[k])
    BY <2>1, <2>2, <2>3 DEF Push
  <2>5. SubSeq(names, 1, k - 1) \in Seq(Names)
    <3>1. k - 1 \in Int /\ 1 \in Int /\ \A i \in 1 .. k - 1 : names[i] \in Names
      BY <1>1
    <3>2. QED
      BY <3>1, SubSeqProperties
  <2>6. Append(SubSeq(names, 1, k - 1), names[k]) = SubSeq(names, 1, k - 1) \o <<names[k]>>
    BY <2>1, <2>5, AppendIsConcat
  <2>7. SubSeq(names, 1, k) = SubSeq(names, 1, k - 1) \o <<names[k]>>
    <3>1. 1 \in 1 .. Len(names) /\ k \in 1 .. Len(names)
      BY <1>1 DEF n
    <3>2. QED
      BY <3>1, SubSeqRecursiveSecond
  <2>8. QED
    BY <2>1, <2>4, <2>6, <2>7
<1> HIDE DEF Same
<1>6. \A k \in 0 .. n : k \in Same
  BY <1>1, <1>4, <1>5, StepByStep, Zenon
<1>7. after[n] = SubSeq(names, 1, n) /\ SubSeq(names, 1, n) = names
  <2>1. n \in 0 .. n
    BY <1>1
  <2>2. QED
    BY <1>6, <2>1, SubSeqFull DEF Same, n
<1>8. QED
  BY <1>3, <1>7

(* What normalize and smatcher make of a path that stays in its folder.    *)
LEMMA NormalInside ==
    ASSUME NEW names \in Seq(AnyName), NEW base \in Seq(Names), base # <<>>, Stay(base, names)
    PROVE  LET p == [root |-> FALSE, names |-> names]
           IN  \E a \in Seq(Names) :
                 /\ normalize(p) = [root |-> FALSE, names |-> a]
                 /\ Undotted(p) => Listed(p) = [root |-> FALSE, names |-> a]
                 /\ \A home \in Seq(Names) : File(p, home) = home \o a
<1> DEFINE p == [root |-> FALSE, names |-> names]
           n == Len(names)
           a == Stacks(p)[n]
<1>1. n \in 0 .. n
  OBVIOUS
<1>2. /\ a \in Seq(Names)
      /\ \A k \in 1 .. n : names[k] = ".." => Stacks(p)[k - 1] # <<>>
  BY <1>1, InsideStacks
<1>3. normalize(p) = [root |-> FALSE, names |-> a]
  BY DEF normalize
<1>4. Undotted(p) => Listed(p) = normalize(p)
  BY <1>2, ListedNormal
<1>5. ASSUME NEW home \in Seq(Names)
      PROVE  File(p, home) = home \o a
  <2>1. Leads(home, a) = Walk(home, names)[n]
    BY <1>1, StacksLead
  <2>2. Leads(home, a) = home \o a
    <3> HIDE DEF a
    <3>1. QED
      BY <1>2, NamesLead
  <2>3. File(p, home) = Walk(home, names)[n]
    BY DEF File, Leads
  <2>4. QED
    BY <2>1, <2>2, <2>3, Zenon
<1> HIDE DEF a, p
<1>6. QED
  BY <1>2, <1>3, <1>4, <1>5, Zenon DEF p

(* Of a path whose names consist of letters, digits, "_" and "." the list  *)
(* of covered lines has all.                                               *)
LEMMA PlainMatched ==
    ASSUME NEW a \in Seq(Names),
           Plain([root |-> FALSE, names |-> a]), Undotted([root |-> FALSE, names |-> a])
    PROVE  Matched([root |-> FALSE, names |-> a]) = [root |-> FALSE, names |-> a]
<1> DEFINE q == [root |-> FALSE, names |-> a]
<1>1. \A i \in 1 .. Len(a) : a[i] \in Names /\ Rest[a[i]] = a[i]
  BY DEF Plain
<1>2. Found(q) = q
  BY <1>1 DEF Found, SelectLastInSeq
<1>3. a \in Seq(Names) /\ a \in Seq(AnyName)
  BY DEF AnyName
<1>4. \A k \in 1 .. Len(a) : a[k] # ".."
  BY <1>1, PathAssumption
<1>5. Listed(q) = normalize(q)
  BY <1>3, <1>4, ListedNormal
<1>6. normalize(q) = q
  BY <1>3, NamesStay
<1>7. QED
  BY <1>2, <1>5, <1>6, Zenon DEF Matched

(* A sequence that begins with another is that one and a rest.             *)
LEMMA PrefixRest ==
    ASSUME NEW S, NEW a \in Seq(S), NEW s \in Seq(S), IsPrefix(a, s)
    PROVE  LET tail == SubSeq(s, Len(a) + 1, Len(s))
           IN  tail \in Seq(S) /\ s = a \o tail
<1> DEFINE tail == SubSeq(s, Len(a) + 1, Len(s))
<1>1. /\ Len(a) \in Nat /\ Len(s) \in Nat /\ Len(a) <= Len(s)
      /\ SubSeq(a, 1, Len(a)) = SubSeq(s, 1, Len(a))
      /\ \A i \in 1 .. Len(s) : s[i] \in S
  BY DEF IsPrefix
<1>2. /\ tail \in Seq(S) /\ Len(tail) = Len(s) - Len(a)
      /\ \A i \in 1 .. Len(s) - Len(a) : tail[i] = s[Len(a) + i]
  <2> DEFINE m == Len(a) + 1
             n == Len(s)
  <2>1. m \in Int /\ n \in Int /\ \A i \in m .. n : s[i] \in S
    BY <1>1
  <2> HIDE DEF m, n
  <2>2. /\ SubSeq(s, m, n) \in Seq(S)
        /\ Len(SubSeq(s, m, n)) = IF m <= n THEN n - m + 1 ELSE 0
        /\ \A i \in 1 .. n - m + 1 : SubSeq(s, m, n)[i] = s[m + i - 1]
    BY <2>1, SubSeqProperties
  <2>3. QED
    BY <1>1, <2>2 DEF m, n
<1> HIDE DEF tail
<1>3. \A i \in 1 .. Len(a) : s[i] = a[i]
  <2>1. SUFFICES ASSUME NEW i \in 1 .. Len(a) PROVE s[i] = a[i]
    OBVIOUS
  <2>2. SubSeq(s, 1, Len(a))[i] = s[i]
    <3>1. 1 \in Int /\ Len(a) \in Int /\ \A j \in 1 .. Len(a) : s[j] \in S
      BY <1>1
    <3>2. \A j \in 1 .. Len(a) - 1 + 1 : SubSeq(s, 1, Len(a))[j] = s[1 + j - 1]
      BY <3>1, SubSeqProperties
    <3>3. i \in 1 .. Len(a) - 1 + 1 /\ 1 + i - 1 = i
      BY <1>1
    <3>4. QED
      BY <3>2, <3>3
  <2>3. SubSeq(a, 1, Len(a)) = a
    BY SubSeqFull
  <2>4. QED
    BY <1>1, <2>2, <2>3
<1>4. /\ a \o tail \in Seq(S) /\ Len(a \o tail) = Len(s)
      /\ \A i \in 1 .. Len(a) : (a \o tail)[i] = a[i]
      /\ \A i \in Len(a) + 1 .. Len(s) : (a \o tail)[i] = tail[i - Len(a)]
  BY <1>1, <1>2, ConcatProperties
<1>5. \A i \in 1 .. Len(s) : (a \o tail)[i] = s[i]
  <2>1. SUFFICES ASSUME NEW i \in 1 .. Len(s) PROVE (a \o tail)[i] = s[i]
    OBVIOUS
  <2>2. CASE i \in 1 .. Len(a)
    BY <1>3, <1>4, <2>2
  <2>3. CASE i \in Len(a) + 1 .. Len(s)
    <3>1. i - Len(a) \in 1 .. Len(s) - Len(a) /\ Len(a) + (i - Len(a)) = i
      BY <1>1, <2>3
    <3>2. (a \o tail)[i] = tail[i - Len(a)]
      BY <1>4, <2>3, Zenon
    <3>3. tail[i - Len(a)] = s[Len(a) + (i - Len(a))]
      BY <1>2, <3>1, Zenon
    <3>4. QED
      BY <3>1, <3>2, <3>3, Zenon
  <2>4. i \in 1 .. Len(a) \/ i \in Len(a) + 1 .. Len(s)
    <3> HIDE DEF tail
    <3>1. QED
      BY <1>1
  <2>5. QED
    BY <2>2, <2>3, <2>4, Zenon
<1>6. s = a \o tail
  BY <1>4, <1>5, SeqEqual
<1>7. QED
  BY <1>2, <1>6 DEF tail

(* ... and what is put behind it is that rest.                             *)
LEMMA RestOfConcat ==
    ASSUME NEW S, NEW a \in Seq(S), NEW b \in Seq(S)
    PROVE  /\ IsPrefix(a, a \o b)
           /\ SubSeq(a \o b, Len(a) + 1, Len(a \o b)) = b
<1> DEFINE s == a \o b
<1>1. /\ s \in Seq(S) /\ Len(s) = Len(a) + Len(b) /\ Len(a) \in Nat /\ Len(b) \in Nat
      /\ \A i \in 1 .. Len(a) : s[i] = a[i]
      /\ \A i \in 1 .. Len(s) : s[i] \in S
  BY ConcatProperties
<1> HIDE DEF s
<1>2. IsPrefix(a, s)
  <2>1. 1 \in Int /\ Len(a) \in Int /\ \A j \in 1 .. Len(a) : s[j] \in S
    BY <1>1
  <2>2. /\ SubSeq(s, 1, Len(a)) \in Seq(S)
        /\ Len(SubSeq(s, 1, Len(a))) = IF 1 <= Len(a) THEN Len(a) - 1 + 1 ELSE 0
        /\ \A j \in 1 .. Len(a) - 1 + 1 : SubSeq(s, 1, Len(a))[j] = s[1 + j - 1]
    BY <2>1, SubSeqProperties
  <2>3. Len(SubSeq(s, 1, Len(a))) = Len(a) /\ \A j \in 1 .. Len(a) : SubSeq(s, 1, Len(a))[j] = a[j]
    BY <1>1, <2>2
  <2>4. SubSeq(s, 1, Len(a)) = a
    BY <2>2, <2>3, SeqEqual
  <2>5. SubSeq(a, 1, Len(a)) = a
    BY SubSeqFull
  <2>6. QED
    BY <1>1, <2>4, <2>5 DEF IsPrefix
<1> DEFINE tail == SubSeq(s, Len(a) + 1, Len(s))
<1>3. tail \in Seq(S) /\ s = a \o tail
  BY <1>1, <1>2, PrefixRest
<1> HIDE DEF tail
<1>4. tail = b
  <2>1. \A x, y, z \in Seq(S) : x \o y = x \o z => y = z
    BY ConcatSimplifications
  <2>2. QED
    BY <1>3, <2>1, Zenon DEF s
<1>5. QED
  BY <1>2, <1>4, Zenon DEF s, tail

(* A path and its names.                                                   *)
LEMMA PathFacts ==
    ASSUME NEW p \in Paths
    PROVE  /\ p.root \in BOOLEAN /\ p.names \in Seq(AnyName)
           /\ p = [root |-> p.root, names |-> p.names]
<1>1. PICK n \in 1 .. MaxPath : p.names \in [1 .. n -> Names \cup {".", ".."}]
  BY DEF Paths
<1>2. p.root \in BOOLEAN /\ p = [root |-> p.root, names |-> p.names]
  BY DEF Paths
<1>3. n \in Nat
  BY PathAssumption
<1>4. p.names \in Seq(AnyName)
  BY <1>1, <1>3 DEF AnyName
<1>5. QED
  BY <1>2, <1>4

(* What strip_prefix leaves of the debug information's spelling leads to   *)
(* the same file, and so does what normalize makes of it.                  *)
LEMMA StrippedKeepsFile ==
    ASSUME PathInit
    PROVE  /\ dir \in Seq(Names) /\ dir # <<>>
           /\ Stripped.names \in Seq(AnyName) /\ Stripped.root \in BOOLEAN
           /\ Stripped = [root |-> Stripped.root, names |-> Stripped.names]
           /\ File(Stripped, dir) = File(shown, dir)
           /\ File(LineInfo, dir) = File(shown, dir)
<1> DEFINE names == shown.names
<1>1. /\ dir \in Seq(Names) /\ dir # <<>> /\ shown.root \in BOOLEAN /\ names \in Seq(AnyName)
      /\ shown = [root |-> shown.root, names |-> names]
  <2>1. dir \in Builds /\ shown \in Paths
    BY Zenon DEF PathInit, Spellings
  <2>2. Builds \subseteq Seq(Names) \ {<<>>}
    BY PathAssumption, Zenon
  <2>3. dir \in Seq(Names) \ {<<>>}
    BY <2>1, <2>2, Zenon
  <2>4. dir \in Seq(Names) /\ dir # <<>>
    BY <2>3, Zenon
  <2>5. QED
    BY <2>1, <2>4, PathFacts
<1> HIDE DEF names
<1>2. dir \in Seq(AnyName)
  BY <1>1 DEF AnyName
<1>3. \E root \in BOOLEAN, left \in Seq(AnyName) :
          /\ Stripped = [root |-> root, names |-> left]
          /\ File(Stripped, dir) = File(shown, dir)
  <2>1. CASE ~shown.root
    <3>1. Absolute(shown, dir) = dir \o names
      BY <2>1 DEF Absolute, names
    <3>2. Stripped = [root |-> FALSE, names |-> names]
      <4>1. IsPrefix(dir, dir \o names) /\ SubSeq(dir \o names, Len(dir) + 1, Len(dir \o names)) = names
        BY <1>1, <1>2, RestOfConcat
      <4>2. QED
        BY <3>1, <4>1, Zenon DEF Stripped, strip_prefix
    <3>3. shown = [root |-> FALSE, names |-> names]
      <4>1. shown.root = FALSE
        BY <1>1, <2>1
      <4>2. QED
        BY <1>1, <4>1, Zenon
    <3>4. Stripped = shown /\ FALSE \in BOOLEAN
      BY <3>2, <3>3, Zenon
    <3>5. QED
      BY <1>1, <3>2, <3>4, Zenon
  <2>2. CASE shown.root /\ IsPrefix(dir, names)
    <3> DEFINE tail == SubSeq(names, Len(dir) + 1, Len(names))
    <3>1. tail \in Seq(AnyName) /\ names = dir \o tail
      BY <1>1, <1>2, <2>2, PrefixRest
    <3>2. Stripped = [root |-> FALSE, names |-> tail]
      <4>1. Absolute(shown, dir) = names
        BY <2>2 DEF Absolute, names
      <4>2. QED
        BY <2>2, <4>1, Zenon DEF Stripped, strip_prefix
    <3> HIDE DEF tail
    <3>3. <<>> \in Seq(Names)
      OBVIOUS
    <3>4. Leads(<<>>, dir \o tail) = Leads(Leads(<<>>, dir), tail)
      BY <1>2, <3>1, <3>3, LeadsConcat
    <3>5. Leads(<<>>, dir) = dir
      <4>1. Leads(<<>>, dir) = <<>> \o dir
        BY <1>1, <3>3, NamesLead
      <4>2. <<>> \o dir = dir
        BY <1>1, ConcatEmptySeq
      <4>3. QED
        BY <4>1, <4>2, Zenon
    <3>6. File(shown, dir) = Leads(<<>>, names)
      BY <2>2 DEF File, names
    <3>7. File(Stripped, dir) = Leads(dir, tail)
      BY <3>2 DEF File
    <3>8. File(Stripped, dir) = File(shown, dir)
      BY <3>1, <3>4, <3>5, <3>6, <3>7, Zenon
    <3>9. FALSE \in BOOLEAN
      OBVIOUS
    <3>10. QED
      BY <3>1, <3>2, <3>8, <3>9, Zenon
  <2>3. CASE shown.root /\ ~IsPrefix(dir, names)
    <3>1. Absolute(shown, dir) = names /\ shown.root = TRUE
      BY <1>1, <2>3 DEF Absolute, names
    <3>2. Stripped = [root |-> TRUE, names |-> names]
      BY <2>3, <3>1, Zenon DEF Stripped, strip_prefix
    <3>3. Stripped = shown /\ TRUE \in BOOLEAN
      BY <1>1, <3>1, <3>2, Zenon
    <3>4. QED
      BY <1>1, <3>2, <3>3, Zenon
  <2>4. QED
    BY <2>1, <2>2, <2>3
<1>4. PICK root \in BOOLEAN, left \in Seq(AnyName) :
          /\ Stripped = [root |-> root, names |-> left]
          /\ File(Stripped, dir) = File(shown, dir)
  BY <1>3
<1>5. File(LineInfo, dir) = File(Stripped, dir)
  <2>1. File(normalize([root |-> root, names |-> left]), dir) = File([root |-> root, names |-> left], dir)
    BY <1>1, NormalizeKeepsFile
  <2>2. QED
    BY <1>4, <2>1, Zenon DEF LineInfo
<1>6. Stripped.names = left /\ Stripped.root = root
  BY <1>4
<1>7. QED
  BY <1>1, <1>4, <1>5, <1>6, Zenon

(* A name of the audit list.                                               *)
LEMMA ItemListed ==
    ASSUME PathInit, Undotted(item)
    PROVE  \E b \in Seq(Names) :
             /\ Listed(item) = [root |-> FALSE, names |-> b]
             /\ \A home \in Seq(Names) : File(item, home) = home \o b
<1> DEFINE names == item.names
<1>1. Source \in Seq(Names) /\ Source # <<>>
  BY PathAssumption, Zenon
<1>2. /\ item = [root |-> FALSE, names |-> names] /\ names \in Seq(AnyName)
      /\ Stay(Source, names)
  <2>1. item \in Paths /\ ~item.root /\ Stay(Source, names)
    BY DEF PathInit, Items
  <2>2. item.root \in BOOLEAN /\ names \in Seq(AnyName) /\ item = [root |-> item.root, names |-> names]
    BY <2>1, PathFacts
  <2>3. item.root = FALSE
    BY <2>1, <2>2, Zenon
  <2>4. QED
    BY <2>1, <2>2, <2>3, Zenon
<1> HIDE DEF names
<1>3. QED
  BY <1>1, <1>2, NormalInside, Zenon

(* smatcher takes a line for another exactly if their files are the same.  *)
LEMMA RecognisedSame ==
    ASSUME PathInit, OfKernel, Plain(Printed), Undotted(Printed), Undotted(item)
    PROVE  Recognised <=> File(shown, dir) = File(item, Home)
<1>1. PICK b \in Seq(Names) :
        /\ Listed(item) = [root |-> FALSE, names |-> b]
        /\ \A home \in Seq(Names) : File(item, home) = home \o b
  BY ItemListed
<1> DEFINE names == Stripped.names
<1>2. /\ dir \in Seq(Names) /\ dir # <<>> /\ names \in Seq(AnyName)
      /\ Stripped.root \in BOOLEAN /\ Stripped = [root |-> Stripped.root, names |-> names]
      /\ File(Stripped, dir) = File(shown, dir)
  BY StrippedKeepsFile, Zenon
<1> HIDE DEF names
<1>3. \E a \in Seq(Names) :
        /\ Home \in Seq(Names) /\ Printed = [root |-> FALSE, names |-> a]
        /\ File(shown, dir) = Home \o a
  <2>1. CASE ~Stripped.root
    <3>1. /\ Stripped = [root |-> FALSE, names |-> names] /\ Stay(dir, names) /\ Home = dir
      <4>1. Stripped.root = FALSE
        BY <1>2, <2>1, Zenon
      <4>2. QED
        BY <1>2, <4>1, Zenon DEF OfKernel, Home, names
    <3>2. PICK a \in Seq(Names) :
            /\ normalize(Stripped) = [root |-> FALSE, names |-> a]
            /\ \A home \in Seq(Names) : File(Stripped, home) = home \o a
      BY <1>2, <3>1, NormalInside, Zenon
    <3>3. Printed = [root |-> FALSE, names |-> a]
      BY <3>2 DEF Printed, StripSource, LineInfo
    <3>4. QED
      BY <1>2, <3>1, <3>2, <3>3, Zenon
  <2>2. CASE Stripped.root
    <3>1. /\ Stripped = [root |-> TRUE, names |-> names] /\ Home = Source
          /\ IsPrefix(Source, File(Stripped, dir))
      <4>1. Stripped.root = TRUE
        BY <1>2, <2>2, Zenon
      <4>2. QED
        BY <1>2, <4>1, Zenon DEF OfKernel, Home
    <3> DEFINE n == Len(names)
               whole == Stacks([root |-> TRUE, names |-> names])[n]
               a == SubSeq(whole, Len(Source) + 1, Len(whole))
    <3>2. n \in 0 .. n
      BY <1>2
    <3>3. whole = Walk(<<>>, names)[n] /\ whole \in Seq(Names)
      BY <1>2, <3>2, RootedStacks
    <3>4. File(Stripped, dir) = whole
      <4>1. File(Stripped, dir) = Leads(<<>>, names)
        BY <3>1 DEF File
      <4>2. QED
        BY <3>3, <4>1 DEF Leads
    <3>5. LineInfo = [root |-> TRUE, names |-> whole]
      BY <3>1 DEF LineInfo, normalize
    <3> HIDE DEF whole
    <3>6. Source \in Seq(Names) /\ IsPrefix(Source, whole)
      BY <3>1, <3>4, PathAssumption, Zenon
    <3>7. a \in Seq(Names) /\ whole = Source \o a
      BY <3>3, <3>6, PrefixRest
    <3>8. Printed = [root |-> FALSE, names |-> a]
      BY <3>5, <3>6 DEF Printed, StripSource
    <3> HIDE DEF a
    <3>9. QED
      BY <1>2, <3>1, <3>4, <3>6, <3>7, <3>8, Zenon
  <2>3. QED
    BY <2>1, <2>2
<1>4. PICK a \in Seq(Names) :
        /\ Home \in Seq(Names) /\ Printed = [root |-> FALSE, names |-> a]
        /\ File(shown, dir) = Home \o a
  BY <1>3
<1>5. Matched(Printed) = [root |-> FALSE, names |-> a]
  BY <1>4, PlainMatched, Zenon
<1>6. Recognised <=> a = b
  <2>1. Recognised <=> [root |-> FALSE, names |-> a] = [root |-> FALSE, names |-> b]
    BY <1>1, <1>5, Zenon DEF Recognised
  <2>2. [root |-> FALSE, names |-> a].names = a /\ [root |-> FALSE, names |-> b].names = b
    OBVIOUS
  <2>3. QED
    BY <2>1, <2>2, Zenon
<1>7. File(item, Home) = Home \o b
  BY <1>1, <1>4, Zenon
<1>8. Home \o a = Home \o b => a = b
  <2>1. \A s, t, v \in Seq(Names) : s \o t = s \o v => t = v
    BY ConcatSimplifications
  <2>2. QED
    BY <1>4, <2>1, Zenon
<1>9. QED
  BY <1>4, <1>6, <1>7, <1>8, Zenon

(* SpellingsAgree holds for all names, folders and paths of any length:    *)
(* stripping and normalizing a path of the debug information keeps its     *)
(* file, and smatcher takes a covered line of the kernel for one of the    *)
(* audit list exactly if it is of the same file, where the names are plain *)
(* and do not begin with a dot.                                            *)
THEOREM SpellingAgreement == PathSpec => []SpellingsAgree
<1>1. PathInit => SpellingsAgree
  BY StrippedKeepsFile, RecognisedSame DEF SpellingsAgree
<1>2. SpellingsAgree /\ [FALSE]_<<dir, shown, item>> => SpellingsAgree'
  <2>1. SUFFICES ASSUME SpellingsAgree, UNCHANGED <<dir, shown, item>>
                 PROVE  SpellingsAgree'
    BY Zenon
  <2>2. dir' = dir /\ shown' = shown /\ item' = item
    BY <2>1
  <2>3. QED
    BY <2>1, <2>2
       DEF SpellingsAgree, Recognised, Printed, LineInfo, Stripped, OfKernel, Home
<1>3. QED
  BY <1>1, <1>2, PTL DEF PathSpec
=============================================================================
