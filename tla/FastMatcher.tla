----------------------------- MODULE FastMatcher -----------------------------
(***************************************************************************)
(* start() of bkc/coverage/fast_matcher/src/lib.rs: nproc threads pull     *)
(* trace files from a shared queue, read the address ranges each covers,   *)
(* and insert them into one set of ranges behind a RwLock; the main thread *)
(* joins them and reports the lines of the set.                            *)
(*                                                                         *)
(* Every thread, and the main thread after the joins, parses the debug     *)
(* information of vmlinux on its own; if it does not parse, all of them    *)
(* panic.  Reading a trace ends in its ranges or in a panic of the thread: *)
(* a file that cannot be opened, is not lz4, or holds a word that is not a *)
(* number, or an address whose function has no name to show (the unwraps   *)
(* and panics of read_trace_file_get_ranges).  The panic ends the thread   *)
(* and nothing else.  The main thread panics if the debug information      *)
(* gives an address of the set a location without a file or a line.  What  *)
(* the ranges of a file are is the subject of TraceReader; the checks of   *)
(* the files before the threads begin are left out.                        *)
(***************************************************************************)
EXTENDS Naturals, Sequences, FiniteSets

CONSTANTS
    Traces,   \* trace files below <workdir>/traces
    Threads,  \* the nproc threads
    Addrs,    \* addresses
    Covers,   \* addresses of the ranges of each trace
    LineTables,  \* what a vmlinux may have lines for: sets of addresses
    Nobody    \* no thread, no trace

ASSUME MatcherAssumption ==
    /\ IsFiniteSet(Traces) /\ IsFiniteSet(Threads) /\ Threads # {}
    /\ Covers \in [Traces -> SUBSET Addrs] /\ LineTables \subseteq SUBSET Addrs
    /\ Nobody \notin Traces /\ Nobody \notin Threads

VARIABLES
    parses,   \* the debug information of vmlinux parses
    lined,    \* the addresses whose locations have file and line
    queue,    \* the WorkQueue
    stage,    \* of each thread: "start", "pull", "read", "lock", "insert",
              \* "exit", "panic"
    current,  \* the trace a thread works on
    rest,     \* what a thread has yet to insert of the ranges it read
    writer,   \* the thread that holds the write lock
    db,       \* the addresses of ranges_db
    main,     \* the main thread: "join", "report" or "panic"
    report,   \* the addresses it looked up
    counted,  \* history: traces that were inserted
    lost      \* history: traces whose reader panicked

vmlinux == <<parses, lined>>
vars == <<vmlinux, queue, stage, current, rest, writer, db, main, report, counted, lost>>

reported == main = "report"

\* glob lists each file once, in some order.
Init ==
    /\ parses \in BOOLEAN /\ lined \in LineTables
    /\ queue \in {q \in [1 .. Cardinality(Traces) -> Traces] :
                    \A i, j \in DOMAIN q : q[i] = q[j] => i = j}
    /\ stage = [w \in Threads |-> "start"]
    /\ current = [w \in Threads |-> Nobody]
    /\ rest = [w \in Threads |-> {}]
    /\ writer = Nobody
    /\ db = {}
    /\ main = "join" /\ report = {}
    /\ counted = {} /\ lost = {}

-----------------------------------------------------------------------------
(* A thread.                                                               *)

\* File::parse and Context::new: unwrapped.
Begin(w) ==
    /\ stage[w] = "start"
    /\ stage' = [stage EXCEPT ![w] = IF parses THEN "pull" ELSE "panic"]
    /\ UNCHANGED <<vmlinux, queue, current, rest, writer, db, main, report, counted, lost>>

\* What is left of the queue.  (Seeded fault: the file is not taken off.)
PulledNot == queue
Pulled == Tail(queue)

Pull(w) ==
    /\ stage[w] = "pull"
    /\ queue # <<>>
    /\ current' = [current EXCEPT ![w] = Head(queue)]
    /\ queue' = Pulled
    /\ stage' = [stage EXCEPT ![w] = "read"]
    /\ UNCHANGED <<vmlinux, rest, writer, db, main, report, counted, lost>>

\* pull_work() finds the queue empty: the thread returns.
Return(w) ==
    /\ stage[w] = "pull"
    /\ queue = <<>>
    /\ stage' = [stage EXCEPT ![w] = "exit"]
    /\ UNCHANGED <<vmlinux, queue, current, rest, writer, db, main, report, counted, lost>>

Read(w) ==
    /\ stage[w] = "read"
    /\ rest' = [rest EXCEPT ![w] = Covers[current[w]]]
    /\ stage' = [stage EXCEPT ![w] = "lock"]
    /\ UNCHANGED <<vmlinux, queue, current, writer, db, main, report, counted, lost>>

Panic(w) ==
    /\ stage[w] = "read"
    /\ lost' = lost \cup {current[w]}
    /\ current' = [current EXCEPT ![w] = Nobody]
    /\ stage' = [stage EXCEPT ![w] = "panic"]
    /\ UNCHANGED <<vmlinux, queue, rest, writer, db, main, report, counted>>

\* ranges_db.write().  No thread panics while it holds the lock, so that the
\* lock is never poisoned: insert() is only given ranges with start <= end.
Lock(w) ==
    /\ stage[w] = "lock"
    /\ writer = Nobody
    /\ writer' = w
    /\ stage' = [stage EXCEPT ![w] = "insert"]
    /\ UNCHANGED <<vmlinux, queue, current, rest, db, main, report, counted, lost>>

\* One range after the other.
\* (Seeded faults: the set is replaced; ranges include what follows them.)
InsertedOver(S) == S
InsertedPastEnd(S) == db \cup S \cup {x + 1 : x \in S}
Inserted(S) == db \cup S

Insert(w) ==
    /\ stage[w] = "insert"
    /\ \E S \in (SUBSET rest[w]) \ {{}} :
        /\ db' = Inserted(S)
        /\ rest' = [rest EXCEPT ![w] = @ \ S]
    /\ UNCHANGED <<vmlinux, queue, stage, current, writer, main, report, counted, lost>>

\* The guard goes out of scope, and on to the next file.
Unlock(w) ==
    /\ stage[w] = "insert"
    /\ rest[w] = {}
    /\ writer' = Nobody
    /\ counted' = counted \cup {current[w]}
    /\ current' = [current EXCEPT ![w] = Nobody]
    /\ stage' = [stage EXCEPT ![w] = "pull"]
    /\ UNCHANGED <<vmlinux, queue, rest, db, main, report, lost>>

-----------------------------------------------------------------------------
(* The main thread: t.join().ok() of every thread, then the report.        *)

\* (Seeded fault: one join instead of all.)
JoinedOne == \E w \in Threads : stage[w] \in {"exit", "panic"}
Joined == \A w \in Threads : stage[w] \in {"exit", "panic"}

\* What the second parse and the unwraps of file and line need.
\* (Seeded fault: the joins are unwrapped as well.)
ReadableJoins ==
    parses /\ db \subseteq lined /\ \A w \in Threads : stage[w] = "exit"
Readable == parses /\ db \subseteq lined

Report ==
    /\ main = "join"
    /\ Joined
    /\ writer = Nobody
    /\ Readable
    /\ main' = "report"
    /\ report' = db
    /\ UNCHANGED <<vmlinux, queue, stage, current, rest, writer, db, counted, lost>>

\* The panic of the main thread ends the program.
Crash ==
    /\ main = "join"
    /\ Joined
    /\ writer = Nobody
    /\ ~Readable
    /\ main' = "panic"
    /\ UNCHANGED <<vmlinux, queue, stage, current, rest, writer, db, report, counted, lost>>

Ended == main # "join" /\ UNCHANGED vars

Work(w) ==
    \/ Begin(w) \/ Pull(w) \/ Return(w) \/ Read(w) \/ Panic(w)
    \/ Lock(w) \/ Insert(w) \/ Unlock(w)

Next == (\E w \in Threads : Work(w)) \/ Report \/ Crash \/ Ended

Spec == Init /\ [][Next]_vars

\* Threads are scheduled.  The queue only shrinks, so that a thread that waits
\* for the lock needs no more: in the end no other thread wants it.
FairSpec == Spec /\ WF_vars(Report \/ Crash) /\ \A w \in Threads : WF_vars(Work(w))

-----------------------------------------------------------------------------
(* Properties.                                                             *)

Queued == {queue[i] : i \in DOMAIN queue}
Held == {current[w] : w \in Threads} \ {Nobody}
AllPanicked == \A w \in Threads : stage[w] = "panic"

TypeOK ==
    /\ parses \in BOOLEAN /\ lined \subseteq Addrs
    /\ queue \in Seq(Traces)
    /\ stage \in [Threads -> {"start", "pull", "read", "lock", "insert", "exit", "panic"}]
    /\ current \in [Threads -> Traces \cup {Nobody}]
    /\ rest \in [Threads -> SUBSET Addrs]
    /\ writer \in Threads \cup {Nobody}
    /\ db \subseteq Addrs /\ report \subseteq Addrs
    /\ main \in {"join", "report", "panic"}
    /\ counted \subseteq Traces /\ lost \subseteq Traces

\* No trace is forgotten or worked on twice: it is queued, held by one thread,
\* counted or lost, and never two of these (lib.rs:638-648).
TracesPartitioned ==
    /\ Queued \cup Held \cup counted \cup lost = Traces
    /\ \A i, j \in DOMAIN queue : i # j => queue[i] # queue[j]
    /\ \A v, w \in Threads : v # w /\ current[v] # Nobody => current[v] # current[w]
    /\ Queued \cap Held = {} /\ Queued \cap counted = {} /\ Queued \cap lost = {}
    /\ Held \cap counted = {} /\ Held \cap lost = {} /\ counted \cap lost = {}

\* The report is exactly the union of the traces that were read, in whatever
\* order threads took, read and inserted them; what is missing is a trace
\* whose reader panicked or, when every thread did, one nobody was left to
\* read (lib.rs:638-657).
ReportExact ==
    reported =>
        /\ report = UNION {Covers[t] : t \in counted}
        /\ Traces \ counted = lost \cup Queued
        /\ Queued # {} => AllPanicked

\* The program ends; and if vmlinux parses and has a line for all that the
\* traces cover, it ends with a report, though any or all of its threads
\* panic over their traces (lib.rs:652-692).
Reports ==
    /\ <>(main # "join")
    /\ parses /\ (\A t \in Traces : Covers[t] \subseteq lined) ~> reported

\* The threads and the lock implement the union of the traces.
Union == INSTANCE CoverageUnion WITH
    fate <- [t \in Traces |->
                IF t \in counted THEN "counted"
                ELSE IF t \in lost \/ (t \in Queued /\ AllPanicked) THEN "lost" ELSE "open"]

\* Every step of threads and main thread settles whole traces, once, or
\* publishes their union, or changes nothing of it.
UnionImplemented == Union!UnionSpec
=============================================================================
