---------------------------- MODULE SummaryProofs ----------------------------
(***************************************************************************)
(* Proofs about Summary, for any number of logs, decode jobs and runs,     *)
(* whatever the logs say and wherever the runs are interrupted.            *)
(***************************************************************************)
EXTENDS Summary, SequenceTheorems, FiniteSetTheorems, WellFoundedInduction, TLAPS

Order(l) == [cmd |-> "decode", log |-> l]
Orders == {Order(l) : l \in Logs}
Issues == {Issue(l) : l \in Logs}
Classes == Range(ClassesOrder)
Files == [is : {"none", "written", "whole", "cut"}, by : (0 .. MaxRuns) \X (0 .. NProc)]

NoRepeat(s) == \A a, b \in 1 .. Len(s) : s[a] = s[b] => a = b
Has(s, x) == \E a \in 1 .. Len(s) : s[a] = x

-----------------------------------------------------------------------------
(* The inductive invariant.                                                *)

SummaryTypes ==
    /\ cksum \in [Issues -> Tags]
    /\ present \subseteq Logs /\ scan \subseteq Logs /\ linked \subseteq Logs
    /\ phase \in {"idle", "scan", "decode", "spawn", "wait", "text", "html"}
    /\ run \in 0 .. MaxRuns /\ interrupted \subseteq 1 .. run
    /\ phase # "idle" => run >= 1 /\ run \notin interrupted
    /\ todo \in Seq(Logs)
    /\ tag2msg \in [Tags -> Issues \cup {NoIssue}] /\ tag2log \in [Tags -> Seq(Logs)]
    /\ class2tag \in [Classes -> Seq(Tags)]
    /\ rest \in Seq(Orders) /\ started \in 0 .. NProc - 1
    /\ phase = "decode" => decodeList \in Seq(Orders)
    /\ jobs \in [JobIds -> [lines : Seq(Orders), open : BOOLEAN]]
    /\ txt \in [Logs -> Files]

(* Each tag that has logs has an issue whose checksum it is, and is listed *)
(* once, in the class of that issue, with logs of that tag only.           *)
Arrays ==
    /\ \A t \in Tags :
        /\ NoRepeat(tag2log[t])
        /\ \A l \in Logs : Has(tag2log[t], l) => l \in scan /\ Tag(l) = t /\ tag2msg[t] # NoIssue
        /\ tag2msg[t] # NoIssue =>
              cksum[tag2msg[t]] = t /\ Has(class2tag[tag2msg[t].class], t)
    /\ \A c \in Classes :
        /\ NoRepeat(class2tag[c])
        /\ \A t \in Tags : Has(class2tag[c], t) => tag2msg[t].class = c
    /\ phase = "idle" => tag2msg = [t \in Tags |-> NoIssue]

(* A log of this run is in the arrays or, until scan_logs has come to it,  *)
(* still to be treated.                                                    *)
Treated ==
    /\ phase = "scan" =>
          /\ decodeList = <<>> /\ NoRepeat(todo)
          /\ \A l \in Logs : Has(todo, l) => l \in scan /\ ~Has(tag2log[Tag(l)], l)
    /\ phase # "idle" =>
          \A l \in scan : Has(tag2log[Tag(l)], l) \/ (phase = "scan" /\ Has(todo, l))

(* What is rendered as text has each log as SummaryExact says.             *)
Exact ==
    \A l \in scan :
        \E p \in DOMAIN text :
            /\ \A q \in DOMAIN text : text[q].log = l <=> q = p
            /\ text[p].class = text[p].issue.class
            /\ cksum[text[p].issue] = cksum[Issue(l)]

Shown == phase = "html" \/ Complete => Exact

(* No log is twice among the candidates, the orders, those that no job has *)
(* yet and those of the jobs of one run.                                   *)
Queues ==
    /\ phase = "decode" =>
          /\ NoRepeat(todo) /\ NoRepeat(decodeList)
          /\ \A l \in Logs : ~(Has(todo, l) /\ Has(decodeList, Order(l)))
    /\ phase # "spawn" => rest = <<>> /\ started = 0
    /\ NoRepeat(rest)
    /\ \A j \in JobIds : NoRepeat(jobs[j].lines)
    /\ \A j, k \in JobIds, l \in Logs :
          j[1] = k[1] /\ Has(jobs[j].lines, Order(l)) /\ Has(jobs[k].lines, Order(l)) => j = k
    /\ \A j \in JobIds, l \in Logs :
          j[1] = run => ~(Has(rest, Order(l)) /\ Has(jobs[j].lines, Order(l)))

(* A job with lines left is of an interrupted run, or one this run waits   *)
(* for or has started; who is writing a file has it at the head of its     *)
(* lines.                                                                  *)
AtWork(j) ==
    \/ j[1] \in interrupted
    \/ j[1] = run /\ phase = "wait"
    \/ j[1] = run /\ phase = "spawn" /\ j[2] <= started

Writers ==
    /\ \A j \in JobIds : jobs[j] # NoJob => AtWork(j)
    /\ \A j \in JobIds :
          jobs[j].open => jobs[j].lines # <<>> /\ txt[Head(jobs[j].lines).log].is # "none"
    /\ \A l \in Logs : txt[l].is = "written" =>
          /\ txt[l].by \in JobIds /\ jobs[txt[l].by].open
          /\ Head(jobs[txt[l].by].lines).log = l

(* From the choice of the samples on a log with a kernel has a decoded     *)
(* file, is not among the samples of its entry, or waits for its turn.     *)
Stood(l) == Cardinality({m \in scan \ {l} : logid[m] = logid[l]}) >= MaxSamples

Awaited ==
    phase \notin {"idle", "scan"} \/ Complete =>
        \A l \in scan \cap HasElf :
            \/ txt[l].is # "none" \/ Stood(l)
            \/ phase = "decode" /\ (Has(todo, l) \/ Has(decodeList, Order(l)))
            \/ phase = "spawn" /\ Has(rest, Order(l))
            \/ \E j \in JobIds : j[1] = run /\ Has(jobs[j].lines, Order(l))

(* Only jobs of interrupted runs have or get to write a file that is       *)
(* linked.                                                                 *)
Linked ==
    \A l \in linked :
        /\ txt[l].is # "none"
        /\ txt[l].is = "written" => txt[l].by[1] \in interrupted
        /\ phase = "decode" => ~Has(decodeList, Order(l))
        /\ ~Has(rest, Order(l))
        /\ \A j \in JobIds : Has(jobs[j].lines, Order(l)) => j[1] \in interrupted

SummaryInv ==
    /\ SummaryTypes /\ Arrays /\ Treated /\ Shown /\ Queues /\ Writers /\ Awaited /\ Linked

-----------------------------------------------------------------------------
(* Sequences without repetition.                                           *)

(* An element more, at the end.                                            *)
LEMMA AppendFacts ==
    ASSUME NEW S, NEW s \in Seq(S), NEW x \in S
    PROVE  /\ Append(s, x) \in Seq(S)
           /\ \A y : Has(Append(s, x), y) <=> Has(s, y) \/ y = x
           /\ NoRepeat(s) /\ ~Has(s, x) => NoRepeat(Append(s, x))
<1>1. /\ Append(s, x) \in Seq(S) /\ Len(s) \in Nat /\ Len(Append(s, x)) = Len(s) + 1
      /\ \A i \in 1 .. Len(s) : Append(s, x)[i] = s[i]
      /\ Append(s, x)[Len(s) + 1] = x
  BY AppendProperties, LenProperties
<1>2. \A i \in 1 .. Len(s) + 1 : i \in 1 .. Len(s) \/ i = Len(s) + 1
  BY <1>1
<1>3. \A y : Has(Append(s, x), y) <=> Has(s, y) \/ y = x
  BY <1>1, <1>2 DEF Has
<1>4. NoRepeat(s) /\ ~Has(s, x) => NoRepeat(Append(s, x))
  BY <1>1, <1>2 DEF Has, NoRepeat
<1>5. QED
  BY <1>1, <1>3, <1>4

(* The first element is taken off.                                         *)
LEMMA TailFacts ==
    ASSUME NEW S, NEW s \in Seq(S), s # <<>>
    PROVE  /\ Head(s) \in S /\ Tail(s) \in Seq(S) /\ Has(s, Head(s))
           /\ \A y : Has(s, y) <=> y = Head(s) \/ Has(Tail(s), y)
           /\ NoRepeat(s) => NoRepeat(Tail(s)) /\ ~Has(Tail(s), Head(s))
<1>1. /\ Head(s) \in S /\ Tail(s) \in Seq(S) /\ Len(s) \in Nat /\ Len(Tail(s)) = Len(s) - 1
      /\ \A i \in 1 .. Len(Tail(s)) : Tail(s)[i] = s[i + 1]
  BY HeadTailProperties, LenProperties
<1>2. Head(s) = s[1] /\ 1 \in 1 .. Len(s)
  BY <1>1, EmptySeq
<1>3. \A i \in 1 .. Len(s) : i = 1 \/ (i - 1 \in 1 .. Len(Tail(s)) /\ Tail(s)[i - 1] = s[i])
  BY <1>1
<1>4. \A i \in 1 .. Len(Tail(s)) : i + 1 \in 1 .. Len(s) /\ i + 1 # 1 /\ Tail(s)[i] = s[i + 1]
  BY <1>1
<1>5. \A y : Has(s, y) <=> y = Head(s) \/ Has(Tail(s), y)
  BY <1>2, <1>3, <1>4 DEF Has
<1>6. ASSUME NoRepeat(s)
      PROVE  NoRepeat(Tail(s)) /\ ~Has(Tail(s), Head(s))
  <2>1. ~Has(Tail(s), Head(s))
    BY <1>2, <1>4, <1>6 DEF Has, NoRepeat
  <2>2. ASSUME NEW a \in 1 .. Len(Tail(s)), NEW b \in 1 .. Len(Tail(s)), Tail(s)[a] = Tail(s)[b]
        PROVE  a = b
    <3>1. a + 1 = b + 1
      BY <1>4, <1>6, <2>2 DEF NoRepeat
    <3>2. QED
      BY <3>1
  <2>3. QED
    BY <2>1, <2>2 DEF NoRepeat
<1>7. QED
  BY <1>1, <1>2, <1>5, <1>6 DEF Has

(* A sequence is cut in two.                                               *)
LEMMA CutFacts ==
    ASSUME NEW S, NEW s \in Seq(S), NEW n \in 0 .. Len(s)
    PROVE  LET p == SubSeq(s, 1, n)
               q == SubSeq(s, n + 1, Len(s))
           IN  /\ p \in Seq(S) /\ q \in Seq(S)
               /\ \A y : Has(s, y) <=> Has(p, y) \/ Has(q, y)
               /\ NoRepeat(s) => NoRepeat(p) /\ NoRepeat(q) /\ \A y : ~(Has(p, y) /\ Has(q, y))
<1> DEFINE p == SubSeq(s, 1, n)
           q == SubSeq(s, n + 1, Len(s))
<1>1. Len(s) \in Nat /\ n \in Nat /\ n <= Len(s) /\ \A i \in 1 .. Len(s) : s[i] \in S
  BY LenProperties, ElementOfSeq
<1>2. p \in Seq(S) /\ Len(p) = n /\ \A i \in 1 .. n : p[i] = s[i]
  <2>1. \A i \in 1 .. n : s[i] \in S
    BY <1>1
  <2>2. /\ p \in Seq(S) /\ Len(p) = IF 1 <= n THEN n - 1 + 1 ELSE 0
        /\ \A i \in 1 .. n - 1 + 1 : p[i] = s[1 + i - 1]
    BY <1>1, <2>1, SubSeqProperties
  <2>3. QED
    BY <1>1, <2>2
<1>3. q \in Seq(S) /\ Len(q) = Len(s) - n /\ \A i \in 1 .. Len(s) - n : q[i] = s[n + i]
  <2>1. \A i \in n + 1 .. Len(s) : s[i] \in S
    BY <1>1
  <2>2. /\ q \in Seq(S) /\ Len(q) = IF n + 1 <= Len(s) THEN Len(s) - (n + 1) + 1 ELSE 0
        /\ \A i \in 1 .. Len(s) - (n + 1) + 1 : q[i] = s[n + 1 + i - 1]
    BY <1>1, <2>1, SubSeqProperties
  <2>3. QED
    BY <1>1, <2>2
<1> HIDE DEF p, q
<1>4. \A i \in 1 .. Len(s) :
         \/ i \in 1 .. Len(p) /\ p[i] = s[i]
         \/ i - n \in 1 .. Len(q) /\ q[i - n] = s[i]
  BY <1>1, <1>2, <1>3
<1>5. \A i \in 1 .. Len(p) : i \in 1 .. Len(s) /\ p[i] = s[i]
  BY <1>1, <1>2
<1>6. \A i \in 1 .. Len(q) : n + i \in 1 .. Len(s) /\ q[i] = s[n + i]
  BY <1>1, <1>3
<1>7. \A y : Has(s, y) <=> Has(p, y) \/ Has(q, y)
  BY <1>4, <1>5, <1>6 DEF Has
<1>8. ASSUME NoRepeat(s)
      PROVE  NoRepeat(p) /\ NoRepeat(q) /\ \A y : ~(Has(p, y) /\ Has(q, y))
  <2>1. NoRepeat(p)
    BY <1>5, <1>8 DEF NoRepeat
  <2>2. ASSUME NEW a \in 1 .. Len(q), NEW b \in 1 .. Len(q), q[a] = q[b]
        PROVE  a = b
    <3>1. n + a = n + b
      BY <1>6, <1>8, <2>2 DEF NoRepeat
    <3>2. QED
      BY <1>1, <3>1
  <2>3. ASSUME NEW a \in 1 .. Len(p), NEW b \in 1 .. Len(q), p[a] = q[b]
        PROVE  FALSE
    <3>1. a = n + b
      BY <1>5, <1>6, <1>8, <2>3 DEF NoRepeat
    <3>2. QED
      BY <1>1, <1>2, <3>1
  <2>4. QED
    BY <2>1, <2>2, <2>3 DEF NoRepeat, Has
<1>9. QED
  BY <1>2, <1>3, <1>7, <1>8 DEF p, q

(* A sequence of all elements of a set, each once.                         *)
LEMMA SequenceOfSet ==
    ASSUME NEW S, IsFiniteSet(S), NEW s \in SetToSeqs(S)
    PROVE  s \in Seq(S) /\ NoRepeat(s) /\ \A y : Has(s, y) <=> y \in S
<1> DEFINE c == Cardinality(S)
           D == 1 .. c
<1>1. c \in Nat /\ IsFiniteSet(D) /\ Cardinality(D) = c
  BY FS_CardinalityType, FS_Interval
<1>2. s \in [D -> S] /\ \A i, j \in D : i # j => s[i] # s[j]
  BY DEF SetToSeqs
<1>3. s \in Seq(S) /\ Len(s) = c
  BY <1>1, <1>2, SeqDef, LenProperties
<1>4. s \in Surjection(D, S)
  <2>1. s \in Injection(D, S)
    BY <1>2 DEF Injection, IsInjective
  <2>2. QED
    BY <1>1, <2>1, FS_Injection
<1>5. \A y : Has(s, y) <=> y \in S
  BY <1>2, <1>3, <1>4 DEF Has, Surjection
<1>6. NoRepeat(s)
  BY <1>2, <1>3 DEF NoRepeat
<1>7. QED
  BY <1>3, <1>5, <1>6

(* The empty sequence.                                                     *)
LEMMA EmptyFacts ==
    /\ NoRepeat(<<>>) /\ \A y : ~Has(<<>>, y)
    /\ \A S : <<>> \in Seq(S)
BY DEF NoRepeat, Has

-----------------------------------------------------------------------------
(* Classes and issues.                                                     *)

(* The classes are told apart by their places.                             *)
LEMMA ClassFacts ==
    /\ Classes = {"KASAN", "CRASH", "WARNS", "HANGS"}
    /\ DOMAIN ClassesOrder = 1 .. 4
    /\ \A i \in 1 .. 4 : ClassesOrder[i] \in Classes
    /\ \A i, k \in 1 .. 4 : ClassesOrder[i] = ClassesOrder[k] => i = k
    /\ \A c \in Classes : \E i \in 1 .. 4 : ClassesOrder[i] = c
<1>1. /\ DOMAIN ClassesOrder = 1 .. 4
      /\ ClassesOrder[1] = "KASAN" /\ ClassesOrder[2] = "CRASH"
      /\ ClassesOrder[3] = "WARNS" /\ ClassesOrder[4] = "HANGS"
  BY DEF ClassesOrder
<1>2. \A i : i \in 1 .. 4 <=> i = 1 \/ i = 2 \/ i = 3 \/ i = 4
  OBVIOUS
<1>3. Classes = {ClassesOrder[i] : i \in 1 .. 4}
  BY <1>1 DEF Classes, Range
<1>4. Classes = {"KASAN", "CRASH", "WARNS", "HANGS"}
  BY <1>1, <1>2, <1>3
<1>5. \A i, k \in 1 .. 4 : ClassesOrder[i] = ClassesOrder[k] => i = k
  BY <1>1, <1>2
<1>6. QED
  BY <1>1, <1>3, <1>4, <1>5

(* A non-empty set of numbers has a least element, which Min returns.      *)
LEMMA MinInSet ==
    ASSUME NEW S \in SUBSET Nat, S # {}
    PROVE  Min(S) \in S
<1>1. IsWellFoundedOn({r \in Nat \X Nat : r[1] < r[2]}, Nat)
  BY NatLessThanWellFounded, Zenon DEF OpToRel
<1>2. PICK x \in S : \A y \in S : ~(<<y, x>> \in {r \in Nat \X Nat : r[1] < r[2]})
  BY <1>1, WFMin, Zenon
<1>3. \A y \in S : x <= y
  <2>1. ASSUME NEW y \in S
        PROVE  ~(y < x)
    BY <1>2, Zenon
  <2>2. QED
    BY <2>1
<1>4. QED
  BY <1>3 DEF Min

(* Every log has an issue, of one of the classes.                          *)
LEMMA IssueFacts ==
    ASSUME NEW l \in Logs
    PROVE  Issue(l) \in Issues /\ Issue(l).class \in Classes /\ Issue(l) # NoIssue
<1> DEFINE I == {i \in 1 .. Len(Rules) : Rules[i][1] \in content[l]}
           r == IF I # {} THEN Min(I) ELSE 0
<1>1. Issue(l) = IF r # 0 THEN [class |-> Rules[r][2], msg |-> <<Rules[r][1], Site[l]>>]
                 ELSE [class |-> IF Kind[l] = "timeo" THEN "HANGS" ELSE "WARNS",
                       msg |-> <<"Unclassified", None>>]
  BY DEF Issue, SelectInSeq
<1>2. Len(Rules) = 6
  BY DEF Rules
<1>3. r # 0 => r \in 1 .. 6
  <2>1. I \in SUBSET Nat /\ I \subseteq 1 .. 6
    BY <1>2
  <2>2. QED
    BY <2>1, MinInSet
<1>4. \A i \in 1 .. 6 : Rules[i][2] \in {"KASAN", "CRASH", "WARNS"}
  <2>1. \A i : i \in 1 .. 6 <=> i = 1 \/ i = 2 \/ i = 3 \/ i = 4 \/ i = 5 \/ i = 6
    OBVIOUS
  <2>2. QED
    BY <2>1 DEF Rules
<1> HIDE DEF r
<1>5. Issue(l).class \in {"KASAN", "CRASH", "WARNS", "HANGS"}
  BY <1>1, <1>3, <1>4
<1>6. Issue(l) # NoIssue
  BY <1>5 DEF NoIssue
<1>7. QED
  BY <1>5, <1>6, ClassFacts DEF Issues

(* What a log says and its tag are the same all the time.                  *)
LEMMA IssueFrame ==
    ASSUME UNCHANGED <<content, cksum>>
    PROVE  /\ \A l : (Issue(l))' = Issue(l) /\ (Tag(l))' = Tag(l)
           /\ Issues' = Issues
<1>1. \A l : (Issue(l))' = Issue(l)
  BY DEF Issue, SelectInSeq
<1>2. QED
  BY <1>1 DEF Tag, Issues

-----------------------------------------------------------------------------
(* The invariant holds at first.                                           *)
LEMMA InitSummary == Init => SummaryInv
<1> SUFFICES ASSUME Init
             PROVE  SummaryInv
  OBVIOUS
<1>1. SummaryTypes
  <2>1. <<>> \in Seq(Logs) /\ <<>> \in Seq(Tags) /\ <<>> \in Seq(Orders)
    BY EmptyFacts
  <2>2. /\ tag2msg \in [Tags -> Issues \cup {NoIssue}] /\ tag2log \in [Tags -> Seq(Logs)]
        /\ class2tag \in [Classes -> Seq(Tags)]
    BY <2>1 DEF Init, Classes
  <2>3. jobs \in [JobIds -> [lines : Seq(Orders), open : BOOLEAN]]
    BY <2>1 DEF Init, NoJob
  <2>4. txt \in [Logs -> Files]
    <3>1. 0 \in 0 .. MaxRuns /\ 0 \in 0 .. NProc
      BY SummaryAssumption
    <3>2. NoFile \in Files
      BY <3>1 DEF NoFile, Files
    <3>3. QED
      BY <3>2 DEF Init
  <2>5. /\ present \subseteq Logs /\ scan \subseteq Logs /\ linked \subseteq Logs
        /\ run \in 0 .. MaxRuns /\ interrupted \subseteq 1 .. run /\ started \in 0 .. NProc - 1
    BY SummaryAssumption DEF Init
  <2>6. cksum \in [Issues -> Tags]
    BY DEF Init, Issues
  <2>7. QED
    BY <2>1, <2>2, <2>3, <2>4, <2>5, <2>6 DEF Init, SummaryTypes
<1>2. Arrays
  BY EmptyFacts DEF Init, Arrays, Classes
<1>3. Treated
  BY DEF Init, Treated
<1>4. Queues
  BY EmptyFacts DEF Init, Queues, NoJob
<1>5. Writers
  BY DEF Init, Writers, NoJob, NoFile
<1>6. Linked
  BY DEF Init, Linked
<1>7. ~Complete
  BY DEF Init, Complete
<1>8. Shown /\ Awaited
  BY <1>7 DEF Init, Shown, Awaited
<1>9. QED
  BY <1>1, <1>2, <1>3, <1>4, <1>5, <1>6, <1>8 DEF SummaryInv

-----------------------------------------------------------------------------
(* The logs are found and treated.                                         *)

(* A set of logs is finite, and so is every part of it.                    *)
LEMMA FiniteLogs ==
    ASSUME NEW S \in SUBSET Logs
    PROVE  IsFiniteSet(S)
BY SummaryAssumption, FS_Subset

(* A run starts, without what an earlier one had in its arrays.            *)
LEMMA StartKeeps == ASSUME SummaryInv, Start PROVE SummaryInv'
<1>1. /\ SummaryTypes /\ Arrays /\ Queues /\ Writers /\ Linked
      /\ phase = "idle" /\ run < MaxRuns /\ run' = run + 1 /\ scan' = present
      /\ decodeList' = <<>> /\ phase' = "scan"
      /\ UNCHANGED <<content, cksum, present, tag2msg, tag2log, class2tag, logid, rest, started,
                     jobs, txt, text, linked, interrupted>>
  BY DEF Start, Truncated, SummaryInv, disk, arrays, pool, output
<1>2. todo' \in Seq(Logs) /\ NoRepeat(todo') /\ \A l : Has(todo', l) <=> l \in present
  <2>1. todo' \in SetToSeqs(present) /\ present \in SUBSET Logs
    BY <1>1 DEF Start, SummaryTypes
  <2>2. todo' \in Seq(present) /\ NoRepeat(todo') /\ \A l : Has(todo', l) <=> l \in present
    BY <2>1, FiniteLogs, SequenceOfSet
  <2>3. QED
    BY <2>1, <2>2, SeqMonotonic
<1>3. run \in Nat /\ MaxRuns \in Nat /\ run' \in 1 .. MaxRuns
  BY <1>1, SummaryAssumption DEF SummaryTypes
<1>4. Issues' = Issues /\ \A l : (Issue(l))' = Issue(l) /\ (Tag(l))' = Tag(l)
  BY <1>1, IssueFrame
<1>5. SummaryTypes'
  <2>1. interrupted \subseteq 1 .. run' /\ run' \notin interrupted
    BY <1>1, <1>3 DEF SummaryTypes
  <2>2. QED
    BY <1>1, <1>2, <1>3, <1>4, <2>1 DEF SummaryTypes
<1>6. \A t \in Tags : tag2msg[t] = NoIssue
  BY <1>1 DEF Arrays
<1>7. \A l \in Logs : ~Has(tag2log[Tag(l)], l)
  <2>1. \A l \in Logs : Tag(l) \in Tags
    BY <1>1 DEF SummaryTypes, Tag, Issues
  <2>2. QED
    BY <1>1, <1>6, <2>1 DEF Arrays
<1>8. Arrays'
  <2>1. \A t \in Tags, l \in Logs : ~Has(tag2log[t], l)
    BY <1>1, <1>6 DEF Arrays
  <2>2. QED
    BY <1>1, <1>6, <2>1 DEF Arrays
<1>9. Treated'
  BY <1>1, <1>2, <1>4, <1>7 DEF Treated
<1>10. rest = <<>> /\ \A l : ~Has(rest, l)
  BY <1>1, EmptyFacts DEF Queues
<1>11. Queues'
  BY <1>1, <1>10 DEF Queues
<1>12. Writers'
  BY <1>1 DEF Writers, AtWork
<1>13. Linked'
  BY <1>1 DEF Linked
<1>14. Shown' /\ Awaited'
  BY <1>1 DEF Shown, Awaited, Complete
<1>15. QED
  BY <1>5, <1>8, <1>9, <1>11, <1>12, <1>13, <1>14 DEF SummaryInv

(* A log is put under its tag, and a tag that is new under its class.      *)
LEMMA ScanLogKeeps == ASSUME SummaryInv, ScanLog PROVE SummaryInv'
<1> DEFINE l == Head(todo)
           t == Tag(l)
<1>1. /\ SummaryTypes /\ Arrays /\ Treated /\ Queues /\ Writers /\ Linked
      /\ phase = "scan" /\ todo # <<>> /\ todo' = Tail(todo)
      /\ UNCHANGED <<content, cksum, present, phase, run, scan, logid, decodeList, rest, started,
                     jobs, txt, text, linked, interrupted>>
  BY DEF ScanLog, SummaryInv, disk, pool, output
<1>2. /\ l \in Logs /\ Tail(todo) \in Seq(Logs) /\ Has(todo, l)
      /\ \A y : Has(todo, y) <=> y = l \/ Has(Tail(todo), y)
      /\ NoRepeat(Tail(todo)) /\ ~Has(Tail(todo), l)
  BY <1>1, TailFacts DEF SummaryTypes, Treated
<1>3. Issues' = Issues /\ \A m : (Issue(m))' = Issue(m) /\ (Tag(m))' = Tag(m)
  BY <1>1, IssueFrame
<1> HIDE DEF l
<1>4. /\ Issue(l) \in Issues /\ Issue(l).class \in Classes /\ Issue(l) # NoIssue
      /\ t \in Tags /\ t = cksum[Issue(l)]
      /\ l \in scan /\ ~Has(tag2log[t], l)
      /\ tag2log[t] \in Seq(Logs)
  BY <1>1, <1>2, IssueFacts DEF SummaryTypes, Treated, Tag
<1>5. /\ tag2log' = [tag2log EXCEPT ![t] = Append(tag2log[t], l)]
      /\ IF tag2msg[t] = NoIssue
           THEN /\ tag2msg' = [tag2msg EXCEPT ![t] = Issue(l)]
                /\ class2tag' = [class2tag EXCEPT ![Issue(l).class] = Append(@, t)]
           ELSE UNCHANGED <<tag2msg, class2tag>>
  BY DEF ScanLog, Logged, l
<1> HIDE DEF t
<1>6. /\ Append(tag2log[t], l) \in Seq(Logs)
      /\ \A y : Has(Append(tag2log[t], l), y) <=> Has(tag2log[t], y) \/ y = l
      /\ NoRepeat(Append(tag2log[t], l))
  BY <1>1, <1>2, <1>4, AppendFacts DEF Arrays
<1>7. /\ tag2log' \in [Tags -> Seq(Logs)]
      /\ \A u \in Tags : NoRepeat(tag2log'[u])
      /\ \A u \in Tags : \A y : Has(tag2log'[u], y) <=> Has(tag2log[u], y) \/ (u = t /\ y = l)
  BY <1>1, <1>4, <1>5, <1>6 DEF SummaryTypes, Arrays
<1>8. /\ tag2msg' \in [Tags -> Issues \cup {NoIssue}]
      /\ tag2msg'[t] # NoIssue
      /\ \A u \in Tags :
            \/ tag2msg'[u] = tag2msg[u]
            \/ tag2msg[u] = NoIssue /\ u = t /\ tag2msg'[u] = Issue(l)
  BY <1>1, <1>4, <1>5 DEF SummaryTypes
<1>9. /\ class2tag' \in [Classes -> Seq(Tags)]
      /\ \A c \in Classes : NoRepeat(class2tag'[c])
      /\ \A c \in Classes, u \in Tags : Has(class2tag'[c], u) <=>
            Has(class2tag[c], u) \/ (u = t /\ tag2msg[t] = NoIssue /\ c = Issue(l).class)
  <2>1. CASE tag2msg[t] # NoIssue
    BY <1>1, <1>5, <2>1 DEF SummaryTypes, Arrays
  <2>2. CASE tag2msg[t] = NoIssue
    <3> DEFINE d == Issue(l).class
    <3>1. d \in Classes /\ class2tag[d] \in Seq(Tags) /\ NoRepeat(class2tag[d])
          /\ class2tag' = [class2tag EXCEPT ![d] = Append(class2tag[d], t)]
      BY <1>1, <1>4, <1>5, <2>2 DEF SummaryTypes, Arrays
    <3>2. ~Has(class2tag[d], t)
      <4>1. d # "none" /\ NoIssue.class = "none"
        BY <3>1, ClassFacts DEF NoIssue
      <4>2. QED
        BY <1>1, <1>4, <2>2, <3>1, <4>1 DEF Arrays
    <3>3. /\ Append(class2tag[d], t) \in Seq(Tags) /\ NoRepeat(Append(class2tag[d], t))
          /\ \A y : Has(Append(class2tag[d], t), y) <=> Has(class2tag[d], y) \/ y = t
      BY <1>4, <3>1, <3>2, AppendFacts
    <3> HIDE DEF d
    <3>4. /\ class2tag' \in [Classes -> Seq(Tags)]
          /\ \A c \in Classes : NoRepeat(class2tag'[c])
          /\ \A c \in Classes, u \in Tags : Has(class2tag'[c], u) <=>
                Has(class2tag[c], u) \/ (u = t /\ c = d)
      BY <1>1, <3>1, <3>3 DEF SummaryTypes, Arrays
    <3>5. QED
      BY <2>2, <3>4 DEF d
  <2>3. QED
    BY <2>1, <2>2
<1>10. SummaryTypes'
  BY <1>1, <1>2, <1>3, <1>7, <1>8, <1>9 DEF SummaryTypes
<1>11. Arrays'
  <2>1. ASSUME NEW u \in Tags, NEW y \in Logs, Has(tag2log'[u], y)
        PROVE  y \in scan /\ Tag(y) = u /\ tag2msg'[u] # NoIssue
    <3>1. Has(tag2log[u], y) \/ (u = t /\ y = l)
      BY <1>7, <2>1
    <3>2. CASE Has(tag2log[u], y)
      <4>1. y \in scan /\ Tag(y) = u /\ tag2msg[u] # NoIssue
        BY <1>1, <2>1, <3>2 DEF Arrays
      <4>2. QED
        BY <1>8, <4>1
    <3>3. CASE u = t /\ y = l
      BY <1>4, <1>8, <3>3 DEF t
    <3>4. QED
      BY <3>1, <3>2, <3>3
  <2>2. ASSUME NEW u \in Tags, tag2msg'[u] # NoIssue
        PROVE  cksum[tag2msg'[u]] = u /\ Has(class2tag'[tag2msg'[u].class], u)
    <3>1. CASE tag2msg'[u] = tag2msg[u]
      <4>1. tag2msg[u].class \in Classes
        BY <1>1, <2>2, <3>1, IssueFacts DEF SummaryTypes, Issues
      <4>2. QED
        BY <1>1, <1>9, <2>2, <3>1, <4>1 DEF Arrays
    <3>2. CASE tag2msg[u] = NoIssue /\ u = t /\ tag2msg'[u] = Issue(l)
      BY <1>4, <1>9, <3>2
    <3>3. QED
      BY <1>8, <3>1, <3>2
  <2>3. ASSUME NEW c \in Classes, NEW u \in Tags, Has(class2tag'[c], u)
        PROVE  tag2msg'[u].class = c
    <3>1. CASE Has(class2tag[c], u)
      <4>1. tag2msg[u].class = c /\ c # "none" /\ NoIssue.class = "none"
        BY <1>1, <3>1, ClassFacts DEF Arrays, NoIssue
      <4>2. QED
        BY <1>8, <4>1
    <3>2. CASE u = t /\ tag2msg[t] = NoIssue /\ c = Issue(l).class
      BY <1>8, <3>2
    <3>3. QED
      BY <1>9, <2>3, <3>1, <3>2
  <2>4. phase' # "idle"
    BY <1>1
  <2>5. QED
    BY <1>1, <1>3, <1>7, <1>9, <2>1, <2>2, <2>3, <2>4 DEF Arrays
<1>12. Treated'
  <2>1. \A y \in Logs : Tag(y) \in Tags
    BY <1>1, IssueFacts DEF SummaryTypes, Tag
  <2>2. \A y \in Logs : Has(tag2log'[Tag(y)], y) <=> Has(tag2log[Tag(y)], y) \/ y = l
    BY <1>7, <2>1 DEF t
  <2>3. QED
    BY <1>1, <1>2, <1>3, <2>2 DEF Treated, SummaryTypes
<1>13. Queues' /\ Writers' /\ Linked'
  BY <1>1 DEF Queues, Writers, AtWork, Linked
<1>14. Shown' /\ Awaited'
  BY <1>1 DEF Shown, Awaited, Complete
<1>15. QED
  BY <1>10, <1>11, <1>12, <1>13, <1>14 DEF SummaryInv

-----------------------------------------------------------------------------
(* The samples.                                                            *)

(* When all logs are treated, the loops over the classes come to each log  *)
(* once, with its tag and the class of the issue that has this tag.        *)
LEMMA PlacesFacts ==
    ASSUME SummaryTypes, Arrays, Treated, phase # "idle", phase = "scan" => todo = <<>>
    PROVE  /\ \A l \in scan : \E p \in Places : LogAt(p) = l
           /\ \A p \in Places :
                /\ p[1] \in 1 .. 4 /\ p[2] \in Nat /\ p[3] \in Nat
                /\ LogAt(p) \in scan
                /\ Tag(LogAt(p)) = TagAt(p[1], p[2]) /\ TagAt(p[1], p[2]) \in Tags
                /\ tag2msg[TagAt(p[1], p[2])] # NoIssue
                /\ tag2msg[TagAt(p[1], p[2])].class = ClassesOrder[p[1]]
           /\ \A p, q \in Places : LogAt(p) = LogAt(q) => p = q
           /\ Listed = scan
<1> DEFINE T(c) == class2tag[ClassesOrder[c]]
<1>1. /\ \A c \in 1 .. 4 : ClassesOrder[c] \in Classes /\ T(c) \in Seq(Tags)
      /\ \A c \in 1 .. 4 :
            DOMAIN T(c) = 1 .. Len(T(c)) /\ \A k \in 1 .. Len(T(c)) : T(c)[k] \in Tags
      /\ \A u \in Tags : DOMAIN tag2log[u] = 1 .. Len(tag2log[u])
      /\ \A u \in Tags : \A n \in 1 .. Len(tag2log[u]) : tag2log[u][n] \in Logs
  <2>1. \A c \in 1 .. 4 : ClassesOrder[c] \in Classes /\ T(c) \in Seq(Tags)
    BY ClassFacts DEF SummaryTypes
  <2>2. ASSUME NEW c \in 1 .. 4
        PROVE  DOMAIN T(c) = 1 .. Len(T(c)) /\ \A k \in 1 .. Len(T(c)) : T(c)[k] \in Tags
    BY <2>1, LenProperties, ElementOfSeq
  <2>3. ASSUME NEW u \in Tags
        PROVE  /\ DOMAIN tag2log[u] = 1 .. Len(tag2log[u])
               /\ \A n \in 1 .. Len(tag2log[u]) : tag2log[u][n] \in Logs
    <3>1. tag2log[u] \in Seq(Logs)
      BY DEF SummaryTypes
    <3>2. QED
      BY <3>1, LenProperties, ElementOfSeq
  <2>4. QED
    BY <2>1, <2>2, <2>3
<1>2. \A p \in Places :
         /\ p[1] \in 1 .. 4 /\ p[2] \in 1 .. Len(T(p[1]))
         /\ p[3] \in 1 .. Len(tag2log[T(p[1])[p[2]]])
         /\ p = <<p[1], p[2], p[3]>>
  BY <1>1, ClassFacts DEF Places, TagAt
<1>3. \A c \in 1 .. 4 : \A k \in 1 .. Len(T(c)) : \A n \in 1 .. Len(tag2log[T(c)[k]]) :
         <<c, k, n>> \in Places
  BY <1>1, ClassFacts DEF Places, TagAt
<1>4. ASSUME NEW p \in Places
      PROVE  /\ TagAt(p[1], p[2]) = T(p[1])[p[2]] /\ TagAt(p[1], p[2]) \in Tags
             /\ LogAt(p) = tag2log[T(p[1])[p[2]]][p[3]]
             /\ LogAt(p) \in scan /\ Tag(LogAt(p)) = TagAt(p[1], p[2])
             /\ tag2msg[TagAt(p[1], p[2])] # NoIssue
             /\ tag2msg[TagAt(p[1], p[2])].class = ClassesOrder[p[1]]
  <2> DEFINE u == T(p[1])[p[2]]
  <2>1. u = TagAt(p[1], p[2]) /\ u \in Tags /\ LogAt(p) = tag2log[u][p[3]] /\ LogAt(p) \in Logs
    BY <1>1, <1>2 DEF TagAt, LogAt
  <2>2. Has(tag2log[u], LogAt(p)) /\ Has(T(p[1]), u)
    BY <1>2, <2>1 DEF Has
  <2>3. LogAt(p) \in scan /\ Tag(LogAt(p)) = u /\ tag2msg[u] # NoIssue
    BY <2>1, <2>2 DEF Arrays
  <2>4. tag2msg[u].class = ClassesOrder[p[1]]
    BY <1>1, <1>2, <2>1, <2>2 DEF Arrays
  <2>5. QED
    BY <2>1, <2>3, <2>4
<1>5. ASSUME NEW l \in scan
      PROVE  \E p \in Places : LogAt(p) = l
  <2>1. l \in Logs /\ Tag(l) \in Tags
    BY IssueFacts DEF SummaryTypes, Tag
  <2>2. Has(tag2log[Tag(l)], l)
    BY EmptyFacts DEF Treated
  <2>3. tag2msg[Tag(l)] # NoIssue /\ Has(class2tag[tag2msg[Tag(l)].class], Tag(l))
    BY <2>1, <2>2 DEF Arrays
  <2>4. tag2msg[Tag(l)].class \in Classes
    BY <2>1, <2>3, IssueFacts DEF SummaryTypes, Issues
  <2>5. PICK c \in 1 .. 4 : ClassesOrder[c] = tag2msg[Tag(l)].class
    BY <2>4, ClassFacts
  <2>6. PICK k \in 1 .. Len(T(c)) : T(c)[k] = Tag(l)
    BY <2>3, <2>5 DEF Has
  <2>7. PICK n \in 1 .. Len(tag2log[Tag(l)]) : tag2log[Tag(l)][n] = l
    BY <2>2 DEF Has
  <2>8. <<c, k, n>> \in Places
    BY <1>3, <2>6, <2>7
  <2>9. LogAt(<<c, k, n>>) = l
    BY <2>6, <2>7 DEF LogAt, TagAt
  <2>10. QED
    BY <2>8, <2>9
<1>6. ASSUME NEW p \in Places, NEW q \in Places, LogAt(p) = LogAt(q)
      PROVE  p = q
  <2>1. TagAt(p[1], p[2]) = TagAt(q[1], q[2])
    BY <1>4, <1>6
  <2>2. p[1] = q[1]
    BY <1>2, <1>4, <2>1, ClassFacts
  <2>3. p[2] = q[2]
    <3>1. NoRepeat(T(p[1]))
      BY <1>1, <1>2 DEF Arrays
    <3>2. QED
      BY <1>2, <1>4, <2>1, <2>2, <3>1 DEF NoRepeat
  <2>4. p[3] = q[3]
    <3>1. NoRepeat(tag2log[T(p[1])[p[2]]])
      BY <1>4 DEF Arrays
    <3>2. QED
      BY <1>2, <1>4, <1>6, <2>2, <2>3, <3>1 DEF NoRepeat
  <2>5. QED
    BY <1>2, <2>2, <2>3, <2>4
<1>7. Listed = scan
  BY <1>4, <1>5 DEF Listed
<1>8. \A p \in Places : p[1] \in 1 .. 4 /\ p[2] \in Nat /\ p[3] \in Nat
  <2>1. \A c \in 1 .. 4 : Len(T(c)) \in Nat
    BY <1>1, LenProperties
  <2>2. \A u \in Tags : Len(tag2log[u]) \in Nat
    BY LenProperties DEF SummaryTypes
  <2>3. QED
    BY <1>1, <1>2, <2>1, <2>2
<1>9. QED
  BY <1>4, <1>5, <1>6, <1>7, <1>8

(* The places of the samples are numbers, in an order where no log comes   *)
(* before itself.                                                          *)
LEMMA NotBeforeItself ==
    ASSUME SummaryTypes, Arrays, Treated, phase # "idle", phase = "scan" => todo = <<>>, NEW l
    PROVE  ~Before(l, l)
<1> SUFFICES ASSUME NEW p \in Places, NEW q \in Places, LogAt(p) = l, LogAt(q) = l,
                    \/ p[1] < q[1]
                    \/ p[1] = q[1] /\ p[2] < q[2]
                    \/ p[1] = q[1] /\ p[2] = q[2] /\ p[3] < q[3]
             PROVE  FALSE
  BY DEF Before
<1>1. p = q
  BY PlacesFacts
<1>2. p[1] \in Nat /\ p[2] \in Nat /\ p[3] \in Nat
  BY PlacesFacts
<1>3. QED
  BY <1>1, <1>2

(* Samples are chosen; the logs of an entry that are none are as many as   *)
(* MaxSamples before them.                                                 *)
LEMMA CandidatesKeeps == ASSUME SummaryInv, Candidates PROVE SummaryInv'
<1>1. /\ SummaryTypes /\ Arrays /\ Treated /\ Queues /\ Writers /\ Linked
      /\ phase = "scan" /\ todo = <<>> /\ phase' = "decode"
      /\ UNCHANGED <<content, cksum, present, run, scan, tag2msg, tag2log, class2tag, decodeList,
                     rest, started, jobs, txt, text, linked, interrupted>>
  BY DEF Candidates, SummaryInv, disk, pool, output
<1>2. Listed = scan
  BY <1>1, PlacesFacts
<1>3. PICK s \in SetToSeqs({l \in Listed : Sampled(logid', l)}) : todo' = s
  BY DEF Candidates
<1>4. /\ todo' \in Seq(Logs) /\ NoRepeat(todo')
      /\ \A l : Has(todo', l) <=> l \in scan /\ Sampled(logid', l)
  <2> DEFINE S == {l \in Listed : Sampled(logid', l)}
  <2>1. S \in SUBSET Logs
    BY <1>1, <1>2 DEF SummaryTypes
  <2>2. todo' \in Seq(S) /\ NoRepeat(todo') /\ \A l : Has(todo', l) <=> l \in S
    BY <1>3, <2>1, FiniteLogs, SequenceOfSet
  <2>3. QED
    BY <1>2, <2>1, <2>2, SeqMonotonic
<1>5. ASSUME NEW l \in scan, ~Sampled(logid', l)
      PROVE  (Stood(l))'
  <2> DEFINE A == {m \in Listed : logid'[m] = logid'[l] /\ Before(m, l)}
             B == {m \in scan \ {l} : logid'[m] = logid'[l]}
  <2>1. A \subseteq B
    BY <1>1, <1>2, NotBeforeItself
  <2>2. B \in SUBSET Logs /\ A \in SUBSET Logs
    BY <1>1, <1>2 DEF SummaryTypes
  <2>3. IsFiniteSet(B) /\ IsFiniteSet(A)
    BY <2>2, FiniteLogs
  <2>4. Cardinality(A) <= Cardinality(B) /\ Cardinality(A) \in Nat /\ Cardinality(B) \in Nat
    BY <2>1, <2>3, FS_Subset, FS_CardinalityType
  <2>5. ~(Cardinality(A) < MaxSamples) /\ MaxSamples = 2
    BY <1>5 DEF Sampled, MaxSamples
  <2> HIDE DEF A
  <2>6. Cardinality(B) >= MaxSamples
    BY <2>4, <2>5
  <2>7. QED
    BY <1>1, <2>6 DEF Stood
<1>6. Issues' = Issues /\ \A m : (Issue(m))' = Issue(m) /\ (Tag(m))' = Tag(m)
  BY <1>1, IssueFrame
<1>7. SummaryTypes'
  BY <1>1, <1>4, <1>6, EmptyFacts DEF SummaryTypes, Treated
<1>8. Arrays'
  BY <1>1, <1>6 DEF Arrays
<1>9. Treated'
  BY <1>1, <1>6, EmptyFacts DEF Treated
<1>10. decodeList = <<>> /\ NoRepeat(decodeList) /\ \A y : ~Has(decodeList, y)
  BY <1>1, EmptyFacts DEF Treated
<1>11. Queues' /\ Linked'
  BY <1>1, <1>4, <1>10 DEF Queues, Linked
<1>12. Writers'
  BY <1>1 DEF Writers, AtWork
<1>13. Shown'
  BY <1>1 DEF Shown, Complete
<1>14. Awaited'
  BY <1>1, <1>4, <1>5 DEF Awaited, Complete
<1>15. QED
  BY <1>7, <1>8, <1>9, <1>11, <1>12, <1>13, <1>14 DEF SummaryInv

-----------------------------------------------------------------------------
(* The orders.                                                             *)

(* Orders are told apart by their logs.                                    *)
LEMMA OrderFacts ==
    /\ \A l, m : Order(l) = Order(m) <=> l = m
    /\ \A l : Order(l).log = l /\ Order(l).cmd = "decode"
    /\ \A l \in Logs : Order(l) \in Orders
    /\ \A o \in Orders : o.log \in Logs /\ o = Order(o.log) /\ o.cmd = "decode"
<1>1. \A l : Order(l).log = l /\ Order(l).cmd = "decode"
  BY DEF Order
<1>2. \A l, m : Order(l) = Order(m) => l = m
  BY <1>1
<1>3. \A o \in Orders : o.log \in Logs /\ o = Order(o.log) /\ o.cmd = "decode"
  BY <1>1 DEF Orders
<1>4. QED
  BY <1>1, <1>2, <1>3 DEF Orders

(* A sample is ordered unless it has a decoded file.                       *)
LEMMA DecodeLogKeeps == ASSUME SummaryInv, DecodeLog PROVE SummaryInv'
<1> DEFINE l == Head(todo)
<1>1. /\ SummaryTypes /\ Arrays /\ Treated /\ Queues /\ Writers /\ Awaited /\ Linked
      /\ phase = "decode" /\ todo # <<>> /\ todo' = Tail(todo)
      /\ UNCHANGED <<content, cksum, present, phase, run, scan, tag2msg, tag2log, class2tag, logid,
                     rest, started, jobs, txt, text, linked, interrupted>>
      /\ decodeList' = IF l \in HasElf /\ txt[l].is = "none"
                         THEN Append(decodeList, Order(l)) ELSE decodeList
  BY DEF DecodeLog, SummaryInv, disk, arrays, pool, output, Order
<1>2. /\ l \in Logs /\ Tail(todo) \in Seq(Logs) /\ Has(todo, l)
      /\ \A y : Has(todo, y) <=> y = l \/ Has(Tail(todo), y)
      /\ NoRepeat(Tail(todo)) /\ ~Has(Tail(todo), l)
  BY <1>1, TailFacts DEF SummaryTypes, Queues
<1>3. Issues' = Issues /\ \A m : (Issue(m))' = Issue(m) /\ (Tag(m))' = Tag(m)
  BY <1>1, IssueFrame
<1> HIDE DEF l
<1>4. /\ decodeList' \in Seq(Orders) /\ NoRepeat(decodeList')
      /\ \A m \in Logs : Has(decodeList', Order(m)) <=>
            \/ Has(decodeList, Order(m))
            \/ m = l /\ l \in HasElf /\ txt[l].is = "none"
  <2>1. /\ decodeList \in Seq(Orders) /\ NoRepeat(decodeList) /\ ~Has(decodeList, Order(l))
        /\ Order(l) \in Orders
    BY <1>1, <1>2, OrderFacts DEF SummaryTypes, Queues
  <2>2. CASE l \in HasElf /\ txt[l].is = "none"
    <3>1. /\ Append(decodeList, Order(l)) \in Seq(Orders) /\ NoRepeat(Append(decodeList, Order(l)))
          /\ \A y : Has(Append(decodeList, Order(l)), y) <=> Has(decodeList, y) \/ y = Order(l)
      BY <2>1, AppendFacts
    <3>2. QED
      BY <1>1, <2>2, <3>1, OrderFacts
  <2>3. CASE ~(l \in HasElf /\ txt[l].is = "none")
    BY <1>1, <2>1, <2>3
  <2>4. QED
    BY <2>2, <2>3
<1>5. SummaryTypes'
  BY <1>1, <1>2, <1>3, <1>4 DEF SummaryTypes
<1>6. Arrays' /\ Treated'
  BY <1>1, <1>3 DEF Arrays, Treated
<1>7. Queues'
  <2>1. \A m \in Logs : ~(Has(Tail(todo), m) /\ Has(decodeList', Order(m)))
    BY <1>1, <1>2, <1>4 DEF Queues
  <2>2. QED
    BY <1>1, <1>2, <1>4, <2>1 DEF Queues
<1>8. Writers'
  BY <1>1 DEF Writers, AtWork
<1>9. Shown'
  BY <1>1 DEF Shown, Complete
<1>10. Awaited'
  <2> SUFFICES ASSUME NEW m \in scan \cap HasElf
               PROVE  \/ txt[m].is # "none" \/ Stood(m)
                      \/ Has(Tail(todo), m) \/ Has(decodeList', Order(m))
                      \/ \E j \in JobIds : j[1] = run /\ Has(jobs[j].lines, Order(m))
    BY <1>1 DEF Awaited, Stood
  <2>1. \/ txt[m].is # "none" \/ Stood(m)
        \/ Has(todo, m) \/ Has(decodeList, Order(m))
        \/ \E j \in JobIds : j[1] = run /\ Has(jobs[j].lines, Order(m))
    BY <1>1 DEF Awaited
  <2>2. m \in Logs /\ m \in HasElf
    BY <1>1 DEF SummaryTypes
  <2>3. QED
    BY <1>2, <1>4, <2>1, <2>2
<1>11. Linked'
  <2>1. \A m \in linked : m \in Logs /\ ~Has(decodeList', Order(m))
    BY <1>1, <1>4 DEF SummaryTypes, Linked
  <2>2. QED
    BY <1>1, <2>1 DEF Linked
<1>12. QED
  BY <1>5, <1>6, <1>7, <1>8, <1>9, <1>10, <1>11 DEF SummaryInv

(* The orders are handed to split, if there are any.                       *)
LEMMA SplitKeeps == ASSUME SummaryInv, Split PROVE SummaryInv'
<1>1. /\ SummaryTypes /\ Arrays /\ Treated /\ Queues /\ Writers /\ Awaited /\ Linked
      /\ phase = "decode" /\ todo = <<>> /\ rest' = decodeList
      /\ \/ decodeList = <<>> /\ phase' = "text"
         \/ decodeList # <<>> /\ phase' = "spawn"
      /\ UNCHANGED <<content, cksum, present, run, scan, todo, tag2msg, tag2log, class2tag, logid,
                     decodeList, started, jobs, txt, text, linked, interrupted>>
  BY DEF Split, SummaryInv, disk, arrays, output
<1>2. Issues' = Issues /\ \A m : (Issue(m))' = Issue(m) /\ (Tag(m))' = Tag(m)
  BY <1>1, IssueFrame
<1>3. SummaryTypes'
  BY <1>1, <1>2 DEF SummaryTypes
<1>4. Arrays' /\ Treated'
  BY <1>1, <1>2 DEF Arrays, Treated
<1>5. \A j \in JobIds : j[1] = run => jobs[j] = NoJob
  BY <1>1 DEF Writers, AtWork, SummaryTypes
<1>6. \A j \in JobIds : j[1] = run => \A y : ~Has(jobs[j].lines, y)
  BY <1>5, EmptyFacts DEF NoJob
<1>7. Queues'
  BY <1>1, <1>6 DEF Queues
<1>8. Writers'
  BY <1>1 DEF Writers, AtWork
<1>9. Shown'
  BY <1>1 DEF Shown, Complete
<1>10. Awaited'
  <2>1. \A y : ~Has(todo, y)
    BY <1>1, EmptyFacts
  <2>2. decodeList = <<>> => \A y : ~Has(decodeList, y)
    BY EmptyFacts
  <2>3. QED
    BY <1>1, <1>6, <2>1, <2>2 DEF Awaited, Stood
<1>11. Linked'
  BY <1>1 DEF Linked
<1>12. QED
  BY <1>3, <1>4, <1>7, <1>8, <1>9, <1>10, <1>11 DEF SummaryInv

(* A job is started with the next orders, and the last one with all that   *)
(* are left.                                                               *)
LEMMA SpawnKeeps == ASSUME SummaryInv, Spawn PROVE SummaryInv'
<1> DEFINE j == <<run, started + 1>>
<1>1. /\ SummaryTypes /\ Arrays /\ Treated /\ Queues /\ Writers /\ Awaited /\ Linked
      /\ phase = "spawn"
      /\ UNCHANGED <<content, cksum, present, run, scan, todo, tag2msg, tag2log, class2tag, logid,
                     decodeList, txt, text, linked, interrupted>>
  BY DEF Spawn, SummaryInv, disk, arrays, output
<1>2. PICK n \in 0 .. Len(rest) :
         /\ started + 1 = NProc => n = Len(rest)
         /\ jobs' = [jobs EXCEPT ![j].lines = SubSeq(rest, 1, n)]
         /\ rest' = SubSeq(rest, n + 1, Len(rest))
         /\ started' = IF started + 1 = NProc THEN 0 ELSE started + 1
         /\ phase' = IF started + 1 = NProc THEN "wait" ELSE "spawn"
  BY DEF Spawn
<1> DEFINE p == SubSeq(rest, 1, n)
<1>3. /\ p \in Seq(Orders) /\ rest' \in Seq(Orders)
      /\ \A y : Has(rest, y) <=> Has(p, y) \/ Has(rest', y)
      /\ NoRepeat(p) /\ NoRepeat(rest') /\ \A y : ~(Has(p, y) /\ Has(rest', y))
  BY <1>1, <1>2, CutFacts DEF SummaryTypes, Queues
<1> HIDE DEF p
<1>4. /\ NProc \in Nat \ {0} /\ started \in Nat /\ started + 1 \in 1 .. NProc
      /\ run \in 1 .. MaxRuns /\ run \notin interrupted
      /\ j \in JobIds /\ j[1] = run /\ j[2] = started + 1
      /\ run \in Nat /\ MaxRuns \in Nat
  BY <1>1, SummaryAssumption DEF SummaryTypes, JobIds
<1>5. /\ started + 1 = NProc => started' = 0 /\ phase' = "wait"
      /\ started + 1 # NProc => started' = started + 1 /\ phase' = "spawn"
      /\ started' \in 0 .. NProc - 1
  BY <1>2, <1>4
<1>6. jobs[j] = NoJob
  BY <1>1, <1>4 DEF Writers, AtWork
<1> HIDE DEF j
<1>7. /\ jobs' \in [JobIds -> [lines : Seq(Orders), open : BOOLEAN]]
      /\ jobs'[j].lines = p /\ ~jobs'[j].open
      /\ \A k \in JobIds \ {j} : jobs'[k] = jobs[k]
  <2>1. jobs' = [jobs EXCEPT ![j].lines = p]
    BY <1>2 DEF p
  <2>2. ~jobs[j].open /\ jobs \in [JobIds -> [lines : Seq(Orders), open : BOOLEAN]]
    BY <1>1, <1>6 DEF NoJob, SummaryTypes
  <2>3. QED
    BY <1>3, <1>4, <2>1, <2>2
<1>8. \A y : ~Has(jobs[j].lines, y)
  BY <1>6, EmptyFacts DEF NoJob
<1>9. started + 1 = NProc => rest' = <<>>
  <2>1. ASSUME started + 1 = NProc
        PROVE  rest' = <<>>
    <3>1. rest' = SubSeq(rest, Len(rest) + 1, Len(rest)) /\ Len(rest) \in Nat
      BY <1>1, <1>2, <2>1, LenProperties DEF SummaryTypes
    <3>2. QED
      BY <3>1, SubSeqEmpty
  <2>2. QED
    BY <2>1
<1>10. Issues' = Issues /\ \A m : (Issue(m))' = Issue(m) /\ (Tag(m))' = Tag(m)
  BY <1>1, IssueFrame
<1>11. phase' \in {"spawn", "wait"}
  BY <1>5
<1>12. SummaryTypes'
  BY <1>1, <1>3, <1>5, <1>7, <1>10, <1>11 DEF SummaryTypes
<1>13. Arrays' /\ Treated'
  BY <1>1, <1>10, <1>11 DEF Arrays, Treated
<1>14. \A k \in JobIds : \A y : Has(jobs'[k].lines, y) <=>
          Has(jobs[k].lines, y) \/ (k = j /\ Has(p, y))
  BY <1>4, <1>7, <1>8
<1>15. Queues'
  <2>1. phase' # "spawn" => rest' = <<>> /\ started' = 0
    BY <1>5, <1>9
  <2>2. \A k \in JobIds : NoRepeat(jobs'[k].lines)
    BY <1>1, <1>3, <1>7 DEF Queues
  <2>3. ASSUME NEW k \in JobIds, NEW m \in JobIds, NEW l \in Logs, k[1] = m[1],
               Has(jobs'[k].lines, Order(l)), Has(jobs'[m].lines, Order(l))
        PROVE  k = m
    BY <1>1, <1>3, <1>4, <1>14, <2>3 DEF Queues
  <2>4. ASSUME NEW k \in JobIds, NEW l \in Logs, k[1] = run,
               Has(rest', Order(l)), Has(jobs'[k].lines, Order(l))
        PROVE  FALSE
    BY <1>1, <1>3, <1>4, <1>14, <2>4 DEF Queues
  <2>5. QED
    BY <1>1, <1>3, <1>11, <2>1, <2>2, <2>3, <2>4 DEF Queues
<1>16. Writers'
  <2>1. ASSUME NEW k \in JobIds, jobs'[k] # NoJob
        PROVE  (AtWork(k))'
    <3>1. CASE k = j
      BY <1>1, <1>4, <1>5, <3>1 DEF AtWork
    <3>2. CASE k # j
      <4>1. k \in (1 .. MaxRuns) \X (1 .. NProc) /\ k[2] \in Nat
        BY <1>4 DEF JobIds
      <4>2. AtWork(k)
        BY <1>1, <1>7, <2>1, <3>2 DEF Writers
      <4>3. QED
        BY <1>1, <1>4, <1>5, <4>1, <4>2 DEF AtWork
    <3>3. QED
      BY <3>1, <3>2
  <2>2. \A k \in JobIds : jobs'[k].open =>
           jobs'[k].lines # <<>> /\ txt[Head(jobs'[k].lines).log].is # "none"
    BY <1>1, <1>7 DEF Writers
  <2>3. ASSUME NEW l \in Logs, txt[l].is = "written"
        PROVE  /\ txt[l].by \in JobIds /\ jobs'[txt[l].by].open
               /\ Head(jobs'[txt[l].by].lines).log = l
    <3>1. txt[l].by \in JobIds /\ jobs[txt[l].by].open /\ Head(jobs[txt[l].by].lines).log = l
      BY <1>1, <2>3 DEF Writers
    <3>2. txt[l].by # j
      BY <1>6, <3>1 DEF NoJob
    <3>3. QED
      BY <1>7, <3>1, <3>2
  <2>4. QED
    BY <1>1, <2>1, <2>2, <2>3 DEF Writers
<1>17. Shown'
  BY <1>1, <1>11 DEF Shown, Complete
<1>18. Awaited'
  <2> SUFFICES ASSUME NEW m \in scan \cap HasElf
               PROVE  \/ txt[m].is # "none" \/ Stood(m)
                      \/ phase' = "spawn" /\ Has(rest', Order(m))
                      \/ \E k \in JobIds : k[1] = run /\ Has(jobs'[k].lines, Order(m))
    BY <1>1, <1>11 DEF Awaited, Stood
  <2>1. \/ txt[m].is # "none" \/ Stood(m) \/ Has(rest, Order(m))
        \/ \E k \in JobIds : k[1] = run /\ Has(jobs[k].lines, Order(m))
    BY <1>1 DEF Awaited
  <2>2. Has(rest, Order(m)) =>
           Has(jobs'[j].lines, Order(m)) \/ (phase' = "spawn" /\ Has(rest', Order(m)))
    BY <1>3, <1>4, <1>5, <1>9, <1>14, EmptyFacts
  <2>3. QED
    BY <1>4, <1>14, <2>1, <2>2
<1>19. Linked'
  <2>1. \A l \in linked : ~Has(p, Order(l)) /\ ~Has(rest', Order(l))
    BY <1>1, <1>3 DEF Linked
  <2>2. QED
    BY <1>1, <1>11, <1>14, <2>1 DEF Linked
<1>20. QED
  BY <1>12, <1>13, <1>15, <1>16, <1>17, <1>18, <1>19 DEF SummaryInv

-----------------------------------------------------------------------------
(* The jobs.                                                               *)

(* A job opens the decoded file of the order it has come to.               *)
LEMMA OpenKeeps == ASSUME SummaryInv, NEW j \in JobIds, Open(j) PROVE SummaryInv'
<1> DEFINE l == Head(jobs[j].lines).log
<1>1. /\ SummaryTypes /\ Arrays /\ Treated /\ Shown /\ Queues /\ Writers /\ Awaited /\ Linked
      /\ jobs[j].lines # <<>> /\ ~jobs[j].open
      /\ UNCHANGED <<content, cksum, present, phase, run, scan, todo, tag2msg, tag2log, class2tag,
                     logid, decodeList, rest, started, text, linked, interrupted>>
  BY DEF Open, SummaryInv, disk, arrays, output
<1>2. /\ jobs[j].lines \in Seq(Orders) /\ Head(jobs[j].lines) \in Orders
      /\ Has(jobs[j].lines, Head(jobs[j].lines))
  BY <1>1, TailFacts DEF SummaryTypes
<1>3. l \in Logs /\ Head(jobs[j].lines) = Order(l) /\ Head(jobs[j].lines).cmd = "decode"
  BY <1>2, OrderFacts
<1>4. /\ jobs' = [jobs EXCEPT ![j].open = TRUE]
      /\ txt' = [txt EXCEPT ![l] = [is |-> "written", by |-> j]]
  BY <1>3 DEF Open
<1> HIDE DEF l
<1>5. /\ jobs' \in [JobIds -> [lines : Seq(Orders), open : BOOLEAN]]
      /\ \A k \in JobIds : jobs'[k].lines = jobs[k].lines
      /\ jobs'[j].open /\ \A k \in JobIds \ {j} : jobs'[k] = jobs[k]
  BY <1>1, <1>4 DEF SummaryTypes
<1>6. /\ txt' \in [Logs -> Files]
      /\ txt'[l] = [is |-> "written", by |-> j] /\ \A m \in Logs \ {l} : txt'[m] = txt[m]
  <2>1. [is |-> "written", by |-> j] \in Files
    BY SummaryAssumption DEF Files, JobIds
  <2>2. QED
    BY <1>1, <1>3, <1>4, <2>1 DEF SummaryTypes
<1>7. \A m \in Logs : txt[m].is # "none" => txt'[m].is # "none"
  BY <1>6
<1>8. Issues' = Issues /\ \A m : (Issue(m))' = Issue(m) /\ (Tag(m))' = Tag(m)
  BY <1>1, IssueFrame
<1>9. SummaryTypes'
  BY <1>1, <1>5, <1>6, <1>8 DEF SummaryTypes
<1>10. Arrays' /\ Treated'
  BY <1>1, <1>8 DEF Arrays, Treated
<1>11. Shown'
  BY <1>1, <1>8 DEF Shown, Complete, Exact
<1>12. Queues'
  BY <1>1, <1>5 DEF Queues
<1>13. AtWork(j)
  BY <1>1 DEF Writers, NoJob
<1>14. Writers'
  <2>1. \A k \in JobIds : jobs'[k] # NoJob => (AtWork(k))'
    BY <1>1, <1>5, <1>13 DEF Writers, AtWork
  <2>2. ASSUME NEW k \in JobIds, jobs'[k].open
        PROVE  jobs'[k].lines # <<>> /\ txt'[Head(jobs'[k].lines).log].is # "none"
    <3>1. CASE k = j
      BY <1>1, <1>5, <1>6, <3>1 DEF l
    <3>2. CASE k # j
      <4>1. jobs[k].lines # <<>> /\ txt[Head(jobs[k].lines).log].is # "none" /\ jobs'[k] = jobs[k]
        BY <1>1, <1>5, <2>2, <3>2 DEF Writers
      <4>2. jobs[k].lines \in Seq(Orders)
        BY <1>1 DEF SummaryTypes
      <4>3. Head(jobs[k].lines).log \in Logs
        BY <4>1, <4>2, TailFacts, OrderFacts
      <4>4. QED
        BY <1>7, <4>1, <4>3
    <3>3. QED
      BY <3>1, <3>2
  <2>3. ASSUME NEW m \in Logs, txt'[m].is = "written"
        PROVE  /\ txt'[m].by \in JobIds /\ jobs'[txt'[m].by].open
               /\ Head(jobs'[txt'[m].by].lines).log = m
    <3>1. CASE m = l
      BY <1>5, <1>6, <3>1 DEF l
    <3>2. CASE m # l
      BY <1>1, <1>5, <1>6, <2>3, <3>2 DEF Writers
    <3>3. QED
      BY <3>1, <3>2
  <2>4. QED
    BY <2>1, <2>2, <2>3 DEF Writers
<1>15. Awaited'
  <2> SUFFICES ASSUME phase \notin {"idle", "scan"} \/ Complete, NEW m \in scan \cap HasElf
               PROVE  \/ txt'[m].is # "none" \/ Stood(m)
                      \/ phase = "decode" /\ (Has(todo, m) \/ Has(decodeList, Order(m)))
                      \/ phase = "spawn" /\ Has(rest, Order(m))
                      \/ \E k \in JobIds : k[1] = run /\ Has(jobs[k].lines, Order(m))
    BY <1>1, <1>5 DEF Awaited, Stood, Complete
  <2>1. m \in Logs
    BY <1>1 DEF SummaryTypes
  <2>2. QED
    BY <1>1, <1>7, <2>1 DEF Awaited
<1>16. Linked'
  <2> SUFFICES ASSUME NEW m \in linked
               PROVE  /\ txt'[m].is # "none"
                      /\ txt'[m].is = "written" => txt'[m].by[1] \in interrupted
    BY <1>1, <1>5 DEF Linked
  <2>1. m \in Logs
    BY <1>1 DEF SummaryTypes
  <2>2. CASE m = l
    BY <1>1, <1>2, <1>3, <1>6, <2>2 DEF Linked
  <2>3. CASE m # l
    BY <1>1, <1>6, <2>1, <2>3 DEF Linked
  <2>4. QED
    BY <2>2, <2>3
<1>17. QED
  BY <1>9, <1>10, <1>11, <1>12, <1>14, <1>15, <1>16 DEF SummaryInv

(* A decoder ends; the file is whole or cut, unless another job has opened *)
(* it since.                                                               *)
LEMMA EndsKeeps ==
    ASSUME SummaryInv, NEW j \in JobIds, NEW state \in {"whole", "cut"}, Ends(j, state)
    PROVE  SummaryInv'
<1> DEFINE l == Head(jobs[j].lines).log
<1>1. /\ SummaryTypes /\ Arrays /\ Treated /\ Shown /\ Queues /\ Writers /\ Awaited /\ Linked
      /\ jobs[j].open
      /\ jobs' = [jobs EXCEPT ![j] = [lines |-> Tail(jobs[j].lines), open |-> FALSE]]
      /\ txt' = IF txt[l] = [is |-> "written", by |-> j]
                  THEN [txt EXCEPT ![l] = [is |-> state, by |-> <<0, 0>>]] ELSE txt
      /\ UNCHANGED <<content, cksum, present, phase, run, scan, todo, tag2msg, tag2log, class2tag,
                     logid, decodeList, rest, started, text, linked, interrupted>>
  BY DEF Ends, SummaryInv, disk, arrays, output
<1>2. jobs[j].lines \in Seq(Orders) /\ jobs[j].lines # <<>>
  BY <1>1 DEF SummaryTypes, Writers
<1>3. /\ Head(jobs[j].lines) \in Orders /\ Tail(jobs[j].lines) \in Seq(Orders)
      /\ \A y : Has(jobs[j].lines, y) <=> y = Head(jobs[j].lines) \/ Has(Tail(jobs[j].lines), y)
      /\ NoRepeat(Tail(jobs[j].lines))
  BY <1>1, <1>2, TailFacts DEF Queues
<1>4. l \in Logs /\ Head(jobs[j].lines) = Order(l)
  BY <1>3, OrderFacts
<1>5. txt[l].is # "none"
  BY <1>1 DEF Writers
<1> HIDE DEF l
<1>6. /\ jobs' \in [JobIds -> [lines : Seq(Orders), open : BOOLEAN]]
      /\ \A k \in JobIds \ {j} : jobs'[k] = jobs[k]
      /\ jobs'[j].lines = Tail(jobs[j].lines) /\ ~jobs'[j].open
  BY <1>1, <1>3 DEF SummaryTypes
<1>7. /\ \A k \in JobIds : \A y : Has(jobs'[k].lines, y) => Has(jobs[k].lines, y)
      /\ \A k \in JobIds : \A y : Has(jobs[k].lines, y) => Has(jobs'[k].lines, y) \/ y = Order(l)
      /\ \A k \in JobIds : NoRepeat(jobs'[k].lines)
  BY <1>1, <1>3, <1>4, <1>6 DEF Queues
<1>8. /\ txt' \in [Logs -> Files]
      /\ \A m \in Logs : txt'[m] = txt[m] \/ txt'[m].is \in {"whole", "cut"}
      /\ \A m \in Logs : txt'[m].is = "written" => txt'[m] = txt[m] /\ txt[m].by # j
      /\ \A m \in Logs : txt[m].is # "none" => txt'[m].is # "none"
  <2>1. [is |-> state, by |-> <<0, 0>>] \in Files
    BY SummaryAssumption DEF Files
  <2>2. txt \in [Logs -> Files] /\ txt' \in [Logs -> Files]
    BY <1>1, <2>1 DEF SummaryTypes
  <2>3. ASSUME NEW m \in Logs, txt[m].is = "written", txt[m].by = j
        PROVE  m = l /\ txt[l] = [is |-> "written", by |-> j]
    <3>1. m = l
      BY <1>1, <2>3 DEF Writers, l
    <3>2. QED
      BY <2>2, <2>3, <3>1 DEF Files
  <2>4. CASE txt[l] = [is |-> "written", by |-> j]
    BY <1>1, <1>4, <2>2, <2>3, <2>4
  <2>5. CASE txt[l] # [is |-> "written", by |-> j]
    BY <1>1, <2>2, <2>3, <2>5
  <2>6. QED
    BY <2>4, <2>5
<1>9. Issues' = Issues /\ \A m : (Issue(m))' = Issue(m) /\ (Tag(m))' = Tag(m)
  BY <1>1, IssueFrame
<1>10. SummaryTypes'
  BY <1>1, <1>6, <1>8, <1>9 DEF SummaryTypes
<1>11. Arrays' /\ Treated'
  BY <1>1, <1>9 DEF Arrays, Treated
<1>12. Shown'
  BY <1>1, <1>9 DEF Shown, Complete, Exact
<1>13. Queues'
  BY <1>1, <1>7 DEF Queues
<1>14. Writers'
  <2>1. \A k \in JobIds : jobs'[k] # NoJob => (AtWork(k))'
    <3>1. jobs[j] # NoJob
      BY <1>1 DEF NoJob
    <3>2. \A k \in JobIds : jobs'[k] # NoJob => jobs[k] # NoJob
      BY <1>6, <3>1
    <3>3. QED
      BY <1>1, <3>2 DEF Writers, AtWork
  <2>2. ASSUME NEW k \in JobIds, jobs'[k].open
        PROVE  jobs'[k].lines # <<>> /\ txt'[Head(jobs'[k].lines).log].is # "none"
    <3>1. jobs'[k] = jobs[k]
      BY <1>6, <2>2
    <3>2. jobs[k].lines # <<>> /\ txt[Head(jobs[k].lines).log].is # "none"
      BY <1>1, <2>2, <3>1 DEF Writers
    <3>3. jobs[k].lines \in Seq(Orders)
      BY <1>1 DEF SummaryTypes
    <3>4. Head(jobs[k].lines).log \in Logs
      BY <3>2, <3>3, TailFacts, OrderFacts
    <3>5. QED
      BY <1>8, <3>1, <3>2, <3>4
  <2>3. ASSUME NEW m \in Logs, txt'[m].is = "written"
        PROVE  /\ txt'[m].by \in JobIds /\ jobs'[txt'[m].by].open
               /\ Head(jobs'[txt'[m].by].lines).log = m
    <3>1. txt'[m] = txt[m] /\ txt[m].is = "written" /\ txt[m].by # j
      BY <1>8, <2>3
    <3>2. txt[m].by \in JobIds /\ jobs[txt[m].by].open /\ Head(jobs[txt[m].by].lines).log = m
      BY <1>1, <3>1 DEF Writers
    <3>3. QED
      BY <1>6, <3>1, <3>2
  <2>4. QED
    BY <2>1, <2>2, <2>3 DEF Writers
<1>15. Awaited'
  <2> SUFFICES ASSUME phase \notin {"idle", "scan"} \/ Complete, NEW m \in scan \cap HasElf
               PROVE  \/ txt'[m].is # "none" \/ Stood(m)
                      \/ phase = "decode" /\ (Has(todo, m) \/ Has(decodeList, Order(m)))
                      \/ phase = "spawn" /\ Has(rest, Order(m))
                      \/ \E k \in JobIds : k[1] = run /\ Has(jobs'[k].lines, Order(m))
    BY <1>1 DEF Awaited, Stood, Complete
  <2>1. m \in Logs
    BY <1>1 DEF SummaryTypes
  <2>2. CASE m = l
    BY <1>4, <1>5, <1>8, <2>2
  <2>3. CASE m # l
    <3>1. \A k \in JobIds : Has(jobs[k].lines, Order(m)) => Has(jobs'[k].lines, Order(m))
      BY <1>7, <2>3, OrderFacts
    <3>2. QED
      BY <1>1, <1>8, <2>1, <3>1 DEF Awaited
  <2>4. QED
    BY <2>2, <2>3
<1>16. Linked'
  <2>1. linked \subseteq Logs
    BY <1>1 DEF SummaryTypes
  <2>2. \A m \in linked : /\ txt'[m].is # "none"
                          /\ txt'[m].is = "written" => txt'[m].by[1] \in interrupted
    BY <1>1, <1>8, <2>1 DEF Linked
  <2>3. QED
    BY <1>1, <1>7, <2>2 DEF Linked
<1>17. QED
  BY <1>10, <1>11, <1>12, <1>13, <1>14, <1>15, <1>16 DEF SummaryInv

-----------------------------------------------------------------------------
(* The summary.                                                            *)

(* No job of this run is left when the wait is over.                       *)
LEMMA WaitedKeeps == ASSUME SummaryInv, Waited PROVE SummaryInv'
<1>1. /\ SummaryTypes /\ Arrays /\ Treated /\ Queues /\ Writers /\ Awaited /\ Linked
      /\ phase = "wait" /\ phase' = "text" /\ JobsDone
      /\ UNCHANGED <<content, cksum, present, run, scan, todo, tag2msg, tag2log, class2tag, logid,
                     decodeList, rest, started, jobs, txt, text, linked, interrupted>>
  BY DEF Waited, SummaryInv, disk, arrays, pool, output
<1>2. Issues' = Issues /\ \A m : (Issue(m))' = Issue(m) /\ (Tag(m))' = Tag(m)
  BY <1>1, IssueFrame
<1>3. SummaryTypes'
  BY <1>1, <1>2 DEF SummaryTypes
<1>4. Arrays' /\ Treated'
  BY <1>1, <1>2 DEF Arrays, Treated
<1>5. \A j \in JobIds : j[1] = run => jobs[j] = NoJob
  <2>1. \A j \in JobIds : j[2] \in 1 .. NProc /\ j = <<j[1], j[2]>>
    BY DEF JobIds
  <2>2. QED
    BY <1>1, <2>1 DEF JobsDone
<1>6. Queues' /\ Linked'
  BY <1>1 DEF Queues, Linked
<1>7. Writers'
  BY <1>1, <1>5 DEF Writers, AtWork
<1>8. Shown'
  BY <1>1 DEF Shown, Complete
<1>9. Awaited'
  BY <1>1 DEF Awaited, Stood
<1>10. QED
  BY <1>3, <1>4, <1>6, <1>7, <1>8, <1>9 DEF SummaryInv

(* The text has each log at the one place where the loops come to it.      *)
LEMMA RenderTextKeeps == ASSUME SummaryInv, RenderText PROVE SummaryInv'
<1>1. /\ SummaryTypes /\ Arrays /\ Treated /\ Queues /\ Writers /\ Awaited /\ Linked
      /\ phase = "text" /\ phase' = "html"
      /\ UNCHANGED <<content, cksum, present, run, scan, todo, tag2msg, tag2log, class2tag, logid,
                     decodeList, rest, started, jobs, txt, linked, interrupted>>
  BY DEF RenderText, SummaryInv, disk, arrays, pool
<1>2. Issues' = Issues /\ \A m : (Issue(m))' = Issue(m) /\ (Tag(m))' = Tag(m)
  BY <1>1, IssueFrame
<1>3. SummaryTypes'
  BY <1>1, <1>2 DEF SummaryTypes
<1>4. Arrays' /\ Treated'
  BY <1>1, <1>2 DEF Arrays, Treated
<1>5. Queues' /\ Linked'
  BY <1>1 DEF Queues, Linked
<1>6. Writers'
  BY <1>1 DEF Writers, AtWork
<1>7. Awaited'
  BY <1>1 DEF Awaited, Stood
<1>8. Exact'
  <2>1. /\ DOMAIN text' = Places
        /\ \A p \in Places : /\ text'[p].log = LogAt(p)
                             /\ text'[p].class = ClassesOrder[p[1]]
                             /\ text'[p].issue = tag2msg[TagAt(p[1], p[2])]
    BY DEF RenderText
  <2> SUFFICES ASSUME NEW l \in scan
               PROVE  \E p \in Places :
                         /\ \A q \in Places : text'[q].log = l <=> q = p
                         /\ text'[p].class = text'[p].issue.class
                         /\ cksum[text'[p].issue] = cksum[Issue(l)]
    BY <1>1, <1>2, <2>1 DEF Exact
  <2>2. PICK p \in Places : LogAt(p) = l
    BY <1>1, PlacesFacts
  <2>3. \A q \in Places : LogAt(q) = l <=> q = p
    BY <1>1, <2>2, PlacesFacts
  <2>4. /\ Tag(l) = TagAt(p[1], p[2]) /\ TagAt(p[1], p[2]) \in Tags
        /\ tag2msg[TagAt(p[1], p[2])] # NoIssue
        /\ tag2msg[TagAt(p[1], p[2])].class = ClassesOrder[p[1]]
    BY <1>1, <2>2, PlacesFacts
  <2>5. cksum[tag2msg[TagAt(p[1], p[2])]] = cksum[Issue(l)]
    BY <1>1, <2>4 DEF Arrays, Tag
  <2>6. QED
    BY <2>1, <2>3, <2>4, <2>5
<1>9. Shown'
  BY <1>8 DEF Shown
<1>10. QED
  BY <1>3, <1>4, <1>5, <1>6, <1>7, <1>9 DEF SummaryInv

(* What is cleared is as it was at first.                                  *)
LEMMA ClearedFacts ==
    ASSUME Cleared
    PROVE  /\ tag2msg' \in [Tags -> Issues \cup {NoIssue}] /\ tag2log' \in [Tags -> Seq(Logs)]
           /\ class2tag' \in [Classes -> Seq(Tags)]
           /\ tag2msg' = [t \in Tags |-> NoIssue]
           /\ \A t \in Tags : tag2log'[t] = <<>> /\ tag2msg'[t] = NoIssue
           /\ \A c \in Classes : class2tag'[c] = <<>>
BY EmptyFacts DEF Cleared, Classes

(* The links are made when no job of this run is left.                     *)
LEMMA RenderHtmlKeeps == ASSUME SummaryInv, RenderHtml PROVE SummaryInv'
<1>1. /\ SummaryTypes /\ Arrays /\ Treated /\ Shown /\ Queues /\ Writers /\ Awaited
      /\ phase = "html" /\ phase' = "idle" /\ Cleared
      /\ linked' = {l \in Listed : txt[l].is # "none"}
      /\ UNCHANGED <<content, cksum, present, run, scan, todo, logid, rest, started, jobs, txt,
                     text, interrupted>>
  BY DEF RenderHtml, SummaryInv, disk, pool
<1>2. Issues' = Issues /\ \A m : (Issue(m))' = Issue(m) /\ (Tag(m))' = Tag(m)
  BY <1>1, IssueFrame
<1>3. linked' \subseteq scan /\ linked' \subseteq Logs /\ scan \subseteq Logs
  BY <1>1, PlacesFacts DEF SummaryTypes
<1>4. SummaryTypes'
  BY <1>1, <1>2, <1>3, ClearedFacts DEF SummaryTypes
<1>5. Arrays' /\ Treated'
  BY <1>1, EmptyFacts, ClearedFacts DEF Arrays, Treated
<1>6. Shown'
  BY <1>1, <1>2 DEF Shown, Exact
<1>7. \A j \in JobIds : jobs[j] # NoJob => j[1] \in interrupted
  BY <1>1 DEF Writers, AtWork
<1>8. Queues' /\ Writers'
  BY <1>1, <1>7 DEF Queues, Writers, AtWork
<1>9. Awaited'
  BY <1>1 DEF Awaited, Stood
<1>10. Linked'
  <2> SUFFICES ASSUME NEW l \in linked'
               PROVE  /\ txt[l].is # "none"
                      /\ txt[l].is = "written" => txt[l].by[1] \in interrupted
                      /\ ~Has(rest, Order(l))
                      /\ \A j \in JobIds : Has(jobs[j].lines, Order(l)) => j[1] \in interrupted
    BY <1>1 DEF Linked
  <2>1. l \in Logs /\ txt[l].is # "none"
    BY <1>1, <1>3
  <2>2. txt[l].is = "written" => txt[l].by[1] \in interrupted
    BY <1>1, <1>7, <2>1 DEF Writers, NoJob
  <2>3. ~Has(rest, Order(l))
    BY <1>1, EmptyFacts DEF Queues
  <2>4. \A j \in JobIds : Has(jobs[j].lines, Order(l)) => j[1] \in interrupted
    BY <1>7, EmptyFacts DEF NoJob
  <2>5. QED
    BY <2>1, <2>2, <2>3, <2>4
<1>11. QED
  BY <1>4, <1>5, <1>6, <1>8, <1>9, <1>10 DEF SummaryInv

(* ctrl-c: the jobs that are left are those of an interrupted run.         *)
LEMMA InterruptKeeps == ASSUME SummaryInv, Interrupt PROVE SummaryInv'
<1>1. /\ SummaryTypes /\ Queues /\ Writers /\ Linked
      /\ phase # "idle" /\ phase' = "idle" /\ interrupted' = interrupted \cup {run}
      /\ scan' = {} /\ todo' = <<>> /\ rest' = <<>> /\ started' = 0 /\ Cleared
      /\ UNCHANGED <<content, cksum, present, run, decodeList, jobs, txt, text, linked>>
  BY DEF Interrupt, SummaryInv, disk, output
<1>2. Issues' = Issues
  BY <1>1, IssueFrame
<1>3. SummaryTypes'
  <2>1. interrupted' \subseteq 1 .. run
    BY <1>1 DEF SummaryTypes
  <2>2. started' \in 0 .. NProc - 1
    BY <1>1, SummaryAssumption
  <2>3. QED
    BY <1>1, <1>2, <2>1, <2>2, ClearedFacts, EmptyFacts DEF SummaryTypes
<1>4. Arrays' /\ Treated'
  BY <1>1, EmptyFacts, ClearedFacts DEF Arrays, Treated
<1>5. Queues'
  BY <1>1, EmptyFacts DEF Queues
<1>6. Writers'
  BY <1>1 DEF Writers, AtWork
<1>7. Linked'
  BY <1>1, EmptyFacts DEF Linked
<1>8. ~Complete'
  BY <1>1 DEF Complete
<1>9. Shown' /\ Awaited'
  BY <1>1, <1>8 DEF Shown, Awaited
<1>10. QED
  BY <1>3, <1>4, <1>5, <1>6, <1>7, <1>9 DEF SummaryInv

(* Steps of others leave the run alone.                                    *)
LEMMA NewLogKeeps ==
    ASSUME SummaryInv,
           \/ UNCHANGED vars
           \/ \E l \in Logs : NewLog(l)
    PROVE  SummaryInv'
<1>1. /\ SummaryTypes /\ Arrays /\ Treated /\ Shown /\ Queues /\ Writers /\ Awaited /\ Linked
      /\ present' \subseteq Logs
      /\ UNCHANGED <<content, cksum, phase, run, scan, todo, tag2msg, tag2log, class2tag, logid,
                     decodeList, rest, started, jobs, txt, text, linked, interrupted>>
  BY DEF NewLog, SummaryInv, SummaryTypes, vars, disk, arrays, pool, output
<1>2. Issues' = Issues /\ \A m : (Issue(m))' = Issue(m) /\ (Tag(m))' = Tag(m)
  BY <1>1, IssueFrame
<1>3. SummaryTypes'
  BY <1>1, <1>2 DEF SummaryTypes
<1>4. Arrays' /\ Treated'
  BY <1>1, <1>2 DEF Arrays, Treated
<1>5. Queues' /\ Linked'
  BY <1>1 DEF Queues, Linked
<1>6. Writers'
  BY <1>1 DEF Writers, AtWork
<1>7. Shown'
  BY <1>1, <1>2 DEF Shown, Complete, Exact
<1>8. Awaited'
  BY <1>1 DEF Awaited, Stood, Complete
<1>9. QED
  BY <1>3, <1>4, <1>5, <1>6, <1>7, <1>8 DEF SummaryInv

-----------------------------------------------------------------------------
(* The arrays, the orders, the jobs and the decoded files are related as   *)
(* SummaryInv says, wherever runs are interrupted.                         *)
THEOREM SummaryInvAlways == Spec => []SummaryInv
<1>1. SummaryInv /\ [Next]_vars => SummaryInv'
  <2> SUFFICES ASSUME SummaryInv, [Next]_vars
               PROVE  SummaryInv'
    OBVIOUS
  <2>1. CASE \E j \in JobIds : Open(j) \/ Decoded(j) \/ DecodeFails(j)
    BY <2>1, OpenKeeps, EndsKeeps DEF Decoded, DecodeFails
  <2>2. CASE UNCHANGED vars \/ \E l \in Logs : NewLog(l)
    BY <2>2, NewLogKeeps
  <2>3. QED
    BY <2>1, <2>2, StartKeeps, ScanLogKeeps, CandidatesKeeps, DecodeLogKeeps, SplitKeeps,
       SpawnKeeps, WaitedKeeps, RenderTextKeeps, RenderHtmlKeeps, InterruptKeeps DEF Next
<1>2. QED
  BY <1>1, InitSummary, PTL DEF Spec

(* A run that was not interrupted lists each log it found once, under the  *)
(* class and the message of its own issue, or of one with the same         *)
(* checksum (summarize.sh:40-83, 194-231, 240-254).                        *)
THEOREM SpecSummaryExact == Spec => []SummaryExact
<1>1. SummaryInv => SummaryExact
  BY DEF SummaryInv, Shown, Exact, SummaryExact
<1>2. QED
  BY <1>1, SummaryInvAlways, PTL

(* After such a run each log that can be decoded was, or MAX_SAMPLES       *)
(* others stand for it; and what a summary links is whole, unless its      *)
(* decoder failed or a job of an interrupted run is still writing it       *)
(* (summarize.sh:113-165, 288-290, 308-329).                               *)
THEOREM SpecSamplesWhole == Spec => []SamplesWhole
<1>1. SummaryInv => SamplesWhole
  <2> SUFFICES ASSUME SummaryInv
               PROVE  SamplesWhole
    OBVIOUS
  <2>1. SummaryTypes /\ Writers /\ Awaited /\ Linked
    BY DEF SummaryInv
  <2>2. ASSUME Complete, NEW l \in scan \cap HasElf
        PROVE  \/ txt[l].is # "none"
               \/ Cardinality({m \in scan \ {l} : logid[m] = logid[l]}) >= MaxSamples
    <3>1. \A j \in JobIds : j[1] = run => ~Has(jobs[j].lines, Order(l))
      BY <2>1, <2>2, EmptyFacts DEF Writers, AtWork, Complete, NoJob
    <3>2. QED
      BY <2>1, <2>2, <3>1 DEF Awaited, Stood, Complete
  <2>3. ASSUME NEW l \in linked
        PROVE  \/ txt[l].is \in {"whole", "cut"}
               \/ txt[l].is = "written" /\ txt[l].by[1] \in interrupted
    BY <2>1 DEF SummaryTypes, Linked, Files
  <2>4. QED
    BY <2>2, <2>3 DEF SamplesWhole
<1>2. QED
  BY <1>1, SummaryInvAlways, PTL

(* The jobs of one run execute decode commands only, and no two of them    *)
(* write the same file (summarize.sh:152, 185, 316-320, 356).              *)
THEOREM SpecJobsDisjoint == Spec => []JobsDisjoint
<1>1. SummaryInv => JobsDisjoint
  <2> SUFFICES ASSUME SummaryInv, NEW j \in JobIds, NEW k \in JobIds,
                      NEW a \in DOMAIN jobs[j].lines, NEW b \in DOMAIN jobs[k].lines
               PROVE  /\ jobs[j].lines[a].cmd = "decode"
                      /\ j[1] = k[1] /\ jobs[j].lines[a].log = jobs[k].lines[b].log =>
                            j = k /\ a = b
    BY DEF JobsDisjoint
  <2>1. SummaryTypes /\ Queues
    BY DEF SummaryInv
  <2>2. jobs[j].lines \in Seq(Orders) /\ jobs[k].lines \in Seq(Orders)
    BY <2>1 DEF SummaryTypes
  <2>3. /\ a \in 1 .. Len(jobs[j].lines) /\ b \in 1 .. Len(jobs[k].lines)
        /\ jobs[j].lines[a] \in Orders /\ jobs[k].lines[b] \in Orders
    BY <2>2, LenProperties, ElementOfSeq
  <2> DEFINE l == jobs[j].lines[a].log
  <2>4. /\ l \in Logs /\ jobs[j].lines[a] = Order(l) /\ jobs[j].lines[a].cmd = "decode"
        /\ jobs[k].lines[b] = Order(jobs[k].lines[b].log)
    BY <2>3, OrderFacts
  <2> HIDE DEF l
  <2>5. ASSUME j[1] = k[1], l = jobs[k].lines[b].log
        PROVE  j = k /\ a = b
    <3>1. jobs[k].lines[b] = Order(l)
      BY <2>4, <2>5
    <3>2. j = k
      BY <2>1, <2>3, <2>4, <2>5, <3>1 DEF Queues, Has
    <3>3. QED
      BY <2>1, <2>3, <2>4, <3>1, <3>2 DEF Queues, NoRepeat
  <2>6. QED
    BY <2>4, <2>5 DEF l
<1>2. QED
  BY <1>1, SummaryInvAlways, PTL
=============================================================================
