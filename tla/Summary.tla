------------------------------- MODULE Summary -------------------------------
(***************************************************************************)
(* summarize.sh: crash logs are classified, issues are told apart by the   *)
(* first digits of a checksum, samples of them are decoded by background   *)
(* jobs, and the result is rendered.                                       *)
(*                                                                         *)
(* Background jobs of a shell script ignore ctrl-c: the jobs of a run that *)
(* was interrupted go on beside the next run.  They write the decoded log  *)
(* in place, as <log>.txt, and a log that has such a file is not decoded   *)
(* again.                                                                  *)
(***************************************************************************)
EXTENDS Naturals, FiniteSetsExt, SequencesExt

CONSTANTS
    Logs,     \* crash logs of the campaign
    Early,    \* those there when the first run starts
    Kind,     \* the prefix of the name of each: "kasan", "crash" or "timeo"
    Site,     \* what the message of each says beside its kind
    Origin,   \* harness of each, and the note taken from its end
    HasElf,   \* logs whose workdir has target/vmlinux
    HasStack, \* logs with a reproducer's stacks.log
    Contents, \* the sets of markers that logs may have
    Tags,     \* checksums cut to a few digits: tags of issues, ids of entries
    NProc,    \* decode jobs of a run
    MaxRuns,  \* bound: runs
    None

\* What the greps look for, with _ for a blank.
Markers == {"BUG:_KASAN:", "KASAN:", "KASAN_NOPTI", "unchecked_MSR", "WARNING:", "RIP:"}
ClassesOrder == <<"KASAN", "CRASH", "WARNS", "HANGS">>

ASSUME SummaryAssumption ==
    /\ Kind \in [Logs -> {"kasan", "crash", "timeo"}]
    /\ Early \subseteq Logs /\ HasElf \subseteq Logs /\ HasStack \subseteq Logs
    /\ Contents \subseteq SUBSET Markers
    /\ IsFiniteSet(Logs)
    /\ NProc \in Nat \ {0} /\ MaxRuns \in Nat

VARIABLES
    content, cksum,      \* the markers of each log; the tag of each issue
    present,             \* logs found in the campaign folder
    phase, run,          \* what the script does; how many times it was started
    scan, todo,          \* the logs of this run; those still to be treated
    tag2msg, tag2log, class2tag,  \* the script's arrays
    logid,               \* the entry each log belongs to (the keys of unique_logs)
    decodeList, rest, started, \* stack_decode.lst; its part no job has yet; jobs started
    jobs,                \* the background jobs of each run
    txt,                 \* the decoded logs
    text, linked,        \* the summary: its entries, the decoded logs it links
    interrupted          \* history: the runs that were interrupted

disk == <<content, cksum, present>>
arrays == <<tag2msg, tag2log, class2tag, logid>>
pool == <<rest, started, jobs>>
output == <<text, linked>>
vars == <<disk, phase, run, scan, todo, arrays, decodeList, pool, txt, output, interrupted>>

-----------------------------------------------------------------------------
(* Classification.                                                         *)

\* The greps of scan_logs, in their order: the first that matches decides.
Rules == << <<"BUG:_KASAN:", "KASAN">>, <<"KASAN:", "KASAN">>, <<"KASAN_NOPTI", "CRASH">>,
            <<"unchecked_MSR", "WARNS">>, <<"WARNING:", "WARNS">>, <<"RIP:", "WARNS">> >>

Issue(l) ==
    LET r == SelectInSeq(Rules, LAMBDA x : x[1] \in content[l])
    IN  IF r # 0 THEN [class |-> Rules[r][2], msg |-> <<Rules[r][1], Site[l]>>]
        ELSE [class |-> IF Kind[l] = "timeo" THEN "HANGS" ELSE "WARNS",
              msg |-> <<"Unclassified", None>>]

Tag(l) == cksum[Issue(l)]

\* What tag2msg has for a tag without an issue.
NoIssue == [class |-> "none", msg |-> <<None, None>>]

\* The logs of an issue, separated by commas.
\* (Seeded fault: each log takes the place of the last one.)
LoggedLast(l) == <<l>>
Logged(l) == Append(tag2log[Tag(l)], l)

-----------------------------------------------------------------------------
NoJob == [lines |-> <<>>, open |-> FALSE]
JobIds == (1 .. MaxRuns) \X (1 .. NProc)
NoFile == [is |-> "none", by |-> <<0, 0>>]

\* The arrays are lost with the process.
Cleared ==
    /\ tag2msg' = [t \in Tags |-> NoIssue]
    /\ tag2log' = [t \in Tags |-> <<>>]
    /\ class2tag' = [c \in Range(ClassesOrder) |-> <<>>]

Init ==
    /\ content \in [Logs -> Contents]
    /\ cksum \in [{Issue(l) : l \in Logs} -> Tags]
    /\ present = Early
    /\ phase = "idle" /\ run = 0
    /\ scan = {} /\ todo = <<>>
    /\ tag2msg = [t \in Tags |-> NoIssue]
    /\ tag2log = [t \in Tags |-> <<>>]
    /\ class2tag = [c \in Range(ClassesOrder) |-> <<>>]
    /\ logid = <<>>
    /\ decodeList = <<>> /\ rest = <<>> /\ started = 0
    /\ jobs = [j \in JobIds |-> NoJob]
    /\ txt = [l \in Logs |-> NoFile]
    /\ text = <<>> /\ linked = {}
    /\ interrupted = {}

\* truncate -s 0 $DECODE_LIST
\* (Seeded fault: the list of the last run is kept.)
TruncatedNot == decodeList
Truncated == <<>>

\* KASAN logs first, then crashes and timeouts, each in the order of find.
Start ==
    /\ phase = "idle" /\ run < MaxRuns
    /\ run' = run + 1
    /\ scan' = present
    /\ \E s \in SetToSeqs(present) :
        /\ \A i, k \in DOMAIN s :
            i < k => Kind[s[i]] = "kasan" \/ Kind[s[i]] = Kind[s[k]] \/ Kind[s[k]] = "timeo"
        /\ todo' = s
    /\ decodeList' = Truncated
    /\ phase' = "scan"
    /\ UNCHANGED <<disk, arrays, pool, txt, output, interrupted>>

\* One turn of scan_logs, with register_issue.
ScanLog ==
    /\ phase = "scan" /\ todo # <<>>
    /\ LET l == Head(todo)
           i == Issue(l)
           t == Tag(l)
       IN  /\ tag2log' = [tag2log EXCEPT ![t] = Logged(l)]
           /\ IF tag2msg[t] = NoIssue
                THEN /\ tag2msg' = [tag2msg EXCEPT ![t] = i]
                     /\ class2tag' = [class2tag EXCEPT ![i.class] = Append(@, t)]
                ELSE UNCHANGED <<tag2msg, class2tag>>
    /\ todo' = Tail(todo)
    /\ UNCHANGED <<disk, phase, run, scan, logid, decodeList, pool, txt, output, interrupted>>

-----------------------------------------------------------------------------
(* Samples, and the jobs that decode them.                                 *)

\* The loops over the classes, the tags of each, and the logs of each tag.
TagAt(c, k) == class2tag[ClassesOrder[c]][k]
Places ==
    UNION {UNION {{<<c, k, n>> : n \in DOMAIN tag2log[TagAt(c, k)]} :
                    k \in DOMAIN class2tag[ClassesOrder[c]]} : c \in DOMAIN ClassesOrder}

LogAt(p) == tag2log[TagAt(p[1], p[2])][p[3]]
Listed == {LogAt(p) : p \in Places}

\* The loops come to l before they come to m.
Before(l, m) ==
    \E p, q \in Places :
        /\ LogAt(p) = l /\ LogAt(q) = m
        /\ \/ p[1] < q[1]
           \/ p[1] = q[1] /\ p[2] < q[2]
           \/ p[1] = q[1] /\ p[2] = q[2] /\ p[3] < q[3]

MaxSamples == 2

\* head -$MAX_SAMPLES of the logs of an entry
Sampled(id, l) == Cardinality({m \in Listed : id[m] = id[l] /\ Before(m, l)}) < MaxSamples

\* The identity of an entry, shortened by another checksum: logs of one tag,
\* class and origin have one id, and others may have it too.  The shell goes
\* through the entries in any order, and through the logs of each as listed.
Candidates ==
    /\ phase = "scan" /\ todo = <<>>
    /\ \E id \in [Listed -> Tags] :
        /\ \A l, m \in Listed :
            Tag(l) = Tag(m) /\ Origin[l] = Origin[m] => id[l] = id[m]
        /\ logid' = id
        /\ \E s \in SetToSeqs({l \in Listed : Sampled(id, l)}) :
            /\ \A i, k \in DOMAIN s :
                i < k /\ id[s[i]] = id[s[k]] =>
                    Before(s[i], s[k]) /\ \A m \in i .. k : id[s[m]] = id[s[i]]
            /\ todo' = s
    /\ phase' = "decode"
    /\ UNCHANGED <<disk, run, scan, tag2msg, tag2log, class2tag, decodeList, pool, txt,
                   output, interrupted>>

\* decode_log: an order for a job, where there is a kernel and no decoded log.
DecodeLog ==
    /\ phase = "decode" /\ todo # <<>>
    /\ LET l == Head(todo)
       IN  decodeList' = IF l \in HasElf /\ txt[l].is = "none"
                            THEN Append(decodeList, [cmd |-> "decode", log |-> l])
                            ELSE decodeList
    /\ todo' = Tail(todo)
    /\ UNCHANGED <<disk, phase, run, scan, arrays, pool, txt, output, interrupted>>

Split ==
    /\ phase = "decode" /\ todo = <<>>
    /\ rest' = decodeList
    /\ phase' = IF decodeList = <<>> THEN "text" ELSE "spawn"
    /\ UNCHANGED <<disk, run, scan, todo, arrays, decodeList, started, jobs, txt, output,
                   interrupted>>

\* A job gets some of the next lines, the last job all that are left: split
\* counts bytes.
Spawn ==
    /\ phase = "spawn"
    /\ LET j == started + 1
       IN  \E n \in 0 .. Len(rest) :
            /\ j = NProc => n = Len(rest)
            /\ jobs' = [jobs EXCEPT ![<<run, j>>].lines = SubSeq(rest, 1, n)]
            /\ rest' = SubSeq(rest, n + 1, Len(rest))
            /\ started' = IF j = NProc THEN 0 ELSE j
            /\ phase' = IF j = NProc THEN "wait" ELSE "spawn"
    /\ UNCHANGED <<disk, run, scan, todo, arrays, decodeList, txt, output, interrupted>>

\* The shell opens <log>.txt for the decoder, or tries what is no command.
Open(j) ==
    /\ jobs[j].lines # <<>> /\ ~jobs[j].open
    /\ LET line == Head(jobs[j].lines)
       IN  IF line.cmd = "decode"
             THEN /\ jobs' = [jobs EXCEPT ![j].open = TRUE]
                  /\ txt' = [txt EXCEPT ![line.log] = [is |-> "written", by |-> j]]
             ELSE /\ jobs' = [jobs EXCEPT ![j].lines = Tail(@)]
                  /\ UNCHANGED txt
    /\ UNCHANGED <<disk, phase, run, scan, todo, arrays, decodeList, rest, started, output,
                   interrupted>>

\* The decoder ends; a file that another job has opened since is that job's.
Ends(j, state) ==
    /\ jobs[j].open
    /\ jobs' = [jobs EXCEPT ![j] = [lines |-> Tail(@.lines), open |-> FALSE]]
    /\ LET l == Head(jobs[j].lines).log
       IN  txt' = IF txt[l] = [is |-> "written", by |-> j]
                    THEN [txt EXCEPT ![l] = [is |-> state, by |-> <<0, 0>>]] ELSE txt
    /\ UNCHANGED <<disk, phase, run, scan, todo, arrays, decodeList, rest, started, output,
                   interrupted>>

Decoded(j) == Ends(j, "whole")
DecodeFails(j) == Ends(j, "cut")

\* No /proc/<pid> of a job is left.
\* (Seeded fault: only the first pid is looked at.)
JobsDoneFirst == jobs[<<run, 1>>] = NoJob
JobsDone == \A j \in 1 .. NProc : jobs[<<run, j>>] = NoJob

Waited ==
    /\ phase = "wait" /\ JobsDone
    /\ phase' = "text"
    /\ UNCHANGED <<disk, run, scan, todo, arrays, decodeList, pool, txt, output, interrupted>>

-----------------------------------------------------------------------------
(* The summary.                                                            *)

\* render_to_csv and render_to_text
RenderText ==
    /\ phase = "text"
    /\ text' = [p \in Places |-> [class |-> ClassesOrder[p[1]],
                                  issue |-> tag2msg[TagAt(p[1], p[2])],
                                  log |-> LogAt(p)]]
    /\ phase' = "html"
    /\ UNCHANGED <<disk, run, scan, todo, arrays, decodeList, pool, txt, linked, interrupted>>

\* get_best_stackdump: a stacks.log that is not decoded (none ever is) is added
\* to the list of jobs, as a name and not as a command.
StackJobs(found) ==
    {[k \in DOMAIN s |-> [cmd |-> "path", log |-> s[k]]] :
        s \in {r \in SetToSeqs(found \cap HasStack) :
                \A i, k \in DOMAIN r : i < k => Before(r[i], r[k])}}

RenderHtml ==
    /\ phase = "html"
    /\ linked' = {l \in Listed : txt[l].is # "none"}
    /\ \E stacks \in StackJobs(linked') : decodeList' = decodeList \o stacks
    /\ Cleared
    /\ phase' = "idle"
    /\ UNCHANGED <<disk, run, scan, todo, logid, pool, txt, text, interrupted>>

\* ctrl-c ends the script, and none of its jobs.  (What it had rendered of a
\* summary is not looked at.)
Interrupt ==
    /\ phase # "idle"
    /\ phase' = "idle"
    /\ interrupted' = interrupted \cup {run}
    /\ scan' = {} /\ todo' = <<>> /\ rest' = <<>> /\ started' = 0
    /\ Cleared /\ logid' = <<>>
    /\ UNCHANGED <<disk, run, decodeList, jobs, txt, output>>

\* The campaign goes on.
NewLog(l) ==
    /\ l \notin present
    /\ present' = present \cup {l}
    /\ UNCHANGED <<content, cksum, phase, run, scan, todo, arrays, decodeList, pool, txt,
                   output, interrupted>>

Next ==
    \/ Start \/ ScanLog \/ Candidates \/ DecodeLog \/ Split \/ Spawn \/ Waited
    \/ RenderText \/ RenderHtml \/ Interrupt
    \/ \E j \in JobIds : Open(j) \/ Decoded(j) \/ DecodeFails(j)
    \/ \E l \in Logs : NewLog(l)

Spec == Init /\ [][Next]_vars

-----------------------------------------------------------------------------
(* Properties.                                                             *)

Complete == phase = "idle" /\ run > 0 /\ run \notin interrupted

\* A run that was not interrupted lists each log it found once, under the class
\* and the message of its own issue, or of one whose checksum is the same
\* (summarize.sh:40-83, 194-231, 240-254).
SummaryExact ==
    Complete =>
        \A l \in scan :
            \E p \in DOMAIN text :
                /\ \A q \in DOMAIN text : text[q].log = l <=> q = p
                /\ text[p].class = text[p].issue.class
                /\ cksum[text[p].issue] = cksum[Issue(l)]

\* After such a run each log that can be decoded was, or the decoding was tried
\* and failed, or MAX_SAMPLES others that share its entry stand for it; and a
\* decoded log that a summary links is whole, unless its decoder failed or a job
\* of an interrupted run is still writing it, whatever earlier runs left
\* (summarize.sh:113-165, 288-290, 308-329).
SamplesWhole ==
    /\ Complete =>
          \A l \in scan \cap HasElf :
              \/ txt[l].is # "none"
              \/ Cardinality({m \in scan \ {l} : logid[m] = logid[l]}) >= MaxSamples
    /\ \A l \in linked :
          \/ txt[l].is \in {"whole", "cut"}
          \/ txt[l].is = "written" /\ txt[l].by[1] \in interrupted

\* The jobs of one run execute decode commands only, and no two of them write
\* the same file (summarize.sh:152, 185, 316-320, 356).
JobsDisjoint ==
    \A j, k \in JobIds :
        \A a \in DOMAIN jobs[j].lines, b \in DOMAIN jobs[k].lines :
            /\ jobs[j].lines[a].cmd = "decode"
            /\ j[1] = k[1] /\ jobs[j].lines[a].log = jobs[k].lines[b].log => j = k /\ a = b
=============================================================================
