----------------------------- MODULE TraceReader -----------------------------
(***************************************************************************)
(* TraceFileIter and read_trace_file_get_ranges() of fast_matcher: the     *)
(* addresses covered by one trace file, read line after line.              *)
(*                                                                         *)
(* A line is an edge <<src, dst>>, Short when it does not have two fields  *)
(* (a file that ptdump did not finish), or Garbage when a field is not a   *)
(* number; these two are pairs that no edge equals.  PT stands for         *)
(* PT_TOKEN: an edge to PT is one half of an edge whose other half, from   *)
(* PT, is on the next line.                                                *)
(***************************************************************************)
EXTENDS Integers, Sequences, FiniteSets

CONSTANTS
    MaxAddr,   \* bound: addresses are 1 .. MaxAddr
    MaxLines,  \* bound: lines of a file
    SameFunc   \* pairs of addresses whose frames share a function of the report

Addresses == 1 .. MaxAddr
PT    == MaxAddr + 1   \* the token is greater than every address
Nodes == Addresses \cup {PT}
None  == 0

ASSUME ReaderAssumption ==
    /\ MaxAddr \in Nat \ {0} /\ MaxLines \in Nat
    /\ SameFunc \subseteq Addresses \X Addresses

Edges   == Nodes \X Nodes
Short   == <<None, None>>
Garbage == <<None, PT>>
Lines   == Edges \cup {Short, Garbage}
Files == UNION {[1 .. n -> Lines] : n \in 0 .. MaxLines}

VARIABLES
    file,    \* the file
    next,    \* the line the iterator reads next
    status,  \* "reading", "done" or "panic"
    held,    \* source of an edge to PT whose other half is awaited
    prev,    \* destination of the previous edge
    ranges,  \* the addresses of the ranges inserted so far
    used     \* history: the edges read

readerVars == <<file, next, status, held, prev, ranges, used>>

ReaderInit ==
    /\ file \in Files
    /\ next = 1
    /\ status = "reading"
    /\ held = None
    /\ prev = None
    /\ ranges = {}
    /\ used = <<>>

-----------------------------------------------------------------------------
\* [prev_dst, src] when both lie in one function of the smatch report.
Between(d, s) == IF <<d, s>> \in SameFunc /\ d <= s THEN d .. s ELSE {}

\* What the loop does with an edge that the iterator yields.
Yield(s, d) ==
    /\ ranges' = ranges \cup Between(prev, s) \cup {s, d}
    /\ prev' = d
    /\ held' = None

Reads(kind) ==
    /\ status = "reading"
    /\ next <= Len(file)
    /\ file[next] \in kind
    /\ next' = next + 1
    /\ UNCHANGED file

\* The second half of an edge has to come from PT.
Unexpected(s) == held # None /\ s # PT

\* A whole edge, or the second half of one.
WholeEdge ==
    /\ Reads(Edges)
    /\ LET s == file[next][1]
           d == file[next][2]
       IN  /\ d # PT
           /\ ~Unexpected(s)
           /\ Yield(IF held = None THEN s ELSE held, d)
    /\ used' = Append(used, file[next])
    /\ UNCHANGED status

\* The first half of an edge.  (Seeded fault: the newest source is kept.)
KeptNewest(s) == s
Kept(s) == IF held = None THEN s ELSE held

HalfEdge ==
    /\ Reads(Edges)
    /\ file[next][2] = PT
    /\ ~Unexpected(file[next][1])
    /\ held' = Kept(file[next][1])
    /\ used' = Append(used, file[next])
    /\ UNCHANGED <<status, prev, ranges>>

\* "unexpected PT_TOKEN in trace".
Mismatch ==
    /\ Reads(Edges)
    /\ Unexpected(file[next][1])
    /\ status' = "panic"
    /\ UNCHANGED <<held, prev, ranges, used>>

\* next() returns None, which ends the loop, unless it was called for the
\* second half of an edge: then the first half is yielded as it is.
NoEdge ==
    IF held = None
    THEN status' = "done" /\ UNCHANGED <<held, prev, ranges, used>>
    ELSE Yield(held, PT) /\ UNCHANGED <<status, used>>

ShortLine == Reads({Short}) /\ NoEdge

EndOfFile ==
    /\ status = "reading"
    /\ next > Len(file)
    /\ UNCHANGED <<file, next>>
    /\ NoEdge

NotANumber ==
    /\ Reads({Garbage})
    /\ status' = "panic"
    /\ UNCHANGED <<held, prev, ranges, used>>

ReaderNext == WholeEdge \/ HalfEdge \/ Mismatch \/ ShortLine \/ EndOfFile \/ NotANumber

ReaderSpec == ReaderInit /\ [][ReaderNext]_readerVars

-----------------------------------------------------------------------------
(* Properties.                                                             *)

\* What a list of edges covers: their ends, and the addresses between two
\* consecutive ones when they lie in one function.
Covered(edges) ==
    (UNION {{edges[i][1], edges[i][2]} : i \in DOMAIN edges})
        \cup (UNION {Between(edges[i][2], edges[i + 1][1]) : i \in 1 .. Len(edges) - 1})

\* Joining the halves of an edge loses no address and covers none that the
\* lines do not: a file read to its end covers what its lines taken one by one
\* do, and every line was read unless one is cut short.  A thread panics only on
\* a word that is not a number, or where an edge to PT is followed by one that
\* does not come from PT (lib.rs:178-211, 433-473).
TraceRead ==
    /\ status = "done" =>
          /\ ranges \ {PT} = Covered(used) \ {PT}
          /\ (\A i \in DOMAIN file : file[i] # Short) => used = file
    /\ status = "panic" =>
          \/ \E i \in DOMAIN file : file[i] = Garbage
          \/ \E i \in 1 .. Len(file) - 1 :
                /\ file[i] \in Edges /\ file[i + 1] \in Edges
                /\ file[i][2] = PT /\ file[i + 1][1] # PT
=============================================================================
