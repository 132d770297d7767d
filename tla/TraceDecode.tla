----------------------------- MODULE TraceDecode -----------------------------
(***************************************************************************)
(* What the coverage steps of bkc/kafl/fuzz.sh leave in <workdir>/traces   *)
(* and trust there later: `cov' writes the traces, `smatch' turns them     *)
(* into lists of covered lines, with fast_matcher or with gen_addr2line.sh *)
(* and smatch_match.py.  Files that exist are not made again, so that what *)
(* an earlier decoding left, with other options or cut short, stays.       *)
(***************************************************************************)
EXTENDS Naturals

CONSTANT MaxTraces  \* bound: times the workdir is traced

\* A list: the traces it is from, whether it stems from the complete dump of
\* code locations (Ghidra) or from the ends of edges only, and whether the
\* steps that made it went through.
None == [from |-> 0, all |-> FALSE, whole |-> FALSE]
Cut(x) == [x EXCEPT !.whole = FALSE]

VARIABLES
    traces,  \* edges_uniq.lst and the traces are from this run of kafl_cov, or 0
    addrs,   \* addr_uniq.lst
    lines,   \* addr2line.lst
    match,   \* smatch_match.lst
    cover,   \* linecov.lst
    step,    \* the next step of `fuzz.sh smatch', "idle" between two
    ghidra,  \* USE_GHIDRA of the current smatch
    fast,    \* USE_FAST_MATCHER of the current or last smatch
    ended,   \* it came to its end
    spoiled  \* history: it went on from a file of older traces, or from one cut
             \* short, or its eu-addr2line failed

files == <<traces, addrs, lines, match, cover>>
opts  == <<ghidra, fast>>
vars  == <<files, step, opts, ended, spoiled>>

Init ==
    /\ traces = 0
    /\ addrs = None /\ lines = None /\ match = None /\ cover = None
    /\ step = "idle" /\ ghidra = FALSE /\ fast = FALSE
    /\ ended = FALSE /\ spoiled = FALSE

-----------------------------------------------------------------------------
Cov ==
    /\ step = "idle"
    /\ traces < MaxTraces
    /\ traces' = traces + 1
    /\ ended' = FALSE
    /\ spoiled' = FALSE
    /\ UNCHANGED <<addrs, lines, match, cover, step, opts>>

\* A whole list of the traces there are, and the file that is not made again.
Fresh(x) == x.from = traces /\ x.whole
Reused == IF lines # None THEN lines ELSE addrs

Smatch ==
    /\ step = "idle"
    /\ ghidra' \in BOOLEAN /\ fast' \in BOOLEAN
    /\ step' = IF fast' THEN "fast" ELSE "lines"
    /\ ended' = FALSE
    /\ spoiled' = (~fast' /\ Reused # None /\ ~Fresh(Reused))
    /\ UNCHANGED files

Step(from, to) == step = from /\ step' = to
Quit == step' = "idle" /\ ghidra' = FALSE /\ UNCHANGED fast
HasTraces == traces # 0
Made(all, whole) == [from |-> traces, all |-> all, whole |-> whole]

\* fast_matcher > linecov.lst.
FastMatch ==
    /\ Step("fast", "end")
    /\ HasTraces
    /\ cover' = Made(TRUE, TRUE)
    /\ UNCHANGED <<traces, addrs, lines, match, opts, ended, spoiled>>

\* "Output already exists. Skipping.."
HaveLines == lines # None

SkipLines ==
    /\ Step("lines", "match")
    /\ HasTraces
    /\ HaveLines
    /\ UNCHANGED <<files, opts, ended, spoiled>>

\* No edge list, and "fatal" exits with status 0: the strip step then fails
\* on the list that is not there either.
NoTraces ==
    /\ step = "lines"
    /\ ~HasTraces
    /\ Quit
    /\ UNCHANGED <<files, ended, spoiled>>

\* The dump of code locations, unless there is one.
Dump ==
    /\ Step("lines", "dumped")
    /\ HasTraces
    /\ ~HaveLines
    /\ addrs' = IF ghidra /\ addrs = None THEN Made(TRUE, TRUE) ELSE addrs
    /\ UNCHANGED <<traces, lines, match, cover, opts, ended, spoiled>>

\* eu-addr2line on the code locations or else on the blocks, whose failure is
\* ignored.
Decode ==
    /\ Step("dumped", "match")
    /\ LET source == IF addrs # None THEN addrs ELSE Made(FALSE, TRUE)
       IN  \/ lines' = source /\ UNCHANGED spoiled
           \/ lines' = Cut(source) /\ spoiled' = TRUE
    /\ UNCHANGED <<traces, addrs, match, cover, opts, ended>>

\* smatch_match.py | sort -u > smatch_match.lst.
\* (Seeded fault: a list that exists is kept.)
MatchesOnce == IF match = None THEN lines ELSE match
Matches == lines

\* smatch_match.py keeps the warnings whose place is among the decoded lines; a
\* missing list or report ends it with an error, which Stop stands for.
MatchLines ==
    /\ Step("match", "end")
    /\ match' = Matches
    /\ UNCHANGED <<traces, addrs, lines, cover, opts, ended, spoiled>>

End ==
    /\ step = "end"
    /\ ended' = TRUE
    /\ Quit
    /\ UNCHANGED <<files, spoiled>>

\* A step fails or is killed, having opened its output.
Stop ==
    /\ step \in {"fast", "lines", "dumped", "match"}
    /\ Quit
    /\ spoiled' = FALSE
    /\ \/ UNCHANGED files
       \/ /\ HasTraces
          /\ LET torn == Made(FALSE, FALSE)
             IN  CASE step = "fast"   -> cover' = torn /\ UNCHANGED <<addrs, lines, match>>
                   [] step = "lines"  -> /\ ghidra /\ ~HaveLines /\ addrs = None
                                         /\ addrs' = torn /\ UNCHANGED <<lines, match, cover>>
                   [] step = "dumped" -> lines' = torn /\ UNCHANGED <<addrs, match, cover>>
                   [] step = "match"  -> match' = torn /\ UNCHANGED <<addrs, lines, cover>>
          /\ UNCHANGED traces
    /\ UNCHANGED ended

\* The lists smatcher reads, however old they are: all there are, if it is to
\* combine them, as in a campaign; or else the first of them.  No tool writes
\* the other file it looks for, smatch_match_rust.lst.
Scanned(combine) ==
    LET there == {x \in {cover, match, lines} : x # None}
    IN  IF combine \/ there = {} THEN there
        ELSE {IF cover # None THEN cover ELSE IF match # None THEN match ELSE lines}

\* The workdir is removed.
Erase ==
    /\ traces' = 0
    /\ addrs' = None /\ lines' = None /\ match' = None /\ cover' = None
    /\ ended' = FALSE /\ spoiled' = FALSE
    /\ UNCHANGED <<step, opts>>

\* The steps of a smatch under way.
Decoding ==
    \/ FastMatch
    \/ SkipLines \/ NoTraces \/ Dump \/ Decode \/ MatchLines
    \/ End \/ Stop

-----------------------------------------------------------------------------
(* Properties.                                                             *)

\* Whatever earlier decodings left, once a smatch has ended smatcher reads a
\* whole list of the current traces, with the fast matcher one of all code
\* locations; but for one without it that went on from a file that older traces
\* or a decoding that was cut short left, or whose eu-addr2line failed; and, if
\* lists are not combined, one beside a linecov.lst (fuzz.sh:351-364,
\* gen_addr2line.sh:57-91, smatcher/__init__.py:48-49, 134-146).
DecodeTrusted ==
    ended => \A combine \in BOOLEAN :
        \/ \E x \in Scanned(combine) : Fresh(x) /\ (fast => x.all)
        \/ spoiled
        \/ ~fast /\ ~combine /\ cover # None
=============================================================================
