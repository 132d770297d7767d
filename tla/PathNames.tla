------------------------------ MODULE PathNames -------------------------------
(***************************************************************************)
(* How the tools of the coverage report spell the name of a source file.   *)
(* fast_matcher writes the lists of covered lines: it takes the folder the *)
(* kernel was built in off the names of the debug information, and         *)
(* normalizes what is left.  strip_addr2line_absolute_path.sh takes the    *)
(* folder of the sources off what is still absolute.  smatcher finds the   *)
(* lines of these lists in the audit list.                                 *)
(*                                                                         *)
(* A path is its names with "." and "..", from the root, or from the       *)
(* folder of the build or, in the audit list, of the sources.  The name of *)
(* a file is its last one.                                                 *)
(***************************************************************************)
EXTENDS Integers, Sequences, SequencesExt

CONSTANTS
    Names,   \* names of files and folders
    Rest,    \* of each name: what is left behind its last character that is
             \* no letter, digit, "_" or "."; the name itself, if it has none
    Bare,    \* of each name: what is left behind its leading dots
    Source,  \* the folder of the sources
    Builds,  \* folders that a kernel may be built in
    MaxPath  \* bound: names of a path

ASSUME PathAssumption ==
    /\ {".", ".."} \cap Names = {} /\ MaxPath \in Nat
    /\ Source \in Seq(Names) \ {<<>>} /\ Builds \subseteq Seq(Names) \ {<<>>}

VARIABLES
    dir,    \* the folder the kernel was built in: its first DW_AT_comp_dir
    shown,  \* the file of a covered line, as the debug info spells it
    item    \* the file of a line of the audit list, as the list spells it

Paths ==
    {p \in [root: BOOLEAN,
            names: UNION {[1 .. n -> Names \cup {".", ".."}] : n \in 1 .. MaxPath}] :
        Last(p.names) \in Names}

-----------------------------------------------------------------------------
(* fast_matcher.                                                           *)

\* The names of a path from the root, as addr2line shows it.
Absolute(p, folder) == IF p.root THEN p.names ELSE folder \o p.names

\* A path from the folder, if it is spelled through it.
strip_prefix(names, folder) ==
    IF IsPrefix(folder, names)
    THEN [root |-> FALSE, names |-> SubSeq(names, Len(folder) + 1, Len(names))]
    ELSE [root |-> TRUE, names |-> names]

\* The loops of normalize() and of os.path.normpath: a name and the ".."
\* behind it cancel out, ".." at the root is the root.
\* (Seeded fault: it removes one name too many.)
PushGreedy(root, stack, name) ==
    CASE name = "."                    -> stack
      [] name = ".." /\ stack # <<>>   -> SubSeq(stack, 1, Len(stack) - 2)
      [] OTHER                         -> Append(stack, name)
Push(root, stack, name) ==
    CASE name = "."                                         -> stack
      [] name = ".." /\ stack = <<>> /\ root                -> stack
      [] name = ".." /\ stack # <<>> /\ Last(stack) # ".."  -> Front(stack)
      [] OTHER                                              -> Append(stack, name)

\* What is left after each number of names.
Stacks(p) ==
    LET after[k \in 0 .. Len(p.names)] ==
            IF k = 0 THEN <<>> ELSE Push(p.root, after[k - 1], p.names[k])
    IN  after

normalize(p) == [root |-> p.root, names |-> Stacks(p)[Len(p.names)]]

\* What is left of the spelling of the debug information, and the file of the
\* line that fast_matcher prints.
Stripped == strip_prefix(Absolute(shown, dir), dir)
LineInfo == normalize(Stripped)

\* sed takes the folder of init/main.c off: a text that begins at the root and
\* is found nowhere else in a path.
StripSource(p) ==
    IF p.root /\ IsPrefix(Source, p.names)
    THEN [root |-> FALSE, names |-> SubSeq(p.names, Len(Source) + 1, Len(p.names))]
    ELSE p

-----------------------------------------------------------------------------
(* smatcher.                                                               *)

\* l.strip('./') takes characters off the front: the root, all of "." and
\* "..", and the dots that the first name begins with.
Strip(p) ==
    LET first == SelectInSeq(p.names, LAMBDA n : n \notin {".", ".."})
        names == SubSeq(p.names, first, Len(p.names))
    IN  [root |-> FALSE, names |-> IF first = 0 THEN <<>> ELSE [names EXCEPT ![1] = Bare[@]]]

\* A place in the audit list.
Listed(p) == normalize(Strip(p))

\* A place in a list of covered lines, which "[\w./]+:[0-9]+" has to match.
Found(p) ==
    LET last == SelectLastInSeq(p.names, LAMBDA n : n \in Names /\ Rest[n] # n)
    IN  IF last = 0 THEN p
        ELSE [root |-> FALSE, names |-> <<Rest[p.names[last]]>> \o SubSeq(p.names, last + 1, Len(p.names))]
Matched(p) == Listed(Found(p))

\* smatcher takes the line that fast_matcher found covered for that of the list.
Printed == StripSource(LineInfo)
Recognised == Matched(Printed) = Listed(item)

-----------------------------------------------------------------------------
(* Properties.                                                             *)

\* Where names lead, taken one by one from a folder.
Step(at, name) ==
    CASE name = "."  -> at
      [] name = ".." -> Front(at)
      [] OTHER       -> Append(at, name)
Walk(base, names) ==
    LET at[k \in 0 .. Len(names)] == IF k = 0 THEN base ELSE Step(at[k - 1], names[k])
    IN  at
Leads(base, names) == Walk(base, names)[Len(names)]
File(p, base) == Leads(IF p.root THEN <<>> ELSE base, p.names)

\* Names that never lead out of a folder.
Stay(base, names) == \A k \in 0 .. Len(names) : IsPrefix(base, Walk(base, names)[k])

\* Component::CurDir is at the front of a path only, and no path of the debug
\* information is relative once it is joined.
Spellings == {p \in Paths : \A i \in DOMAIN p.names : p.names[i] # "."}
Items == {p \in Paths : ~p.root /\ Stay(Source, p.names)}

PathInit == dir \in Builds /\ shown \in Spellings /\ item \in Items
PathSpec == PathInit /\ [][FALSE]_<<dir, shown, item>>

\* The file is one of the kernel: of the sources, or spelled through the folder
\* of the build and in it (what the build made, or all, if it is that of the
\* sources).  Home is the folder that an item of the list is in then.
OfKernel == IF Stripped.root THEN IsPrefix(Source, File(Stripped, dir)) ELSE Stay(dir, Stripped.names)
Home == IF Stripped.root THEN Source ELSE dir

\* Names of letters, digits, "_" and ".", and paths whose first name does not
\* begin with a dot.
Plain(p) == \A i \in DOMAIN p.names : p.names[i] \in Names => Rest[p.names[i]] = p.names[i]
Undotted(p) ==
    \A i \in DOMAIN p.names :
        (p.names[i] \in Names /\ \A j \in 1 .. i - 1 : p.names[j] \notin Names)
            => Bare[p.names[i]] = p.names[i]

\* What fast_matcher makes of a path never changes which file it leads to; and
\* smatcher takes a covered line of a file of the kernel for one of the audit
\* list exactly if the list has this file, however the two are spelled, as long
\* as the names are plain and no path begins with a dotted one (it would take
\* ".x/f" for "x/f", and "../f" for "f") (lib.rs:46-153 and 363-379,
\* strip_addr2line_absolute_path.sh:39-42, smatcher/__init__.py:56-84).
SpellingsAgree ==
    /\ File(LineInfo, dir) = File(shown, dir)
    /\ OfKernel /\ Plain(Printed) /\ Undotted(Printed) /\ Undotted(item) =>
          (Recognised <=> File(shown, dir) = File(item, Home))

\* "The script prints out which smatch targets have been covered", whatever the
\* names of their files (smatcher/README.md:7).
TargetsPrinted == OfKernel /\ File(shown, dir) = File(item, Home) => Recognised
=============================================================================
