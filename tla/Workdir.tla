------------------------------- MODULE Workdir -------------------------------
(***************************************************************************)
(* A workdir through all of its life: `fuzz.sh run' stores a kernel in it  *)
(* and fuzzes (Launcher), `fuzz.sh cov' and `fuzz.sh smatch' trace and     *)
(* decode what was found (TraceDecode).  The user gives the commands one   *)
(* at a time, in any order, with the workdir or another folder.            *)
(*                                                                         *)
(* cov executes the corpus with the kernel of the folder it was given,     *)
(* smatch decodes the traces with <workdir>/target/vmlinux.                *)
(***************************************************************************)
EXTENDS Launcher

CONSTANTS
    Watched,   \* the workdir whose traces are followed
    MaxTraces  \* bound: times it is traced before it is removed

ASSUME WorkdirAssumption == Watched \in Workdirs /\ MaxTraces \in Nat \ {0}

VARIABLES
    traces, addrs, lines, match, cover, step, ghidra, fast, ended, spoiled,  \* see TraceDecode
    tracedBy,  \* the kernel of each trace run that was given the workdir
    partial    \* history: a removal of the workdir was cut short

Traces == INSTANCE TraceDecode

traceVars == <<traces, addrs, lines, match, cover, step, ghidra, fast, ended, spoiled>>
allVars == <<vars, traceVars, tracedBy, partial>>

WorkdirInit ==
    /\ Init
    /\ Traces!Init
    /\ tracedBy = [t \in 1 .. MaxTraces |-> None]
    /\ partial = FALSE

-----------------------------------------------------------------------------
\* A step of `run', or a build, that leaves the traces alone.
RunStep ==
    /\ step = "idle"
    /\ \/ \E r \in Roots, e \in Workdirs : Run(r, e)
       \/ CopyKernel \/ CopyConfig \/ Launch \/ Stop \/ Rebuild
       \/ Clear /\ ~(dir = Watched /\ Erases(dir))
       \/ StopInClear /\ dir # Watched
    /\ UNCHANGED <<traceVars, tracedBy, partial>>

\* rm -rf removes the traces and lists with the corpus.
\* (Seeded fault: the folder of the traces is kept.)
RemovedNot == UNCHANGED traceVars
Removed == Traces!Erase

Remove ==
    /\ step = "idle"
    /\ dir = Watched /\ Erases(dir)
    /\ Clear
    /\ Removed
    /\ partial' = FALSE
    /\ UNCHANGED tracedBy

\* rm -rf is killed: it has come to the traces or not.
RemoveInPart ==
    /\ step = "idle"
    /\ dir = Watched
    /\ StopInClear
    /\ Removed \/ UNCHANGED traceVars
    /\ partial' = TRUE
    /\ UNCHANGED tracedBy

\* kafl_cov.py --resume on a corpus.
Cov(r, e) ==
    /\ cmd = "idle"
    /\ KernelAt(r) # None /\ WorkDirOf(r, e) = Watched
    /\ corpus[Watched] # None
    /\ Traces!Cov
    /\ tracedBy' = [tracedBy EXCEPT ![traces'] = IF r[1] = "workdir" THEN KernelAt(r) ELSE None]
    /\ UNCHANGED <<vars, partial>>

\* Without a kernel in the workdir itself, smatch makes no list.
Smatch(r, e) ==
    /\ cmd = "idle"
    /\ KernelAt(r) # None /\ WorkDirOf(r, e) = Watched
    /\ stored[Watched] # None
    /\ Traces!Smatch
    /\ UNCHANGED <<vars, tracedBy, partial>>

SmatchStep ==
    /\ Traces!Decoding
    /\ UNCHANGED <<vars, tracedBy, partial>>

WorkdirNext ==
    \/ RunStep \/ Remove \/ RemoveInPart
    \/ \E r \in Roots, e \in Workdirs : Cov(r, e) \/ Smatch(r, e)
    \/ SmatchStep

WorkdirSpec == WorkdirInit /\ [][WorkdirNext]_allVars

-----------------------------------------------------------------------------
(* Properties.                                                             *)

\* What smatcher reads can be trusted (see TraceDecode).
DecodeTrusted == Traces!DecodeTrusted

\* Coverage is decoded with the kernel it was recorded with: while no removal
\* was cut short, the traces of a workdir and the lists made of them are of
\* the kernel now stored in it, provided cov was given the workdir; neither a
\* rebuilt target nor a later run, stopped anywhere, leaves old lists beside a
\* new kernel (fuzz.sh:128-133, 153-158, 352-360).
ListsMatchKernel ==
    LET current(t) == t # 0 /\ tracedBy[t] # None => tracedBy[t] = stored[Watched]
    IN  ~partial =>
            /\ current(traces)
            /\ \A x \in {addrs, lines, match, cover} : current(x.from)
=============================================================================
