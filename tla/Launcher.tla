------------------------------ MODULE Launcher ------------------------------
(***************************************************************************)
(* `fuzz.sh run' as a user starts it by hand: which kernel and which       *)
(* workdir set_workdir() finds for the folder it is given, and what run()  *)
(* does to them step by step.  `set -e' ends the script at the first step  *)
(* that fails; it may also be killed anywhere.                             *)
(*                                                                         *)
(* One kernel stands for the three files bzImage, System.map and vmlinux.  *)
(* A folder given to the script is the target, a workdir, or the target/   *)
(* folder inside a workdir, which has the layout of a target.              *)
(***************************************************************************)
EXTENDS Naturals

CONSTANTS
    Workdirs,  \* directories $KAFL_WORKDIR may name
    MaxRev     \* bound: builds of the target

ASSUME LauncherAssumption == Workdirs # {} /\ MaxRev \in Nat \ {0}

Target  == <<"target">>
Roots   == {Target} \cup ({"workdir", "copy"} \X Workdirs)
None    == 0

VARIABLES
    built,    \* kernel in the target folder
    hasConf,  \* the target folder has a .config
    stored,   \* kernel in the target/ folder of each workdir
    corpus,   \* the kernel that each workdir's corpus/ comes from, if it exists
    cmd,      \* the command under way: "idle", or the next step of it
    root,     \* its folder argument, TARGET_ROOT
    dir       \* its WORK_DIR; of no meaning between two commands, as root

args == <<root, dir>>
vars == <<built, hasConf, stored, corpus, cmd, args>>

Init ==
    /\ built = 1 /\ hasConf \in BOOLEAN
    /\ stored = [w \in Workdirs |-> None]
    /\ corpus = [w \in Workdirs |-> None]
    /\ cmd = "idle" /\ root = Target /\ dir = CHOOSE w \in Workdirs : TRUE

-----------------------------------------------------------------------------
(* set_workdir().                                                          *)

\* TARGET_BIN as it is found in folder r.
KernelAt(r) == IF r = Target THEN built ELSE stored[r[2]]

\* WORK_DIR: the folder itself when it is a workdir, else $KAFL_WORKDIR (e).
WorkDirOf(r, e) == IF r[1] = "workdir" THEN r[2] ELSE e

\* A .config next to the kernel; in a workdir the copy is called `config'.
ConfAt(r) == r = Target /\ hasConf

-----------------------------------------------------------------------------
(* run().                                                                  *)

Then(from, to) == cmd = from /\ cmd' = to

\* The process is gone, with its arguments.
Gone == cmd' = "idle" /\ root' = Target /\ dir' = CHOOSE w \in Workdirs : TRUE

\* Without a kernel in the folder, "Could not find bzImage" ends the script.
Run(r, e) ==
    /\ cmd = "idle"
    /\ KernelAt(r) # None
    /\ cmd' = "clear"
    /\ root' = r
    /\ dir' = WorkDirOf(r, e)
    /\ UNCHANGED <<built, hasConf, stored, corpus>>

\* test -d corpus && rm -rf of the workdir.
Erases(w) == corpus[w] # None

\* (Seeded fault: the kernel is replaced and the old corpus stays.)
ClearedNot(w) == UNCHANGED <<stored, corpus>>
Cleared(w) ==
    IF Erases(w)
    THEN stored' = [stored EXCEPT ![w] = None] /\ corpus' = [corpus EXCEPT ![w] = None]
    ELSE UNCHANGED <<stored, corpus>>

Clear ==
    /\ Then("clear", "copy")
    /\ Cleared(dir)
    /\ UNCHANGED <<built, hasConf, args>>

\* cp of the kernel: there is one, and it is not to be copied onto itself.
CopyKernel ==
    /\ Then("copy", "config")
    /\ KernelAt(root) # None
    /\ root # Target => root[2] # dir
    /\ stored' = [stored EXCEPT ![dir] = KernelAt(root)]
    /\ UNCHANGED <<built, hasConf, corpus, args>>

\* cp .config.
CopyConfig ==
    /\ Then("config", "launch")
    /\ ConfAt(root)
    /\ UNCHANGED <<built, hasConf, stored, corpus, args>>

\* kafl_fuzz.py --kernel $TARGET_BIN --work-dir $WORK_DIR.
Launch ==
    /\ cmd = "launch"
    /\ corpus' = [corpus EXCEPT ![dir] = KernelAt(root)]
    /\ Gone
    /\ UNCHANGED <<built, hasConf, stored>>

\* A step fails, or the script is killed before it ...
Stop ==
    /\ cmd # "idle"
    /\ Gone
    /\ UNCHANGED <<built, hasConf, stored, corpus>>

\* ... or in the middle of rm -rf, with corpus/ or target/ already removed.
StopInClear ==
    /\ cmd = "clear"
    /\ Erases(dir)
    /\ Gone
    /\ \/ corpus' = [corpus EXCEPT ![dir] = None] /\ UNCHANGED stored
       \/ stored' = [stored EXCEPT ![dir] = None] /\ UNCHANGED corpus
    /\ UNCHANGED <<built, hasConf>>

\* The target is built again, between two commands.
Rebuild ==
    /\ cmd = "idle"
    /\ built < MaxRev
    /\ built' = built + 1
    /\ UNCHANGED <<hasConf, stored, corpus, cmd, args>>

Next ==
    \/ \E r \in Roots, e \in Workdirs : Run(r, e)
    \/ Clear \/ CopyKernel \/ CopyConfig \/ Launch
    \/ Stop \/ StopInClear \/ Rebuild

Spec == Init /\ [][Next]_vars

-----------------------------------------------------------------------------
(* Properties.                                                             *)

\* A workdir never holds results of one kernel and a copy of another, however
\* runs on it are repeated, given odd folders, stopped between two steps, or
\* the target rebuilt in between (fuzz.sh:153-184).
StoredIsFuzzed == \A w \in Workdirs : corpus[w] # None => stored[w] \in {corpus[w], None}
=============================================================================
