------------------------------ MODULE SharedTree ------------------------------
(***************************************************************************)
(* The kernel tree at $LINUX_GUEST, which the audit builds in and which    *)
(* every `fuzz.sh build' cleans before it builds elsewhere, with no lock.  *)
(* The builds of a campaign run at the same time, and while the user edits *)
(* .config or audits.                                                      *)
(***************************************************************************)
EXTENDS SmatchAudit

CONSTANT Builds  \* calls of fuzz.sh build

VARIABLES
    build,    \* of each build: its next step, "done", "unclean" or "failed"
    wiped,    \* history: the .config files that a build removed
    intruded  \* history: builds whose tree the audit or the user wrote to

treeVars == <<auditVars, build, wiped, intruded>>

AtWork == {b \in Builds : build[b] \in {"configure", "compile"}}

TreeInit ==
    /\ AuditInit
    /\ build = [b \in Builds |-> "clean"]
    /\ wiped = {} /\ intruded = {}

\* The user and the audit.
Other ==
    /\ AuditNext
    /\ intruded' = IF <<config', dirty'>> # <<config, dirty>> THEN intruded \cup AtWork ELSE intruded
    /\ UNCHANGED <<build, wiped>>

BuildStep(b, from, to) ==
    /\ build[b] = from
    /\ build' = [build EXCEPT ![b] = to]
    /\ UNCHANGED <<user, backup, orphans, args, used, step, reports, intruded>>

\* make mrproper: .config and all that a build makes, but not the fragments of
\* smatch.  A cp that has .config open goes on writing to a file without name.
\* (Seeded fault: make clean.)
CleanedNot == UNCHANGED <<config, dirty, wiped>>
Cleaned ==
    /\ config' = None
    /\ dirty' = FALSE
    /\ wiped' = wiped \cup {config} \cup (IF step = "rewrite" THEN {backup} ELSE {})

Mrproper(b) ==
    /\ BuildStep(b, "clean", "configure")
    /\ Cleaned

\* make O=, which refuses to work beside a tree that is not clean.
MakeApart(b, from, to) ==
    /\ BuildStep(b, from, IF config = None /\ ~dirty THEN to ELSE "unclean")
    /\ UNCHANGED <<config, dirty, wiped>>
Configure(b) == MakeApart(b, "configure", "compile")
Compile(b)   == MakeApart(b, "compile", "done")

\* One of the three fails for a reason of its own, or is killed.
Fail(b) ==
    /\ \E from \in {"clean", "configure", "compile"} : BuildStep(b, from, "failed")
    /\ UNCHANGED <<config, dirty, wiped>>

TreeNext ==
    \/ Other
    \/ \E b \in Builds : Mrproper(b) \/ Configure(b) \/ Compile(b) \/ Fail(b)

TreeSpec == TreeInit /\ [][TreeNext]_treeVars

-----------------------------------------------------------------------------
(* Properties.                                                             *)

\* No sequence of audits that are stopped destroys the last copy of the user's
\* .config: it is in place or in a backup, unless a build's mrproper removed
\* it, also from under the cp that was restoring it (smatch_audit.sh:86-103,
\* fuzz.sh:344).
ConfigNotLost == user # None => user \in {config, backup} \cup orphans \cup wiped

\* Builds do not make each other fail, although each cleans the tree under the
\* others: a build finds the tree unclean only if the audit or the user wrote
\* to it after the build's own mrproper (fuzz.sh:343-346, pipeline.py:244).
BuildsApart == \A b \in Builds : build[b] = "unclean" => b \in intruded
=============================================================================
