----------------------------- MODULE SmatchAudit -----------------------------
(***************************************************************************)
(* bkc/audit/smatch_audit.sh: the audit of the kernel tree at $LINUX_GUEST *)
(* with another .config, which is swapped in and out again.  The steps of  *)
(* the script leave files in the tree, in the output directory and in      *)
(* /tmp; `set -e' ends it at the first step that fails, and it may be      *)
(* killed at any step.  The user edits .config between two audits.  Files  *)
(* of the tree may disappear meanwhile: SharedTree adds the builds that do *)
(* this.                                                                   *)
(***************************************************************************)
EXTENDS Integers

CONSTANTS
    MaxAudits,  \* bound: audits started
    MaxEdits    \* bound: versions of the user's .config

ASSUME AuditAssumption == MaxAudits \in Nat \ {0} /\ MaxEdits \in Nat \ {0}

None   == 0    \* no file
Audit  == -1   \* the <config> argument
Torn   == -2   \* a file whose copy was not completed
Default == -3  \* the kernel's own configuration

VARIABLES
    user,     \* the .config the user last wrote
    config,   \* $LINUX_GUEST/.config
    backup,   \* the file named by $CONFIG_BAK
    orphans,  \* backups of earlier audits that were not removed
    dirty,    \* the tree holds include/config and the like, of a build in it
    audits,   \* audits started so far
    given,    \* the configuration the audit was asked for
    used,     \* the configuration it was built with
    step,     \* the next step of the audit, "idle" between two
    frags,    \* audits that left *.c.smatch files in the tree
    warns,    \* audits whose warnings are in the report in the tree
    lists,    \* ... in the filtered and annotated lists in the tree
    delivered, \* ... in the report in <dir>
    outLists  \* ... in the lists in <dir>

conf == <<user, config, backup, orphans>>
args == <<audits, given>>
reports == <<frags, warns, lists, delivered, outLists>>
auditVars == <<conf, dirty, args, used, step, reports>>

AuditInit ==
    /\ user \in {None, 1} /\ config = user
    /\ backup = None /\ orphans = {}
    /\ dirty \in BOOLEAN
    /\ audits = 0 /\ given = None /\ used = None
    /\ step = "idle"
    /\ frags = {} /\ warns = {} /\ lists = {} /\ delivered = {} /\ outLists = {}

-----------------------------------------------------------------------------
Edit ==
    /\ step = "idle"
    /\ user < MaxEdits
    /\ user' = user + 1
    /\ config' = user'
    /\ UNCHANGED <<backup, orphans, dirty, args, used, step, reports>>

\* <config> may be the .config of the tree, if there is one.
Start ==
    /\ step = "idle"
    /\ audits < MaxAudits
    /\ audits' = audits + 1
    /\ \/ config # None /\ given' = config /\ step' = "clean"
       \/ given' = Audit /\ step' = IF config = None THEN "open" ELSE "backup"
    /\ UNCHANGED <<conf, dirty, used, reports>>

\* A step fails or the script is killed: what $CONFIG_BAK named is forgotten.
\* A build that fails has left its part of the fragments and the rest.
Stop ==
    /\ step # "idle"
    /\ step' = "idle"
    /\ backup' = None
    /\ orphans' = orphans \cup ({backup} \ {None})
    /\ \/ UNCHANGED <<dirty, frags>>
       \/ step = "build" /\ dirty' = TRUE /\ frags' \in {frags, frags \cup {audits}}
    /\ UNCHANGED <<user, config, args, used, warns, lists, delivered, outLists>>

Step(from, to) == step = from /\ step' = to

-----------------------------------------------------------------------------
(* The .config.                                                            *)

\* mktemp and cp of .config to it.  (Seeded fault: only the name is made.)
SavedNot == Torn
Saved == config

Backup ==
    /\ Step("backup", "open")
    /\ config # None
    /\ backup' = Saved
    /\ UNCHANGED <<user, config, orphans, dirty, args, used, reports>>

\* cp opens .config, and writes to what it opened.
Redirect(from, to, new) ==
    /\ Step(from, to)
    /\ config' = new
    /\ UNCHANGED <<user, backup, orphans, dirty, args, used, reports>>
InPlace(new) == IF config = None THEN None ELSE new

\* cp of <config> over .config.  (Seeded fault: of the backup.)
InstalledBackup == backup
Installed == Audit

Open    == Redirect("open", "install", Torn)
Install == Redirect("install", "clean", InPlace(Installed))

\* cp of the backup over .config, then rm of the backup, if there is one.
Reopen ==
    \/ backup # None /\ Redirect("restore", "rewrite", Torn)
    \/ backup = None /\ Redirect("restore", "idle", config)
Restore == Redirect("rewrite", "remove", InPlace(backup))
Remove ==
    /\ Step("remove", "idle")
    /\ backup' = None
    /\ UNCHANGED <<user, config, orphans, dirty, args, used, reports>>

-----------------------------------------------------------------------------
(* analyze_kernel().                                                       *)

\* make clean, olddefconfig, find -name *.c.smatch -exec rm.
\* (Seeded fault: the fragments are not removed.)
LeftoversKept == frags
Leftovers == {}

\* It makes a .config if there is none, and include/config.
Clean ==
    /\ Step("clean", "start")
    /\ config' = IF config = None THEN Default ELSE config
    /\ dirty' = TRUE
    /\ frags' = Leftovers
    /\ UNCHANGED <<user, backup, orphans, args, used, warns, lists, delivered, outLists>>

\* make -k, which begins with .config.
StartBuild ==
    /\ Step("start", "build")
    /\ config # None
    /\ used' = config
    /\ UNCHANGED <<conf, dirty, args, reports>>
Build ==
    /\ Step("build", "collect")
    /\ dirty' = TRUE
    /\ frags' = frags \cup {audits}
    /\ UNCHANGED <<conf, args, used, warns, lists, delivered, outLists>>

\* find -name *.c.smatch -exec cat -exec rm > $SMATCH_WARNS.
Collect ==
    /\ Step("collect", "lists")
    /\ warns' = frags
    /\ frags' = {}
    /\ UNCHANGED <<conf, dirty, args, used, lists, delivered, outLists>>

\* The filter and the transfer of the annotations, both with --force.
MakeLists ==
    /\ Step("lists", "deliver")
    /\ lists' = warns
    /\ UNCHANGED <<conf, dirty, args, used, frags, warns, delivered, outLists>>

\* The two cp to <dir>, which fail when this is the tree itself: then only Stop
\* is left.
Deliver ==
    /\ Step("deliver", "deliver lists")
    /\ delivered' = warns
    /\ UNCHANGED <<conf, dirty, args, used, frags, warns, lists, outLists>>
DeliverLists ==
    /\ Step("deliver lists", "restore")
    /\ outLists' = lists
    /\ UNCHANGED <<conf, dirty, args, used, frags, warns, lists, delivered>>

AuditNext ==
    \/ Edit \/ Start \/ Stop
    \/ Backup \/ Open \/ Install \/ Reopen \/ Restore \/ Remove
    \/ Clean \/ StartBuild \/ Build \/ Collect \/ MakeLists \/ Deliver \/ DeliverLists

AuditSpec == AuditInit /\ [][AuditNext]_auditVars

-----------------------------------------------------------------------------
(* Properties.                                                             *)

\* What a successful audit delivers is of this audit alone, although audits
\* that were stopped left fragments and lists behind, and of the configuration
\* it was asked for; or, when a build took .config away, of the default one,
\* never of the user's or of a file in part (smatch_audit.sh:44-57, 86-95).
DeliveredAsked ==
    step = "restore" =>
        /\ delivered = {audits} /\ outLists = {audits}
        /\ used \in {given, Default}
=============================================================================
