---------------------------- MODULE MCTraceReader ----------------------------
(***************************************************************************)
(* TraceReader for TLC.  Addresses 1 and 3 lie in one function that smatch *)
(* reports, address 2 in another one.  The names of PathNames are the      *)
(* folders of the sources and of a build, a plain one, one with a "-" in   *)
(* it and one with a dot in front of it.                                   *)
(***************************************************************************)
EXTENDS TraceReader, PathNames

MCSameFunc == {<<a, b>> \in Addresses \X Addresses : a % 2 = b % 2}

MCUndotted == {"src", "obj", "mm", "my-mm"}
MCNames == MCUndotted \cup {".mm"}
MCRest  == [n \in MCNames |-> IF n = "my-mm" THEN "mm" ELSE n]
MCBare  == [n \in MCNames |-> IF n = ".mm" THEN "mm" ELSE n]

\* Built in the folder of the sources, or apart.
MCSource == <<"src">>
MCBuilds == {<<"src">>, <<"obj">>}

Some == [root |-> FALSE, names |-> <<"mm">>]

\* A trace, or two spellings.
MCInit ==
    /\ ReaderInit
    /\ IF file = <<>> THEN PathInit ELSE dir = MCSource /\ shown = Some /\ item = Some
MCSpec == MCInit /\ [][ReaderNext /\ UNCHANGED <<dir, shown, item>>]_<<readerVars, dir, shown, item>>
=============================================================================
