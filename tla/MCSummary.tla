------------------------------ MODULE MCSummary ------------------------------
(***************************************************************************)
(* Summary for TLC.  Three logs of two harnesses, two of them with the     *)
(* same message where their markers are the same.                          *)
(***************************************************************************)
EXTENDS Summary, TLC

CONSTANTS k1, c1, t1, h1, h2, s1, s2

MCKind == k1 :> "kasan" @@ c1 :> "crash" @@ t1 :> "timeo"
MCSite == k1 :> s1 @@ c1 :> s2 @@ t1 :> s1
MCOrigin == k1 :> h1 @@ c1 :> h2 @@ t1 :> h1
MCContents == {{}, {"KASAN:", "KASAN_NOPTI"}, {"WARNING:", "RIP:"}}

Symmetry == Permutations(Tags)
=============================================================================
