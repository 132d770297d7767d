--------------------------- MODULE MinimizerProofs ---------------------------
(***************************************************************************)
(* Proofs about Minimizer, for any number of dumps, stacks and runs.       *)
(***************************************************************************)
EXTENDS Minimizer, SequenceTheorems, FiniteSetTheorems, WellFoundedInduction, TLAPS


-----------------------------------------------------------------------------
(* The inductive invariant: of the dump a run is at, the stacks before     *)
(* `pos' are counted and have folders; the dumps that are chosen, because  *)
(* they have a report or are to have one, account for all short stacks.    *)

TypeOK ==
    /\ trace \in [Dumps -> Seq(Fulls)]
    /\ damaged \subseteq Dumps /\ arrived \subseteq Dumps
    /\ unpacked \subseteq Dumps /\ cut \subseteq unpacked /\ todo \subseteq arrived
    /\ seen \subseteq Fulls \cup Shorts /\ IsFiniteSet(seen)
    /\ callers \in [Fulls \cup Shorts -> [Dumps -> Nat]]
    /\ report \in [Dumps -> {"none", "part", "whole", "failed"}]
    /\ runs \in Nat /\ new \in BOOLEAN
    /\ step \in {"idle", "next", "see", "count", "short", "cover", "clean"}

\* A run is at a dump, which it unpacked and has not left, or between two.
AtDump ==
    IF step \in {"idle", "next"} THEN dump = None
    ELSE /\ dump \in unpacked \ cut
         /\ pos \in 1 .. Len(trace[dump]) + 1
         /\ step \in {"count", "short"} => pos <= Len(trace[dump])
         /\ step = "cover" => new
         /\ step \in {"cover", "clean"} => pos = Len(trace[dump]) + 1

\* How many of the first n stacks of dump d have the folder k.
Upto(k, d, n) == Cardinality({i \in 1 .. n : k \in Keys(trace[d][i])})

\* Every stack passed is counted, in the folder of the whole stack before
\* that of its short one.
CountedSoFar ==
    \A k \in Fulls \cup Shorts, d \in Dumps :
        /\ d \notin unpacked => callers[k][d] = 0
        /\ d \in cut => callers[k][d] <= Upto(k, d, Len(trace[d]))
        /\ d \in Past \ cut => callers[k][d] = Upto(k, d, Len(trace[d]))
        /\ d = dump => callers[k][d] = Upto(k, d, pos - 1)
                            + (IF step = "short" /\ k = Stack THEN 1 ELSE 0)

\* The short stacks passed in a dump that was not cut have a folder.
ShortsSeen ==
    \A d \in unpacked \ cut : \A i \in DOMAIN trace[d] :
        (\/ d # dump
         \/ i < pos
         \/ i = pos /\ step \in {"count", "short"}) => ShortOf[trace[d][i]] \in seen

\* The dumps with a report, and the one that is to have one.
Chosen == {d \in unpacked : Computed(d) \/ (d = dump /\ new /\ step # "clean")}

\* A short stack with a folder is in a dump that is chosen or was cut.
ShortsChosen ==
    \A s \in seen \cap Shorts :
        \E d \in Chosen \cup cut : \E i \in DOMAIN trace[d] : ShortOf[trace[d][i]] = s

\* One that is in a dump that is over has such a dump besides the present one.
PastChosen ==
    \A e \in Past \ cut : \A j \in DOMAIN trace[e] :
        \E d \in (Chosen \ {dump}) \cup cut : \E i \in DOMAIN trace[d] :
            ShortOf[trace[d][i]] = ShortOf[trace[e][j]]

ChosenFew == Cardinality(Chosen) <= Cardinality(seen \cap Shorts)

Unreported == \A d \in Dumps \ unpacked : report[d] = "none"

MinimizerInv ==
    /\ TypeOK /\ AtDump /\ CountedSoFar /\ Unreported
    /\ ShortsSeen /\ ShortsChosen /\ PastChosen /\ ChosenFew

-----------------------------------------------------------------------------
(* A non-empty set of numbers has a least element, which Min returns.      *)
LEMMA MinInSet ==
    ASSUME NEW S \in SUBSET Nat, S # {}
    PROVE  Min(S) \in S
<1>1. IsWellFoundedOn({r \in Nat \X Nat : r[1] < r[2]}, Nat)
  BY NatLessThanWellFounded, Zenon DEF OpToRel
<1>2. PICK x \in S : \A y \in S : ~(<<y, x>> \in {r \in Nat \X Nat : r[1] < r[2]})
  BY <1>1, WFMin, Zenon
<1>3. \A y \in S : x <= y
  <2>1. ASSUME NEW y \in S
        PROVE  ~(y < x)
    BY <1>2, Zenon
  <2>2. QED
    BY <2>1
<1>4. QED
  BY <1>3 DEF Min

(* Counting one stack more.                                                *)
LEMMA UptoFacts ==
    ASSUME NEW k, NEW d, NEW n \in Nat
    PROVE  /\ Upto(k, d, n) \in Nat
           /\ Upto(k, d, 0) = 0
           /\ n > 0 => Upto(k, d, n) =
                Upto(k, d, n - 1) + (IF k \in Keys(trace[d][n]) THEN 1 ELSE 0)
           /\ \A m \in 0 .. n : Upto(k, d, m) <= Upto(k, d, n)
<1> DEFINE at(m) == {i \in 1 .. m : k \in Keys(trace[d][i])}
<1>1. \A m \in Nat : IsFiniteSet(at(m)) /\ Cardinality(at(m)) \in Nat
  <2>1. ASSUME NEW m \in Nat
        PROVE  IsFiniteSet(at(m))
    <3>1. IsFiniteSet(1 .. m) /\ at(m) \in SUBSET (1 .. m)
      BY FS_Interval
    <3>2. QED
      BY <3>1, FS_Subset, Zenon
  <2>2. QED
    BY <2>1, FS_CardinalityType
<1>2. Cardinality(at(0)) = 0
  <2>1. at(0) = {}
    OBVIOUS
  <2>2. QED
    BY <2>1, FS_EmptySet
<1>3. ASSUME n > 0
      PROVE  Cardinality(at(n)) =
                Cardinality(at(n - 1)) + (IF k \in Keys(trace[d][n]) THEN 1 ELSE 0)
  <2>1. 1 .. n = (1 .. n - 1) \cup {n} /\ n \notin 1 .. n - 1 /\ n - 1 \in Nat
    BY <1>3
  <2>2. CASE k \in Keys(trace[d][n])
    <3>1. at(n) = at(n - 1) \cup {n} /\ n \notin at(n - 1)
      BY <2>1, <2>2
    <3> HIDE DEF at
    <3>2. QED
      BY <1>1, <2>1, <2>2, <3>1, FS_AddElement
  <2>3. CASE k \notin Keys(trace[d][n])
    <3>1. at(n) = at(n - 1)
      BY <2>1, <2>3
    <3> HIDE DEF at
    <3>2. QED
      BY <1>1, <2>1, <2>3, <3>1
  <2>4. QED
    BY <2>2, <2>3
<1>4. ASSUME NEW m \in 0 .. n
      PROVE  Cardinality(at(m)) <= Cardinality(at(n))
  <2>1. at(m) \in SUBSET at(n)
    OBVIOUS
  <2> HIDE DEF at
  <2>2. QED
    BY <1>1, <2>1, FS_Subset
<1>5. \A m : Upto(k, d, m) = Cardinality(at(m))
  BY DEF Upto
<1> HIDE DEF at
<1>6. QED
  BY <1>1, <1>2, <1>3, <1>4, <1>5

(* What the invariants take from the types: traces are lists of stacks and *)
(* a dump is none of the numbers that stand for no dump.                   *)
LEMMA TraceFacts ==
    ASSUME TypeOK, NEW d \in Dumps
    PROVE  /\ Len(trace[d]) \in Nat /\ DOMAIN trace[d] = 1 .. Len(trace[d])
           /\ d # None /\ d \in Nat
           /\ \A i \in DOMAIN trace[d] : trace[d][i] \in Fulls
<1>1. trace[d] \in Seq(Fulls)
  BY DEF TypeOK
<1>2. /\ Len(trace[d]) \in Nat /\ DOMAIN trace[d] = 1 .. Len(trace[d])
      /\ \A i \in DOMAIN trace[d] : trace[d][i] \in Fulls
  BY <1>1, LenProperties, ElementOfSeq
<1>3. d # None /\ d \in Nat
  BY MinimizerAssumption DEF Dumps, None
<1>4. QED
  BY <1>2, <1>3

(* How often a trace holds a stack; a short stack is no whole one.         *)
LEMMA TimesFacts ==
    ASSUME TypeOK, NEW d \in Dumps, NEW k
    PROVE  /\ Times(k, d) = Upto(k, d, Len(trace[d]))
           /\ k \in Shorts => /\ k \notin Fulls
                              /\ Times(k, d) > 0 <=>
                                    \E i \in DOMAIN trace[d] : ShortOf[trace[d][i]] = k
<1>1. Times(k, d) = Upto(k, d, Len(trace[d]))
  BY TraceFacts DEF Times, Upto
<1>2. ASSUME k \in Shorts
      PROVE  k \notin Fulls
  BY <1>2, MinimizerAssumption DEF Shorts
<1>3. ASSUME k \in Shorts
      PROVE  Times(k, d) > 0 <=> \E i \in DOMAIN trace[d] : ShortOf[trace[d][i]] = k
  <2> DEFINE S == {i \in DOMAIN trace[d] : k \in Keys(trace[d][i])}
  <2>1. IsFiniteSet(S)
    <3>1. IsFiniteSet(DOMAIN trace[d]) /\ S \in SUBSET DOMAIN trace[d]
      BY TraceFacts, FS_Interval
    <3>2. QED
      BY <3>1, FS_Subset, Zenon
  <2>2. S = {i \in DOMAIN trace[d] : ShortOf[trace[d][i]] = k}
    BY <1>2, <1>3, TraceFacts DEF Keys
  <2>3. Cardinality(S) \in Nat /\ (Cardinality(S) = 0 <=> S = {})
    BY <2>1, FS_CardinalityType, FS_EmptySet
  <2>4. Times(k, d) = Cardinality(S)
    BY DEF Times
  <2> HIDE DEF S
  <2>5. QED
    BY <2>2, <2>3, <2>4
<1>4. QED
  BY <1>1, <1>2, <1>3

(* Sets of dumps and of stacks with a folder are finite.                   *)
LEMMA FiniteFolders ==
    ASSUME TypeOK
    PROVE  /\ IsFiniteSet(Chosen) /\ Chosen \subseteq unpacked
           /\ \A D \in SUBSET Chosen : IsFiniteSet(D) /\ Cardinality(D) <= Cardinality(Chosen)
           /\ IsFiniteSet(seen \cap Shorts)
           /\ Cardinality(Chosen) \in Nat /\ Cardinality(seen \cap Shorts) \in Nat
<1>1. IsFiniteSet(Dumps)
  BY MinimizerAssumption, FS_Interval DEF Dumps
<1>2. Chosen \in SUBSET Dumps /\ Chosen \subseteq unpacked
  BY DEF Chosen, TypeOK, Computed
<1>3. IsFiniteSet(Chosen)
  BY <1>1, <1>2, FS_Subset, Zenon
<1>4. IsFiniteSet(seen \cap Shorts)
  <2>1. IsFiniteSet(seen) /\ seen \cap Shorts \in SUBSET seen
    BY DEF TypeOK
  <2>2. QED
    BY <2>1, FS_Subset, Zenon
<1>5. QED
  BY <1>2, <1>3, <1>4, FS_Subset, FS_CardinalityType
(* The first state: no dump is unpacked, no stack has a folder.            *)
LEMMA MinimizerInit ==
    ASSUME Init
    PROVE  MinimizerInv
<1>1. trace \in [Dumps -> Seq(Fulls)]
  <2>1. Traces \subseteq Seq(Fulls)
    BY MinimizerAssumption DEF Traces
  <2>2. QED
    BY <2>1 DEF Init
<1>2. \A d \in Dumps : d # None
  BY MinimizerAssumption DEF Dumps, None
<1>3. TypeOK
  BY <1>1, FS_EmptySet DEF Init, TypeOK
<1>4. AtDump /\ CountedSoFar
  BY <1>2 DEF Init, AtDump, CountedSoFar, Past
<1>5. ShortsSeen /\ ShortsChosen /\ PastChosen /\ Unreported
  BY DEF Init, ShortsSeen, ShortsChosen, PastChosen, Past, Unreported
<1>6. ChosenFew
  <2>1. Chosen = {} /\ seen \cap Shorts = {}
    BY DEF Init, Chosen, Computed
  <2>2. QED
    BY <2>1, FS_EmptySet DEF ChosenFew
<1>7. QED
  BY <1>3, <1>4, <1>5, <1>6 DEF MinimizerInv

(* Between two dumps, nothing that the invariant speaks of changes.        *)
LEMMA BetweenDumps ==
    ASSUME MinimizerInv, dump = None, dump' = None,
           step \in {"idle", "next"}, step' \in {"idle", "next"},
           UNCHANGED <<inputs, folders, cut>>,
           arrived' \subseteq Dumps, todo' \subseteq arrived', runs' \in Nat, new' \in BOOLEAN
    PROVE  MinimizerInv'
<1>1. /\ trace' = trace /\ damaged' = damaged /\ unpacked' = unpacked /\ seen' = seen
      /\ callers' = callers /\ report' = report /\ cut' = cut
  BY DEF inputs, folders
<1>2. /\ TypeOK /\ AtDump /\ CountedSoFar /\ Unreported
      /\ ShortsSeen /\ ShortsChosen /\ PastChosen /\ ChosenFew
  BY DEF MinimizerInv
<1>3. \A d \in Dumps : d # dump /\ d # dump'
  BY <1>2, TraceFacts
<1>4. TypeOK' /\ AtDump' /\ Unreported'
  BY <1>1, <1>2 DEF TypeOK, AtDump, Unreported
<1>5. Past' = Past /\ unpacked \subseteq Dumps
  BY <1>1, <1>2 DEF Past, TypeOK
<1>6. \A k, d, n : Upto(k, d, n)' = Upto(k, d, n)
  BY <1>1 DEF Upto
<1>7. CountedSoFar'
  BY <1>1, <1>2, <1>3, <1>5, <1>6 DEF CountedSoFar
<1>8. ShortsSeen'
  BY <1>1, <1>2, <1>3, <1>5 DEF ShortsSeen
<1>9. Chosen' = Chosen
  BY <1>1, <1>3, <1>5 DEF Chosen, Computed
<1>10. ShortsChosen' /\ PastChosen' /\ ChosenFew'
  BY <1>1, <1>2, <1>3, <1>5, <1>9 DEF ShortsChosen, PastChosen, ChosenFew
<1>11. QED
  BY <1>4, <1>7, <1>8, <1>10 DEF MinimizerInv

(* Leaving a dump that is not over: it counts as cut, and what was counted *)
(* of it is at most what it holds.                                         *)
LEMMA LeaveDump ==
    ASSUME MinimizerInv, step \notin {"idle", "next"}, Quit,
           UNCHANGED <<unpacked, seen, callers>>,
           report' \in {report, [report EXCEPT ![dump] = "part"]}
    PROVE  MinimizerInv'
<1>1. /\ trace' = trace /\ damaged' = damaged /\ arrived' = arrived /\ runs' = runs
      /\ unpacked' = unpacked /\ seen' = seen /\ callers' = callers
      /\ step' = "idle" /\ todo' = {} /\ dump' = None /\ pos' = 1 /\ new' = FALSE
  BY DEF inputs, Quit
<1>2. /\ TypeOK /\ AtDump /\ CountedSoFar /\ Unreported
      /\ ShortsSeen /\ ShortsChosen /\ PastChosen /\ ChosenFew
  BY DEF MinimizerInv
<1>3. /\ dump \in unpacked /\ dump \notin cut /\ dump \in Dumps /\ pos \in 1 .. Len(trace[dump]) + 1
      /\ step = "short" => pos <= Len(trace[dump])
  BY <1>2 DEF AtDump, TypeOK
<1>4. /\ \A d \in Dumps : d # None
      /\ Len(trace[dump]) \in Nat /\ DOMAIN trace[dump] = 1 .. Len(trace[dump])
  BY <1>2, <1>3, TraceFacts
<1>5. cut' = cut \cup {dump}
  BY <1>3, <1>4 DEF Quit
<1>6. TypeOK' /\ AtDump'
  BY <1>1, <1>2, <1>3, <1>5 DEF TypeOK, AtDump
<1>7. /\ \A d \in Dumps : d # dump => report'[d] = report[d]
      /\ report'[dump] \in {"whole", "failed"} => Computed(dump)
  BY <1>2, <1>3 DEF TypeOK, Computed
<1>8. Unreported'
  BY <1>1, <1>2, <1>3, <1>7 DEF Unreported
<1>9. \A k, d, n : Upto(k, d, n)' = Upto(k, d, n)
  BY <1>1 DEF Upto
<1>10. ASSUME NEW k \in Fulls \cup Shorts
       PROVE  callers[k][dump] <= Upto(k, dump, Len(trace[dump]))
  <2>1. callers[k][dump] = Upto(k, dump, pos - 1)
                            + (IF step = "short" /\ k = Stack THEN 1 ELSE 0)
    BY <1>2, <1>3 DEF CountedSoFar
  <2>2. /\ pos - 1 \in Nat /\ pos - 1 \in 0 .. Len(trace[dump]) /\ (pos - 1) + 1 = pos
        /\ Upto(k, dump, pos - 1) \in Nat /\ Upto(k, dump, Len(trace[dump])) \in Nat
        /\ Upto(k, dump, pos - 1) <= Upto(k, dump, Len(trace[dump]))
    BY <1>3, <1>4, UptoFacts
  <2>3. CASE step = "short" /\ k = Stack
    <3>1. pos \in 0 .. Len(trace[dump]) /\ pos \in Nat /\ pos > 0
      BY <1>3, <1>4, <2>3
    <3>2. k \in Keys(trace[dump][pos])
      BY <2>3 DEF Stack, Keys
    <3>3. Upto(k, dump, pos) = Upto(k, dump, pos - 1) + 1
      BY <3>1, <3>2, UptoFacts
    <3>4. Upto(k, dump, pos) <= Upto(k, dump, Len(trace[dump]))
      BY <1>4, <3>1, UptoFacts
    <3>5. QED
      BY <2>1, <2>3, <3>3, <3>4
  <2>4. CASE ~(step = "short" /\ k = Stack)
    BY <2>1, <2>2, <2>4
  <2>5. QED
    BY <2>3, <2>4
<1>11. CountedSoFar'
  <2> SUFFICES ASSUME NEW k \in Fulls \cup Shorts, NEW d \in Dumps
               PROVE  /\ d \notin unpacked => callers[k][d] = 0
                      /\ d \in cut \cup {dump} => callers[k][d] <= Upto(k, d, Len(trace[d]))
                      /\ d \in unpacked \ (cut \cup {dump}) =>
                            callers[k][d] = Upto(k, d, Len(trace[d]))
    BY <1>1, <1>4, <1>5, <1>9 DEF CountedSoFar, Past, Shorts
  <2>1. QED
    BY <1>2, <1>10 DEF CountedSoFar, Past
<1>12. ShortsSeen'
  BY <1>1, <1>2, <1>5 DEF ShortsSeen
<1>13. Chosen' \subseteq Chosen /\ Chosen \cup cut \subseteq Chosen' \cup cut'
  <2>1. unpacked \subseteq Dumps
    BY <1>2 DEF TypeOK
  <2>2. QED
    BY <1>1, <1>4, <1>5, <1>7, <2>1 DEF Chosen, Computed
<1>14. ShortsChosen'
  BY <1>1, <1>2, <1>13 DEF ShortsChosen, Shorts
<1>15. PastChosen'
  <2>1. Past' \ cut' \subseteq Past \ cut
    BY <1>1, <1>5 DEF Past
  <2>2. (Chosen \ {dump}) \cup cut \subseteq (Chosen' \ {dump'}) \cup cut'
    <3>1. \A d \in Chosen : d # dump'
      BY <1>1, <1>2, <1>4 DEF Chosen, TypeOK, Computed
    <3>2. QED
      BY <1>1, <1>5, <1>7, <1>13, <3>1, <1>2, <1>4 DEF Chosen, TypeOK, Computed
  <2>3. QED
    BY <1>1, <1>2, <2>1, <2>2 DEF PastChosen
<1>16. ChosenFew'
  <2>1. Cardinality(Chosen') <= Cardinality(Chosen) /\ Cardinality(Chosen') \in Nat
        /\ Cardinality(Chosen) \in Nat /\ Cardinality(seen \cap Shorts) \in Nat
    BY <1>2, <1>13, FiniteFolders, FS_CardinalityType
  <2>2. QED
    BY <1>1, <1>2, <2>1 DEF ChosenFew, Shorts
<1>17. QED
  BY <1>6, <1>8, <1>11, <1>12, <1>14, <1>15, <1>16 DEF MinimizerInv
(* A dump that is unpacked has no counts yet, nor a report.                *)
LEMMA UnpackStep ==
    ASSUME MinimizerInv, Unpack
    PROVE  MinimizerInv'
<1>1. /\ trace' = trace /\ damaged' = damaged /\ arrived' = arrived /\ runs' = runs
      /\ seen' = seen /\ callers' = callers /\ report' = report /\ cut' = cut
      /\ step = "next" /\ step' = "see" /\ pos' = 1 /\ new' = FALSE
      /\ todo # {} /\ Min(todo) \notin unpacked
      /\ dump' = Min(todo) /\ todo' = todo \ {dump'} /\ unpacked' = unpacked \cup {dump'}
  BY DEF inputs, Unpack, At
<1>2. /\ TypeOK /\ AtDump /\ CountedSoFar /\ Unreported
      /\ ShortsSeen /\ ShortsChosen /\ PastChosen /\ ChosenFew
  BY DEF MinimizerInv
<1>3. todo \in SUBSET Nat /\ todo \subseteq Dumps /\ unpacked \subseteq Dumps /\ dump = None
  <2>1. Dumps \subseteq Nat
    BY <1>2, TraceFacts
  <2>2. QED
    BY <1>1, <1>2, <2>1 DEF TypeOK, AtDump
<1>4. dump' \in todo /\ dump' \in Dumps /\ dump' \notin unpacked /\ dump' \notin cut
  BY <1>1, <1>2, <1>3, MinInSet DEF TypeOK
<1>5. /\ \A d \in Dumps : d # None
      /\ Len(trace[dump']) \in Nat /\ DOMAIN trace[dump'] = 1 .. Len(trace[dump'])
  BY <1>2, <1>4, TraceFacts
<1>6. TypeOK' /\ AtDump' /\ Unreported'
  <2>1. TypeOK'
    BY <1>1, <1>2, <1>4 DEF TypeOK
  <2>2. AtDump'
    BY <1>1, <1>4, <1>5 DEF AtDump
  <2>3. QED
    BY <1>1, <1>2, <2>1, <2>2 DEF Unreported
<1>7. \A k, d, n : Upto(k, d, n)' = Upto(k, d, n)
  BY <1>1 DEF Upto
<1>8. Past' = unpacked /\ Past = unpacked
  BY <1>1, <1>3, <1>4, <1>5 DEF Past
<1>9. CountedSoFar'
  <2> SUFFICES ASSUME NEW k \in Fulls \cup Shorts, NEW d \in Dumps
               PROVE  /\ d \notin unpacked' => callers[k][d] = 0
                      /\ d \in cut => callers[k][d] <= Upto(k, d, Len(trace[d]))
                      /\ d \in unpacked \ cut => callers[k][d] = Upto(k, d, Len(trace[d]))
                      /\ d = dump' => callers[k][d] = 0
    <3>1. pos' - 1 = 0 /\ step' # "short" /\ \A k, d : Upto(k, d, 0) = 0
      BY <1>1, UptoFacts
    <3>2. QED
      BY <1>1, <1>7, <1>8, <3>1 DEF CountedSoFar, Shorts
  <2>1. QED
    BY <1>1, <1>2, <1>4, <1>8 DEF CountedSoFar
<1>10. ShortsSeen'
  BY <1>1, <1>2, <1>3, <1>5 DEF ShortsSeen
<1>11. Chosen' = Chosen
  BY <1>1, <1>2, <1>3, <1>4, <1>5 DEF Chosen, Unreported, Computed
<1>12. ShortsChosen' /\ ChosenFew'
  BY <1>1, <1>2, <1>11 DEF ShortsChosen, ChosenFew, Shorts
<1>13. PastChosen'
  <2>1. dump \notin Chosen /\ dump' \notin Chosen
    BY <1>3, <1>4, <1>5 DEF Chosen, Computed
  <2>2. QED
    BY <1>1, <1>2, <1>8, <1>11, <2>1 DEF PastChosen
<1>14. QED
  BY <1>6, <1>9, <1>10, <1>12, <1>13 DEF MinimizerInv

(* A stack with a new short stack makes its dump one that is to have a     *)
(* report: one dump more at most, for one short stack more.                *)
LEMMA SeeStep ==
    ASSUME MinimizerInv, See
    PROVE  MinimizerInv'
<1> DEFINE s == ShortOf[Stack]
<1>1. /\ trace' = trace /\ damaged' = damaged /\ arrived' = arrived /\ runs' = runs
      /\ unpacked' = unpacked /\ callers' = callers /\ report' = report /\ cut' = cut
      /\ step = "see" /\ step' = "count" /\ pos <= Len(trace[dump])
      /\ seen' = seen \cup {Stack, s} /\ (new' <=> new \/ s \notin seen)
      /\ new' \in BOOLEAN /\ todo' = todo /\ dump' = dump /\ pos' = pos
  BY DEF inputs, See, At, Keys, News, MinimizerInv, TypeOK
<1>2. /\ TypeOK /\ AtDump /\ CountedSoFar /\ Unreported
      /\ ShortsSeen /\ ShortsChosen /\ PastChosen /\ ChosenFew
  BY DEF MinimizerInv
<1>3. /\ dump \in unpacked \ cut /\ dump \in Dumps /\ pos \in 1 .. Len(trace[dump]) + 1
      /\ Len(trace[dump]) \in Nat /\ DOMAIN trace[dump] = 1 .. Len(trace[dump])
  BY <1>1, <1>2, TraceFacts DEF AtDump, TypeOK
<1>4. pos \in DOMAIN trace[dump] /\ trace[dump][pos] = Stack /\ pos \in 1 .. Len(trace[dump])
  BY <1>1, <1>3 DEF Stack
<1>5. Stack \in Fulls /\ s \in Shorts /\ Stack \notin Shorts
  BY <1>2, <1>3, <1>4, TraceFacts, MinimizerAssumption DEF Shorts
<1> HIDE DEF s
<1>6. seen' \cap Shorts = (seen \cap Shorts) \cup {s}
  BY <1>1, <1>5
<1>7. TypeOK'
  <2>1. IsFiniteSet(seen')
    <3>1. seen' = (seen \cup {Stack}) \cup {s} /\ IsFiniteSet(seen)
      BY <1>1, <1>2 DEF TypeOK
    <3>2. QED
      BY <3>1, FS_AddElement
  <2>2. QED
    BY <1>1, <1>2, <1>5, <2>1 DEF TypeOK, Shorts
<1>8. AtDump' /\ Unreported'
  BY <1>1, <1>2, <1>3 DEF AtDump, Unreported
<1>9. \A k, d, n : Upto(k, d, n)' = Upto(k, d, n)
  BY <1>1 DEF Upto
<1>10. CountedSoFar'
  BY <1>1, <1>2, <1>9 DEF CountedSoFar, Past
<1>11. ShortsSeen'
  <2> SUFFICES ASSUME NEW d \in unpacked \ cut, NEW i \in DOMAIN trace[d],
                      d # dump \/ i < pos \/ i = pos
               PROVE  ShortOf[trace[d][i]] \in seen'
    BY <1>1 DEF ShortsSeen
  <2>1. CASE d # dump \/ i < pos
    BY <1>1, <1>2, <2>1 DEF ShortsSeen
  <2>2. CASE d = dump /\ i = pos
    BY <1>1, <1>4, <2>2 DEF s
  <2>3. QED
    BY <2>1, <2>2
<1>12. PastChosen'
  <2>1. Past' = Past /\ Chosen' \ {dump'} = Chosen \ {dump}
    BY <1>1 DEF Past, Chosen, Computed
  <2>2. QED
    BY <1>1, <1>2, <2>1 DEF PastChosen
<1>13. CASE s \in seen
  <2>1. seen' \cap Shorts = seen \cap Shorts /\ Chosen' = Chosen
    BY <1>1, <1>5, <1>6, <1>13 DEF Chosen, Computed
  <2>2. ShortsChosen' /\ ChosenFew'
    BY <1>1, <1>2, <2>1 DEF ShortsChosen, ChosenFew, Shorts
  <2>3. QED
    BY <1>7, <1>8, <1>10, <1>11, <1>12, <2>2 DEF MinimizerInv
<1>14. CASE s \notin seen
  <2>1. Chosen' = Chosen \cup {dump}
    BY <1>1, <1>3, <1>14 DEF Chosen, Computed
  <2>2. ShortsChosen'
    <3> SUFFICES ASSUME NEW t \in (seen \cap Shorts) \cup {s}
                 PROVE  \E d \in Chosen' \cup cut' : \E i \in DOMAIN trace[d] : ShortOf[trace[d][i]] = t
      BY <1>1, <1>6 DEF ShortsChosen, Shorts
    <3>1. CASE t \in seen \cap Shorts
      BY <1>1, <1>2, <2>1, <3>1 DEF ShortsChosen
    <3>2. CASE t = s
      BY <1>4, <2>1, <3>2 DEF s
    <3>3. QED
      BY <3>1, <3>2
  <2>3. ChosenFew'
    <3>1. Cardinality(Chosen') <= Cardinality(Chosen) + 1
      BY <1>2, <2>1, FiniteFolders, FS_AddElement
    <3>2. Cardinality((seen \cap Shorts)') = Cardinality(seen \cap Shorts) + 1
      <4>1. s \notin seen \cap Shorts /\ (seen \cap Shorts)' = (seen \cap Shorts) \cup {s}
        BY <1>6, <1>14 DEF Shorts
      <4>2. QED
        BY <1>2, <4>1, FiniteFolders, FS_AddElement
    <3>3. /\ Cardinality(Chosen) \in Nat /\ Cardinality(Chosen') \in Nat
          /\ Cardinality(seen \cap Shorts) \in Nat
      <4>1. IsFiniteSet(Chosen')
        BY <1>2, <2>1, FiniteFolders, FS_AddElement
      <4>2. QED
        BY <1>2, <4>1, FiniteFolders, FS_CardinalityType
    <3>4. QED
      BY <1>2, <3>1, <3>2, <3>3 DEF ChosenFew
  <2>4. QED
    BY <1>7, <1>8, <1>10, <1>11, <1>12, <2>2, <2>3 DEF MinimizerInv
<1>15. QED
  BY <1>13, <1>14
(* Counting a stack in the folder of the whole stack, and then in that of  *)
(* its short one: the second is the one that completes the count.          *)
LEMMA CountStep ==
    ASSUME MinimizerInv, Count
    PROVE  MinimizerInv'
<1> DEFINE key == IF step = "count" THEN Stack ELSE ShortOf[Stack]
<1>1. /\ trace' = trace /\ damaged' = damaged /\ arrived' = arrived /\ runs' = runs
      /\ unpacked' = unpacked /\ seen' = seen /\ report' = report /\ cut' = cut
      /\ todo' = todo /\ dump' = dump /\ new' = new
      /\ \/ step = "count" /\ step' = "short" /\ pos' = pos
         \/ step = "short" /\ step' = "see" /\ pos' = pos + 1
      /\ callers' = [callers EXCEPT ![key] = [callers[key] EXCEPT ![dump] = callers[key][dump] + 1]]
  BY DEF inputs, Count, At
<1>2. /\ TypeOK /\ AtDump /\ CountedSoFar /\ Unreported
      /\ ShortsSeen /\ ShortsChosen /\ PastChosen /\ ChosenFew
  BY DEF MinimizerInv
<1>3. /\ dump \in unpacked \ cut /\ dump \in Dumps /\ pos \in 1 .. Len(trace[dump])
      /\ Len(trace[dump]) \in Nat /\ DOMAIN trace[dump] = 1 .. Len(trace[dump])
      /\ pos \in Nat /\ pos > 0 /\ dump # None
  BY <1>1, <1>2, TraceFacts DEF AtDump, TypeOK
<1>4. /\ Stack \in Fulls /\ ShortOf[Stack] \in Shorts /\ ShortOf[Stack] # Stack
      /\ key \in Fulls \cup Shorts
      /\ \A k : k \in Keys(trace[dump][pos]) <=> k = Stack \/ k = ShortOf[Stack]
  BY <1>2, <1>3, TraceFacts, MinimizerAssumption DEF Stack, Shorts, Keys
<1>5. \A k \in Fulls \cup Shorts, d \in Dumps :
            callers'[k][d] = IF k = key /\ d = dump THEN callers[k][d] + 1 ELSE callers[k][d]
  BY <1>1, <1>2, <1>3, <1>4 DEF TypeOK
<1>6. callers' \in [Fulls \cup Shorts -> [Dumps -> Nat]]
  <2> HIDE DEF key
  <2>1. [callers[key] EXCEPT ![dump] = callers[key][dump] + 1] \in [Dumps -> Nat]
    BY <1>2, <1>3, <1>4 DEF TypeOK
  <2>2. QED
    BY <1>1, <1>2, <2>1 DEF TypeOK
<1>7. TypeOK' /\ Unreported'
  BY <1>1, <1>2, <1>6 DEF TypeOK, Unreported, Shorts
<1>8. AtDump'
  <2>1. pos' \in 1 .. Len(trace[dump]) + 1 /\ (step' = "short" => pos' <= Len(trace[dump]))
    BY <1>1, <1>3
  <2>2. QED
    BY <1>1, <1>3, <2>1 DEF AtDump
<1>9. \A k, d, n : Upto(k, d, n)' = Upto(k, d, n)
  BY <1>1 DEF Upto
<1>10. CountedSoFar'
  <2> SUFFICES ASSUME NEW k \in Fulls \cup Shorts, NEW d \in Dumps
               PROVE  /\ d \notin unpacked => callers'[k][d] = 0
                      /\ d \in cut => callers'[k][d] <= Upto(k, d, Len(trace[d]))
                      /\ d \in Past \ cut => callers'[k][d] = Upto(k, d, Len(trace[d]))
                      /\ d = dump => callers'[k][d] = Upto(k, d, pos' - 1)
                            + (IF step' = "short" /\ k = Stack' THEN 1 ELSE 0)
    BY <1>1, <1>9 DEF CountedSoFar, Past, Shorts
  <2>1. CASE d # dump
    <3>1. callers'[k][d] = callers[k][d]
      BY <1>5, <2>1
    <3>2. QED
      BY <1>2, <2>1, <3>1 DEF CountedSoFar
  <2>2. CASE d = dump
    <3>1. d \in unpacked /\ d \notin cut /\ d \notin Past
      BY <1>3, <2>2 DEF Past
    <3>2. callers[k][d] = Upto(k, d, pos - 1) + (IF step = "short" /\ k = Stack THEN 1 ELSE 0)
      BY <1>2, <2>2 DEF CountedSoFar
    <3>3. callers'[k][d] = IF k = key THEN callers[k][d] + 1 ELSE callers[k][d]
      BY <1>5, <2>2
    <3>4. /\ Upto(k, d, pos) = Upto(k, d, pos - 1)
                + (IF k = Stack \/ k = ShortOf[Stack] THEN 1 ELSE 0)
          /\ Upto(k, d, pos) \in Nat /\ Upto(k, d, pos - 1) \in Nat
      <4>1. pos - 1 \in Nat
        BY <1>3
      <4>2. Upto(k, d, pos) \in Nat /\ Upto(k, d, pos - 1) \in Nat
        BY <1>3, <4>1, UptoFacts
      <4>3. Upto(k, d, pos) =
                Upto(k, d, pos - 1) + (IF k \in Keys(trace[d][pos]) THEN 1 ELSE 0)
        BY <1>3, UptoFacts
      <4>4. QED
        BY <1>4, <2>2, <4>2, <4>3
    <3>5. CASE step = "count"
      <4>1. pos' = pos /\ step' = "short" /\ Stack' = Stack /\ key = Stack
        BY <1>1, <3>5 DEF Stack
      <4>2. QED
        BY <3>1, <3>2, <3>3, <3>4, <3>5, <4>1
    <3>6. CASE step = "short"
      <4>1. pos' - 1 = pos /\ step' = "see" /\ key = ShortOf[Stack]
        BY <1>1, <1>3, <3>6
      <4>2. callers'[k][d] = Upto(k, d, pos)
        BY <1>4, <3>2, <3>3, <3>4, <3>6, <4>1
      <4>3. QED
        BY <3>1, <3>4, <4>1, <4>2
    <3>7. QED
      BY <1>1, <3>5, <3>6
  <2>3. QED
    BY <2>1, <2>2
<1>11. ShortsSeen'
  <2> SUFFICES ASSUME NEW d \in unpacked \ cut, NEW i \in DOMAIN trace[d],
                      d # dump \/ i < pos \/ i = pos
               PROVE  ShortOf[trace[d][i]] \in seen
    <3>1. \A i \in 1 .. Len(trace[dump]) :
             i < pos' \/ (i = pos' /\ step' \in {"count", "short"}) => i < pos \/ i = pos
      BY <1>1, <1>3
    <3>2. QED
      BY <1>1, <1>3, <3>1 DEF ShortsSeen
  <2>1. QED
    BY <1>1, <1>2 DEF ShortsSeen
<1>12. Chosen' = Chosen
  BY <1>1 DEF Chosen, Computed
<1>13. ShortsChosen' /\ PastChosen' /\ ChosenFew'
  BY <1>1, <1>2, <1>12 DEF ShortsChosen, PastChosen, Past, ChosenFew, Shorts
<1>14. QED
  BY <1>7, <1>8, <1>10, <1>11, <1>13 DEF MinimizerInv

(* After the last stack: the report, if there was a new short stack, and   *)
(* the end of the dump.  Which dumps are chosen does not change.           *)
LEMMA FinishSteps ==
    ASSUME MinimizerInv, EndOfTrace \/ Cover \/ Clean
    PROVE  MinimizerInv'
<1>1. /\ trace' = trace /\ damaged' = damaged /\ arrived' = arrived /\ runs' = runs
      /\ unpacked' = unpacked /\ seen' = seen /\ callers' = callers /\ cut' = cut
      /\ todo' = todo /\ pos' = pos /\ new' = new
      /\ \/ /\ step = "see" /\ pos > Len(trace[dump]) /\ dump' = dump /\ report' = report
            /\ step' = IF new THEN "cover" ELSE "clean"
         \/ /\ step = "cover" /\ step' = "clean" /\ dump' = dump
            /\ \E list \in {"whole", "failed"} : report' = [report EXCEPT ![dump] = list]
         \/ step = "clean" /\ step' = "next" /\ dump' = None /\ report' = report
  BY DEF inputs, folders, EndOfTrace, Cover, Clean, At
<1>2. /\ TypeOK /\ AtDump /\ CountedSoFar /\ Unreported
      /\ ShortsSeen /\ ShortsChosen /\ PastChosen /\ ChosenFew
  BY DEF MinimizerInv
<1>3. /\ dump \in unpacked \ cut /\ dump \in Dumps /\ unpacked \subseteq Dumps
      /\ Len(trace[dump]) \in Nat /\ DOMAIN trace[dump] = 1 .. Len(trace[dump])
      /\ pos = Len(trace[dump]) + 1 /\ (step = "cover" => new)
  BY <1>1, <1>2, TraceFacts DEF AtDump, TypeOK
<1>4. \A d \in Dumps : d # None
  BY <1>2, TraceFacts
<1>5. TypeOK' /\ Unreported'
  BY <1>1, <1>2, <1>3 DEF TypeOK, Unreported
<1>6. AtDump'
  BY <1>1, <1>3 DEF AtDump
<1>7. \A k, d, n : Upto(k, d, n)' = Upto(k, d, n)
  BY <1>1 DEF Upto
<1>8. CountedSoFar'
  <2> SUFFICES ASSUME NEW k \in Fulls \cup Shorts, NEW d \in Dumps
               PROVE  /\ d \notin unpacked => callers[k][d] = 0
                      /\ d \in cut => callers[k][d] <= Upto(k, d, Len(trace[d]))
                      /\ d \in Past' \ cut => callers[k][d] = Upto(k, d, Len(trace[d]))
                      /\ d = dump' => callers[k][d] = Upto(k, d, pos - 1)
                            + (IF step' = "short" /\ k = Stack' THEN 1 ELSE 0)
    BY <1>1, <1>7 DEF CountedSoFar, Past, Shorts
  <2>1. step # "short" /\ step' # "short" /\ pos - 1 = Len(trace[dump])
    BY <1>1, <1>3
  <2>2. CASE d = dump
    <3>1. Upto(k, d, Len(trace[d])) \in Nat
      BY <1>3, <2>2, UptoFacts
    <3>2. callers[k][d] = Upto(k, d, Len(trace[d])) + 0
      BY <1>2, <2>1, <2>2 DEF CountedSoFar
    <3>3. QED
      BY <1>3, <2>1, <2>2, <3>1, <3>2
  <2>3. CASE d # dump
    <3>1. d # dump' /\ (d \in Past' => d \in Past)
      BY <1>1, <1>4, <2>3 DEF Past
    <3>2. QED
      BY <1>2, <3>1 DEF CountedSoFar
  <2>4. QED
    BY <2>2, <2>3
<1>9. ShortsSeen'
  <2> SUFFICES ASSUME NEW d \in unpacked \ cut, NEW i \in DOMAIN trace[d]
               PROVE  ShortOf[trace[d][i]] \in seen
    BY <1>1 DEF ShortsSeen
  <2>1. d # dump \/ i < pos
    BY <1>3
  <2>2. QED
    BY <1>2, <2>1 DEF ShortsSeen
<1>10. Chosen' = Chosen
  <2>1. ASSUME NEW d \in unpacked
        PROVE  (Computed(d)' \/ (d = dump' /\ new' /\ step' # "clean"))
                  <=> (Computed(d) \/ (d = dump /\ new /\ step # "clean"))
    BY <1>1, <1>2, <1>3, <1>4, <2>1 DEF TypeOK, Computed
  <2>2. QED
    BY <1>1, <2>1 DEF Chosen, Computed
<1>11. ShortsChosen' /\ ChosenFew'
  BY <1>1, <1>2, <1>10 DEF ShortsChosen, ChosenFew, Shorts
<1>12. PastChosen'
  <2>1. CASE dump' = dump
    BY <1>1, <1>2, <1>10, <2>1 DEF PastChosen, Past
  <2>2. CASE dump' = None
    <3>1. Past' = unpacked /\ Chosen' \ {dump'} = Chosen
      BY <1>1, <1>3, <1>4, <1>10, <2>2 DEF Past, Chosen, Computed
    <3> SUFFICES ASSUME NEW e \in unpacked \ cut, NEW j \in DOMAIN trace[e]
                 PROVE  \E d \in Chosen \cup cut : \E i \in DOMAIN trace[d] :
                            ShortOf[trace[d][i]] = ShortOf[trace[e][j]]
      BY <1>1, <3>1 DEF PastChosen
    <3>2. e # dump \/ j < pos
      BY <1>3
    <3>3. ShortOf[trace[e][j]] \in seen
      BY <1>2, <3>2 DEF ShortsSeen
    <3>4. ShortOf[trace[e][j]] \in Shorts
      BY <1>2, <1>3, TraceFacts DEF Shorts
    <3>5. QED
      BY <1>2, <3>3, <3>4 DEF ShortsChosen
  <2>3. QED
    BY <1>1, <2>1, <2>2
<1>13. QED
  BY <1>5, <1>6, <1>8, <1>9, <1>11, <1>12 DEF MinimizerInv
(* Every step of the runs keeps the invariant.                             *)
LEMMA MinimizerInvariance == Spec => []MinimizerInv
<1>1. Init => MinimizerInv
  BY MinimizerInit
<1>2. MinimizerInv /\ [Next]_vars => MinimizerInv'
  <2> SUFFICES ASSUME MinimizerInv, [Next]_vars
               PROVE  MinimizerInv'
    OBVIOUS
  <2>1. TypeOK /\ AtDump
    BY DEF MinimizerInv
  <2>2. CASE Start \/ Skip \/ SumUp \/ (UNCHANGED vars /\ step \in {"idle", "next"})
    <3>1. step \in {"idle", "next"} /\ dump = None
      BY <2>1, <2>2 DEF Start, Skip, SumUp, At, AtDump
    <3>2. /\ dump' = None /\ step' \in {"idle", "next"}
          /\ UNCHANGED <<inputs, folders, cut>>
      BY <2>2, <3>1 DEF Start, Skip, SumUp, At, Quit, vars, run
    <3>3. /\ arrived' \subseteq Dumps /\ todo' \subseteq arrived'
          /\ runs' \in Nat /\ new' \in BOOLEAN
      <4>1. CASE Start
        BY <2>1, <4>1 DEF Start, TypeOK
      <4>2. CASE Skip \/ SumUp \/ UNCHANGED vars
        BY <2>1, <4>2 DEF Skip, SumUp, At, Quit, vars, run, TypeOK
      <4>3. QED
        BY <2>2, <4>1, <4>2
    <3>4. QED
      BY <3>1, <3>2, <3>3, BetweenDumps
  <2>3. CASE Stop
    <3>1. CASE step = "next"
      <4>1. /\ dump = None /\ dump' = None /\ step' = "idle" /\ cut' = cut
            /\ UNCHANGED <<inputs, folders, arrived, runs>> /\ todo' = {} /\ new' = FALSE
        BY <2>1, <2>3, <3>1 DEF Stop, Quit, AtDump, folders
      <4>2. QED
        BY <2>1, <3>1, <4>1, BetweenDumps DEF TypeOK
    <3>2. CASE step # "next"
      <4>1. step \notin {"idle", "next"} /\ Quit /\ UNCHANGED <<unpacked, seen, callers>>
            /\ report' \in {report, [report EXCEPT ![dump] = "part"]}
        BY <2>3, <3>2 DEF Stop
      <4>2. QED
        BY <4>1, LeaveDump
    <3>3. QED
      BY <3>1, <3>2
  <2>4. CASE GiveUp
    <3>1. step \notin {"idle", "next"} /\ Quit /\ UNCHANGED <<unpacked, seen, callers>>
          /\ report' = report
      BY <2>4 DEF GiveUp, folders
    <3>2. QED
      BY <3>1, LeaveDump
  <2>5. CASE UNCHANGED vars /\ step \notin {"idle", "next"}
    <3>1. UNCHANGED <<trace, damaged, arrived, unpacked, seen, callers, report, runs, step,
                      todo, dump, pos, new, cut>>
      BY <2>5 DEF vars, inputs, folders, run
    <3>2. TypeOK' /\ AtDump' /\ Past' = Past /\ Chosen' = Chosen /\ Shorts' = Shorts
      BY <2>1, <3>1 DEF TypeOK, AtDump, Past, Chosen, Shorts, Computed
    <3>3. /\ \A k, d, n : Upto(k, d, n)' = Upto(k, d, n)
          /\ Stack' = Stack
      BY <3>1 DEF Upto, Stack
    <3>4. QED
      BY <3>1, <3>2, <3>3 DEF MinimizerInv, CountedSoFar, ShortsSeen, ShortsChosen,
                              PastChosen, ChosenFew, Unreported
  <2>6. QED
    BY <2>2, <2>3, <2>4, <2>5, UnpackStep, SeeStep, CountStep, FinishSteps DEF Next
<1>3. QED
  BY <1>1, <1>2, PTL DEF Spec

(* Every stack of a finished dump is counted once, no dump's stacks more    *)
(* often than they occur, and for every short stack a dump with it was      *)
(* computed, well or with a gcovr or coveralls2addr that failed, unless a   *)
(* dump with it was not finished, with no more reports than short stacks    *)
(* (minimize_stimulus.sh:68-76, 111-162): for any number of dumps, stacks   *)
(* and runs, stopped anywhere.                                              *)
THEOREM StackAccounting == Spec => []StacksAccounted
<1>1. MinimizerInv => StacksAccounted
  <2> SUFFICES ASSUME MinimizerInv
               PROVE  StacksAccounted
    OBVIOUS
  <2>1. TypeOK /\ AtDump /\ CountedSoFar /\ PastChosen /\ ChosenFew
    BY DEF MinimizerInv
  <2>2. Past \subseteq Dumps /\ cut \subseteq Past /\ dump \notin Past
    BY <2>1, TraceFacts DEF Past, TypeOK, AtDump
  <2>3. Counted
    <3> SUFFICES ASSUME NEW k \in Fulls \cup Shorts, NEW d \in Past
                 PROVE  /\ callers[k][d] <= Times(k, d)
                        /\ d \notin cut => callers[k][d] = Times(k, d)
      BY DEF Counted
    <3>1. d \in Dumps /\ Len(trace[d]) \in Nat
      BY <2>1, <2>2, TraceFacts
    <3>2. Times(k, d) = Upto(k, d, Len(trace[d])) /\ Upto(k, d, Len(trace[d])) \in Nat
      BY <2>1, <3>1, TimesFacts, UptoFacts
    <3>3. QED
      BY <2>1, <3>1, <3>2 DEF CountedSoFar
  <2>4. ASSUME NEW s \in Shorts, NEW e \in Past, Times(s, e) > 0,
               \A d \in cut : ~(Times(s, d) > 0)
        PROVE  \E d \in Past : Times(s, d) > 0 /\ Computed(d)
    <3>1. \A d \in Dumps : Times(s, d) > 0 <=> \E i \in DOMAIN trace[d] : ShortOf[trace[d][i]] = s
      BY <2>1, TimesFacts
    <3>2. e \in unpacked \ cut /\ e # dump
      BY <2>2, <2>4 DEF Past
    <3>3. PICK j \in DOMAIN trace[e] : ShortOf[trace[e][j]] = s
      BY <2>2, <2>4, <3>1
    <3>4. PICK d \in (Chosen \ {dump}) \cup cut :
                \E i \in DOMAIN trace[d] : ShortOf[trace[d][i]] = ShortOf[trace[e][j]]
      BY <2>1, <2>4, <3>2 DEF PastChosen, Past
    <3>5. d \in Dumps /\ d \in Chosen \ {dump} /\ Times(s, d) > 0
      BY <2>1, <2>2, <2>4, <3>1, <3>3, <3>4 DEF Chosen, TypeOK, Computed
    <3>6. QED
      BY <3>5 DEF Chosen, Past, Computed
  <2>5. Cardinality({d \in Past : Computed(d)}) <= Cardinality(seen \cap Shorts)
    <3> DEFINE W == {d \in Past : Computed(d)}
    <3>1. W \in SUBSET Chosen
      BY DEF Chosen, Past, Computed
    <3>2. Cardinality(W) <= Cardinality(Chosen) /\ IsFiniteSet(W)
      BY <2>1, <3>1, FiniteFolders
    <3> HIDE DEF W
    <3>3. Cardinality(W) \in Nat /\ Cardinality(Chosen) \in Nat
          /\ Cardinality(seen \cap Shorts) \in Nat
      BY <2>1, <3>2, FiniteFolders, FS_CardinalityType
    <3>4. Cardinality(W) <= Cardinality(seen \cap Shorts)
      BY <2>1, <3>2, <3>3 DEF ChosenFew
    <3>5. QED
      BY <3>4 DEF W
  <2>6. Covered
    BY <2>4, <2>5 DEF Covered
  <2>7. QED
    BY <2>3, <2>6 DEF StacksAccounted
<1>2. QED
  BY <1>1, MinimizerInvariance, PTL
=============================================================================
