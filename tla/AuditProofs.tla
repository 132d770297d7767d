---------------------------- MODULE AuditProofs -----------------------------
(***************************************************************************)
(* Proofs about AuditLists, for reports and annotated lists of any length, *)
(* whatever results they hold; and, at the end, about SharedTree, where    *)
(* the audit that makes the report runs beside builds.                     *)
(***************************************************************************)
EXTENDS AuditLists, SharedTree, SequenceTheorems, TLAPS

(***************************************************************************)
(* The inductive invariant of the filter.  FilterExact is not inductive: a *)
(* relevant result could be dropped as the duplicate of one that was never *)
(* written.  It is not, because results_seen has only the texts of results *)
(* that were written or excluded (Recording), and an excluded result is    *)
(* of an excluded place.                                                   *)
(***************************************************************************)
FilterTypes ==
    /\ report \in Seq(Results)
    /\ next \in 1 .. Len(report) + 1
    /\ out \in Seq(1 .. Len(report))
    /\ old \in Seq(Transfer!Entries)

Recording ==
    /\ \A i \in 1 .. next - 1 : Place(i) # "../" => Text(i) \in seen
    /\ \A s \in seen : \E i \in 1 .. next - 1 :
          /\ s = Text(i) /\ Place(i) # "../"
          /\ Excluded(i) \/ \E k \in 1 .. Len(out) : report[out[k]] = report[i]

Writing ==
    \A k \in 1 .. Len(out) :
        /\ out[k] < next
        /\ Place(out[k]) # "../" /\ ~Excluded(out[k]) /\ Text(out[k]) \in seen
        /\ \A l \in 1 .. k - 1 : out[l] < out[k] /\ Text(out[l]) # Text(out[k])

(***************************************************************************)
(* The inductive invariant of the transfer: every result that was looked   *)
(* up and has an id was written, what was written stands as it was         *)
(* reviewed, the entries that the search has passed do not qualify, and    *)
(* the transfer does not begin before the filter is done.                  *)
(***************************************************************************)
LookedUp ==
    /\ n \in 1 .. Len(out) + 1 /\ a \in Nat \ {0}
    /\ next <= Len(report) => n = 1 /\ a = 1 /\ list = <<>>
    /\ \A m \in 1 .. n - 1 : Filtered[m].id # Transfer!NoId =>
          \E k \in DOMAIN list : Occurs(Filtered[m], list[k].result)

Searched ==
    n <= Len(out) => \A i \in 1 .. a - 1 : i \in DOMAIN old =>
        ~Transfer!Verbatim(Filtered[n], old[i]) /\ ~Transfer!Transfers(Filtered[n], old[i])

Items == [of : 1 .. Len(out), result : Parsings, status : Transfer!Statuses]

AuditInv ==
    /\ FilterTypes /\ Recording /\ Writing /\ LookedUp /\ Searched
    /\ list \in Seq(Items)
    /\ ReviewsKept

-----------------------------------------------------------------------------
(* What the filter wrote, split at its semicolons, is as long as out.      *)
LEMMA FilteredFacts ==
    ASSUME FilterTypes
    PROVE  /\ Len(out) \in Nat /\ DOMAIN out = 1 .. Len(out)
           /\ Len(Filtered) = Len(out)
           /\ \A k \in 1 .. Len(out) : /\ out[k] \in 1 .. Len(report)
                                       /\ report[out[k]] \in Results
                                       /\ Filtered[k] = Parsed(report[out[k]])
<1>1. Len(out) \in Nat /\ DOMAIN out = 1 .. Len(out) /\ Len(report) \in Nat
  BY LenProperties DEF FilterTypes
<1>2. \A k \in 1 .. Len(out) : out[k] \in 1 .. Len(report)
  BY ElementOfSeq DEF FilterTypes
<1>3. \A k \in 1 .. Len(out) : report[out[k]] \in Results
  BY <1>2, ElementOfSeq DEF FilterTypes
<1>4. Filtered = [k \in 1 .. Len(out) |-> Parsed(report[out[k]])]
  BY <1>1 DEF Filtered
<1>5. QED
  BY <1>1, <1>2, <1>3, <1>4

(* The text of a result occurs in itself, and a review is of a result.     *)
LEMMA OccursSelf == ASSUME NEW r \in Parsings PROVE Occurs(r, r)
BY DEF Parsings, Parsed, Occurs

(* Settled, of a line x of a list made of the results f with the list o.    *)
SettledBy(x, o, f) ==
    /\ \A j \in DOMAIN o : Transfer!Own(f[x.of], o[j]) =>
          \/ x.status = o[j].status
          \/ \E i \in 1 .. j - 1 :
                /\ o[i].status = x.status
                /\ Transfer!Own(f[x.of], o[i]) \/ Transfer!Foreign(f[x.of], o[i])
    /\ x.status # "" =>
          \E i \in DOMAIN o :
             /\ o[i].status = x.status
             /\ Transfer!Own(f[x.of], o[i]) \/ Transfer!Foreign(f[x.of], o[i])

LEMMA KeptFacts ==
    /\ ReviewsKept <=> \A k \in DOMAIN list : SettledBy(list[k], old, Filtered)
    /\ ReviewsKept' <=> \A k \in DOMAIN list' : SettledBy(list'[k], old', Filtered')
<1>1. ReviewsKept <=> \A k \in DOMAIN list : SettledBy(list[k], old, Filtered)
  BY DEF ReviewsKept, Transfer!ReviewsKept, Transfer!Settled, SettledBy
<1>2. ReviewsKept' <=> \A k \in DOMAIN list' : SettledBy(list'[k], old', Filtered')
  BY DEF ReviewsKept, Transfer!ReviewsKept, Transfer!Settled, SettledBy
<1>3. QED
  BY <1>1, <1>2

LEMMA ReviewedResults ==
    {Parsed(r) : r \in {"core", "allowed driver"} \X Warnings} \subseteq Parsings
BY DEF Parsings, Results, Places

(* The scripts start with a report and a list, and nothing written.        *)
LEMMA InitAudit == ListsInit => AuditInv
<1> SUFFICES ASSUME ListsInit
             PROVE  AuditInv
  OBVIOUS
<1>1. report \in Seq(Results) /\ next = 1 /\ seen = {} /\ out = <<>>
  <2>1. MaxResults \in Nat
    BY FilterAssumption
  <2>2. PICK k \in 0 .. MaxResults : report \in [1 .. k -> Results]
    BY DEF ListsInit, Init
  <2>3. QED
    BY <2>1, <2>2, SeqDef DEF ListsInit, Init
<1>2. old \in Seq(Transfer!Entries) /\ n = 1 /\ a = 1 /\ list = <<>>
  <2>1. MaxOld \in Nat
    BY ListsAssumption
  <2>2. PICK k \in 0 .. MaxOld : old \in [1 .. k -> Transfer!Entries]
    BY DEF ListsInit, Transfer!Init
  <2>3. QED
    BY <2>1, <2>2, SeqDef DEF ListsInit, Transfer!Init
<1>3. FilterTypes
  BY <1>1, <1>2, LenProperties DEF FilterTypes
<1>4. Recording /\ Writing
  BY <1>1 DEF Recording, Writing
<1>5. LookedUp
  BY <1>1, <1>2 DEF LookedUp
<1>6. ReviewsKept /\ Searched /\ list \in Seq(Items)
  <2>1. list \in Seq(Items) /\ DOMAIN list = {}
    BY <1>2
  <2>2. QED
    BY <1>2, <2>1 DEF ReviewsKept, Transfer!ReviewsKept, Searched
<1>7. QED
  BY <1>3, <1>4, <1>5, <1>6 DEF AuditInv

(* One result of the report is dropped, excluded or written.               *)
LEMMA FilteringKeeps == AuditInv /\ Filtering => AuditInv'
<1> SUFFICES ASSUME AuditInv, Filtering
             PROVE  AuditInv'
  OBVIOUS
<1>0. /\ FilterTypes /\ Recording /\ Writing /\ LookedUp /\ Searched /\ ReviewsKept
      /\ UNCHANGED <<report, old, n, a, list>>
      /\ next \in Nat /\ next \in 1 .. Len(report) /\ next' = next + 1
      /\ Len(report) \in Nat /\ Len(out) \in Nat
      /\ n = 1 /\ a = 1 /\ list = <<>>
  BY LenProperties
  DEF AuditInv, Filtering, Next, Drop, Exclude, Write, Looks, FilterTypes, LookedUp
<1>1. \A i : (Text(i))' = Text(i) /\ (Place(i))' = Place(i) /\ (Excluded(i))' = Excluded(i)
  BY <1>0 DEF Text, Place, Excluded
<1>2. \A i \in 1 .. next : i \in 1 .. next - 1 \/ i = next
  BY <1>0
<1>a. ReviewsKept' /\ Searched' /\ (list \in Seq(Items))'
  BY <1>0 DEF ReviewsKept, Transfer!ReviewsKept, Searched
<1>3. CASE Drop \/ Exclude
  <2>1. out' = out
    BY <1>3 DEF Drop, Exclude
  <2>2. FilterTypes' /\ LookedUp'
    BY <1>0, <2>1 DEF FilterTypes, LookedUp
  <2>3. \/ seen' = seen /\ (Text(next) \in seen \/ Place(next) = "../")
        \/ seen' = seen \cup {Text(next)} /\ Place(next) # "../" /\ Excluded(next)
    BY <1>3 DEF Drop, Exclude, Recorded
  <2>4. Recording'
    <3>1. \A i \in 1 .. next : Place(i) # "../" => Text(i) \in seen'
      BY <1>0, <1>2, <2>3 DEF Recording
    <3>2. \A s \in seen' : \E i \in 1 .. next :
              /\ s = Text(i) /\ Place(i) # "../"
              /\ Excluded(i) \/ \E k \in 1 .. Len(out) : report[out[k]] = report[i]
      BY <1>0, <2>3 DEF Recording
    <3>3. QED
      BY <1>0, <1>1, <2>1, <3>1, <3>2 DEF Recording
  <2>5. Writing'
    BY <1>0, <1>1, <2>1, <2>3, FilteredFacts DEF Writing
  <2>6. QED
    BY <1>0, <1>a, <2>2, <2>4, <2>5 DEF AuditInv
<1>4. CASE Write
  <2>1. /\ out' = Append(out, next) /\ seen' = seen \cup {Text(next)}
        /\ Text(next) \notin seen /\ Place(next) # "../" /\ ~Excluded(next)
    BY <1>4 DEF Write, Recorded
  <2>2. /\ out' \in Seq(1 .. Len(report)) /\ Len(out') = Len(out) + 1
        /\ out'[Len(out) + 1] = next
        /\ \A k \in 1 .. Len(out) : out'[k] = out[k]
    BY <1>0, <2>1, AppendProperties DEF FilterTypes
  <2>3. FilterTypes'
    BY <1>0, <2>2 DEF FilterTypes
  <2>4. LookedUp'
    BY <1>0, <2>2 DEF LookedUp
  <2>5. Recording'
    <3>1. \A i \in 1 .. next : Place(i) # "../" => Text(i) \in seen'
      BY <1>0, <1>2, <2>1 DEF Recording
    <3>2. ASSUME NEW s \in seen'
          PROVE  \E i \in 1 .. next :
                    /\ s = Text(i) /\ Place(i) # "../"
                    /\ Excluded(i) \/ \E k \in 1 .. Len(out') : report[out'[k]] = report[i]
      <4>1. CASE s = Text(next)
        BY <1>0, <2>1, <2>2, <4>1
      <4>2. CASE s \in seen
        BY <1>0, <2>2, <4>2 DEF Recording
      <4>3. QED
        BY <2>1, <3>2, <4>1, <4>2
    <3>3. QED
      BY <1>0, <1>1, <3>1, <3>2 DEF Recording
  <2>6. Writing'
    <3> SUFFICES ASSUME NEW k \in 1 .. Len(out) + 1
                 PROVE  /\ out'[k] < next + 1
                        /\ Place(out'[k]) # "../" /\ ~Excluded(out'[k]) /\ Text(out'[k]) \in seen'
                        /\ \A l \in 1 .. k - 1 : out'[l] < out'[k] /\ Text(out'[l]) # Text(out'[k])
      BY <1>0, <1>1, <2>2 DEF Writing
    <3>1. CASE k = Len(out) + 1
      BY <1>0, <2>1, <2>2, <3>1 DEF Writing
    <3>2. CASE k \in 1 .. Len(out)
      BY <1>0, <2>1, <2>2, <3>2, FilteredFacts DEF Writing
    <3>3. QED
      BY <1>0, <3>1, <3>2
  <2>7. QED
    BY <1>0, <1>a, <2>3, <2>4, <2>5, <2>6 DEF AuditInv
<1>5. QED
  BY <1>3, <1>4 DEF Filtering, Next

(* One comparison of the transfer, or the end of one search.               *)
LEMMA TransferringKeeps == AuditInv /\ Transferring => AuditInv'
<1> SUFFICES ASSUME AuditInv, Transferring
             PROVE  AuditInv'
  OBVIOUS
<1>a. UNCHANGED <<report, next, seen, out, old>> /\ next > Len(report)
  BY DEF Transferring, vars,
         Transfer!Next, Transfer!SkipResult, Transfer!NextEntry, Transfer!Take, Transfer!NotFound
<1>b. Filtered' = Filtered
  BY <1>a DEF Filtered, Parsed
<1>0. /\ FilterTypes /\ Recording /\ Writing /\ LookedUp /\ Searched /\ ReviewsKept
      /\ UNCHANGED <<report, next, seen, out, old>> /\ next > Len(report)
      /\ Filtered' = Filtered /\ list \in Seq(Items)
      /\ Len(out) \in Nat /\ Len(Filtered) = Len(out)
      /\ Len(list) \in Nat /\ DOMAIN list = 1 .. Len(list)
      /\ DOMAIN old = 1 .. Len(old) /\ Len(old) \in Nat
      /\ n \in 1 .. Len(out) + 1 /\ a \in Nat \ {0}
      /\ next \in Nat /\ Len(report) \in Nat
  <2>1. FilterTypes /\ LookedUp /\ list \in Seq(Items)
    BY DEF AuditInv
  <2>2. /\ Len(list) \in Nat /\ DOMAIN list = 1 .. Len(list) /\ Len(report) \in Nat
        /\ DOMAIN old = 1 .. Len(old) /\ Len(old) \in Nat
    BY <2>1, LenProperties DEF FilterTypes
  <2>3. n \in 1 .. Len(out) + 1 /\ a \in Nat \ {0} /\ next \in Nat
    BY <2>1, <2>2 DEF FilterTypes, LookedUp
  <2>4. QED
    BY <1>a, <1>b, <2>1, <2>2, <2>3, FilteredFacts DEF AuditInv
<1>1. FilterTypes' /\ Recording' /\ Writing' /\ Items' = Items
  BY <1>0 DEF FilterTypes, Recording, Writing, Text, Place, Excluded, Items
<1>2. CASE Transfer!SkipResult \/ Transfer!NextEntry
  <2>1. /\ list' = list
        /\ \/ n' = n /\ a' = a + 1
              /\ ~Transfer!Verbatim(Filtered[n], old[a]) /\ ~Transfer!Transfers(Filtered[n], old[a])
           \/ n' = n + 1 /\ n <= Len(out) /\ Filtered[n].id = Transfer!NoId /\ a' = 1
        /\ a' \in Nat \ {0}
    BY <1>0, <1>2 DEF Transfer!SkipResult, Transfer!NextEntry
  <2>2. LookedUp'
    <3>1. n' \in 1 .. Len(out) + 1 /\ out' = out /\ report' = report /\ next' = next
      BY <1>0, <2>1
    <3>2. \A m \in 1 .. n' - 1 : m \in 1 .. n - 1 \/ (m = n /\ Filtered[n].id = Transfer!NoId)
      BY <1>0, <2>1
    <3>3. \A m \in 1 .. n' - 1 : Filtered[m].id # Transfer!NoId =>
              \E k \in DOMAIN list : Occurs(Filtered[m], list[k].result)
      BY <1>0, <3>2 DEF LookedUp
    <3>4. ~(next <= Len(report))
      BY <1>0
    <3>5. QED
      BY <1>0, <2>1, <3>1, <3>3, <3>4 DEF LookedUp
  <2>3. Searched'
    <3> SUFFICES ASSUME n' <= Len(out), NEW i \in 1 .. a' - 1, i \in DOMAIN old
                 PROVE  /\ ~Transfer!Verbatim(Filtered[n'], old[i])
                        /\ ~Transfer!Transfers(Filtered[n'], old[i])
      BY <1>0 DEF Searched, Transfer!Verbatim, Transfer!Transfers, Transfer!MsrPair
    <3>1. CASE Transfer!NextEntry
      <4>1. n' = n /\ a' = a + 1
        BY <3>1 DEF Transfer!NextEntry
      <4>2. i \in 1 .. a - 1 \/ i = a
        BY <1>0, <4>1
      <4>3. ~Transfer!Verbatim(Filtered[n], old[a]) /\ ~Transfer!Transfers(Filtered[n], old[a])
        BY <3>1 DEF Transfer!NextEntry
      <4>4. QED
        BY <1>0, <4>1, <4>2, <4>3 DEF Searched
    <3>2. CASE Transfer!SkipResult
      <4>1. a' = 1
        BY <3>2 DEF Transfer!SkipResult
      <4>2. QED
        BY <4>1
    <3>3. QED
      BY <1>2, <3>1, <3>2
  <2>4. ReviewsKept'
    BY <1>0, <2>1, KeptFacts
  <2>5. QED
    BY <1>0, <1>1, <2>1, <2>2, <2>3, <2>4 DEF AuditInv
<1>3. CASE Transfer!Take \/ Transfer!NotFound
  <2>0. n \in 1 .. Len(out) /\ Filtered[n].id # Transfer!NoId /\ Filtered[n] \in Parsings
    <3>1. n \in 1 .. Len(out) /\ Filtered[n].id # Transfer!NoId
      BY <1>0, <1>3 DEF Transfer!Take, Transfer!NotFound, Transfer!Looking
    <3>2. QED
      BY <1>0, <3>1, FilteredFacts DEF Parsings
  <2>1. PICK result \in Parsings, status \in Transfer!Statuses :
           /\ list' = Append(list, [of |-> n, result |-> result, status |-> status])
           /\ n' = n + 1 /\ a' = 1
           /\ Occurs(Filtered[n], result)
           /\ SettledBy([of |-> n, result |-> result, status |-> status], old, Filtered)
    <3>1. CASE Transfer!NotFound
      <4>1. "" \in Transfer!Statuses
        BY DEF Transfer!Statuses
      <4>2. SettledBy([of |-> n, result |-> Filtered[n], status |-> ""], old, Filtered)
        <5>1. ASSUME NEW j \in DOMAIN old
              PROVE  ~Transfer!Own(Filtered[n], old[j])
          <6>1. j \in 1 .. a - 1
            BY <1>0, <3>1, <5>1 DEF Transfer!NotFound
          <6>2. ~Transfer!Verbatim(Filtered[n], old[j]) /\ ~Transfer!Transfers(Filtered[n], old[j])
            BY <1>0, <2>0, <6>1 DEF Searched
          <6>3. QED
            BY <2>0, <6>2 DEF Transfer!Own, Transfer!Transfers
        <5>2. QED
          BY <5>1 DEF SettledBy
      <4>3. /\ list' = Append(list, [of |-> n, result |-> Filtered[n], status |-> ""])
            /\ n' = n + 1 /\ a' = 1
        BY <1>0, <3>1 DEF Transfer!NotFound, Transfer!GiveUp, Transfer!Emit
      <4>4. Occurs(Filtered[n], Filtered[n])
        BY <2>0, OccursSelf
      <4>5. QED
        BY <2>0, <4>1, <4>2, <4>3, <4>4
    <3>2. CASE Transfer!Take
      <4>1. a \in 1 .. Len(old) /\ old[a] \in Transfer!Entries
        BY <1>0, <3>2, ElementOfSeq DEF FilterTypes, Transfer!Take
      <4>2. old[a].status \in Transfer!Statuses /\ old[a].result \in Parsings
        BY <4>1, ReviewedResults DEF Transfer!Entries
      <4>3. ASSUME NEW result,
                   Transfer!Verbatim(Filtered[n], old[a]) \/ Transfer!Transfers(Filtered[n], old[a])
            PROVE  SettledBy([of |-> n, result |-> result, status |-> old[a].status], old, Filtered)
        <5> DEFINE r == Filtered[n]
        <5>1. Transfer!Own(r, old[a]) \/ Transfer!Foreign(r, old[a])
          BY <4>3 DEF Transfer!Own, Transfer!Foreign, Transfer!Transfers
        <5>2. ASSUME NEW j \in DOMAIN old, Transfer!Own(r, old[j])
              PROVE  old[a].status = old[j].status \/ a \in 1 .. j - 1
          <6>1. Transfer!Verbatim(r, old[j]) \/ Transfer!Transfers(r, old[j])
            BY <2>0, <5>2 DEF Transfer!Own, Transfer!Transfers
          <6>2. j \notin 1 .. a - 1
            BY <1>0, <2>0, <5>2, <6>1 DEF Searched
          <6>3. QED
            BY <1>0, <4>1, <5>2, <6>2
        <5>3. a \in DOMAIN old
          BY <1>0, <4>1
        <5>4. QED
          BY <5>1, <5>2, <5>3 DEF SettledBy
      <4>4. CASE Transfer!Verbatim(Filtered[n], old[a])
        <5>1. /\ list' = Append(list, [of |-> n, result |-> old[a].result, status |-> old[a].status])
              /\ n' = n + 1 /\ a' = 1
          BY <3>2, <4>4 DEF Transfer!Take, Transfer!Emit
        <5>2. Occurs(Filtered[n], old[a].result)
          BY <4>4 DEF Transfer!Verbatim
        <5>3. QED
          BY <4>2, <4>3, <4>4, <5>1, <5>2
      <4>5. CASE ~Transfer!Verbatim(Filtered[n], old[a])
        <5>1. /\ Transfer!Transfers(Filtered[n], old[a])
              /\ list' = Append(list, [of |-> n, result |-> Filtered[n], status |-> old[a].status])
              /\ n' = n + 1 /\ a' = 1
          BY <3>2, <4>5 DEF Transfer!Take, Transfer!Emit
        <5>2. Occurs(Filtered[n], Filtered[n])
          BY <2>0, OccursSelf
        <5>3. QED
          BY <2>0, <4>2, <4>3, <5>1, <5>2
      <4>6. QED
        BY <4>4, <4>5
    <3>3. QED
      BY <1>3, <3>1, <3>2
  <2> DEFINE x == [of |-> n, result |-> result, status |-> status]
  <2>2. x \in Items /\ x.result = result
    BY <2>0, <2>1 DEF Items
  <2>a. SettledBy(x, old, Filtered) /\ list' = Append(list, x)
    BY <2>1
  <2> HIDE DEF x
  <2>3. /\ list' \in Seq(Items) /\ Len(list') = Len(list) + 1
        /\ list'[Len(list) + 1] = x /\ \A k \in 1 .. Len(list) : list'[k] = list[k]
        /\ DOMAIN list' = 1 .. Len(list) + 1
    BY <1>0, <2>2, <2>a, AppendProperties, LenProperties
  <2>4. LookedUp'
    <3>1. \A m \in 1 .. n : m \in 1 .. n - 1 \/ m = n
      BY <1>0
    <3>3. ASSUME NEW m \in 1 .. n, Filtered[m].id # Transfer!NoId
          PROVE  \E k \in DOMAIN list' : Occurs(Filtered[m], list'[k].result)
      <4>1. CASE m = n
        <5>1. Len(list) + 1 \in DOMAIN list'
          BY <1>0, <2>3
        <5>2. Occurs(Filtered[m], list'[Len(list) + 1].result)
          BY <2>1, <2>2, <2>3, <4>1
        <5>3. QED
          BY <5>1, <5>2
      <4>2. CASE m \in 1 .. n - 1
        <5>1. PICK k \in DOMAIN list : Occurs(Filtered[m], list[k].result)
          BY <1>0, <3>3, <4>2 DEF LookedUp
        <5>2. k \in DOMAIN list' /\ list'[k] = list[k]
          BY <1>0, <2>3, <5>1
        <5>3. QED
          BY <5>1, <5>2
      <4>3. QED
        BY <3>1, <4>1, <4>2
    <3>4. ~(next <= Len(report)) /\ n' - 1 = n /\ n' \in 1 .. Len(out) + 1 /\ a' \in Nat \ {0}
      BY <1>0, <2>0, <2>1
    <3>5. QED
      BY <1>0, <3>3, <3>4 DEF LookedUp
  <2>5. ReviewsKept'
    <3>1. \A k \in DOMAIN list : SettledBy(list[k], old, Filtered)
      BY <1>0, KeptFacts
    <3>2. \A k \in DOMAIN list' : SettledBy(list'[k], old, Filtered)
      <4>1. \A k \in DOMAIN list' : k \in DOMAIN list \/ k = Len(list) + 1
        BY <1>0, <2>3
      <4>2. QED
        BY <1>0, <2>a, <2>3, <3>1, <4>1
    <3>3. QED
      BY <1>0, <3>2, KeptFacts
  <2>6. Searched'
    BY <2>1 DEF Searched
  <2>7. QED
    BY <1>1, <2>3, <2>4, <2>5, <2>6 DEF AuditInv
<1>4. QED
  BY <1>2, <1>3 DEF Transferring, Transfer!Next

(* Whatever the report and the annotated list are, the invariant holds.    *)
THEOREM AuditInvAlways == ListsSpec => []AuditInv
<1>1. AuditInv /\ UNCHANGED allVars => AuditInv'
  <2> SUFFICES ASSUME AuditInv, UNCHANGED allVars
               PROVE  AuditInv'
    OBVIOUS
  <2>1. UNCHANGED <<report, next, seen, out, old, n, a, list, Filtered>>
    BY DEF allVars, vars, Filtered, Parsed
  <2>2. FilterTypes' /\ Recording' /\ Writing'
    BY <2>1 DEF AuditInv, FilterTypes, Recording, Writing, Text, Place, Excluded
  <2>3. LookedUp' /\ (list \in Seq(Items))'
    BY <2>1 DEF AuditInv, LookedUp, Items
  <2>a. Searched'
    BY <2>1 DEF AuditInv, Searched, Transfer!Verbatim, Transfer!Transfers, Transfer!MsrPair
  <2>4. ReviewsKept'
    BY <2>1, KeptFacts DEF AuditInv
  <2>5. QED
    BY <2>2, <2>3, <2>a, <2>4 DEF AuditInv
<1>2. AuditInv /\ [ListsNext]_allVars => AuditInv'
  BY <1>1, FilteringKeeps, TransferringKeeps DEF ListsNext
<1>3. QED
  BY <1>2, InitAudit, PTL DEF ListsSpec

-----------------------------------------------------------------------------
(* The filter is exact so far as it went.                                  *)
LEMMA ExactWhen == AuditInv => FilterExact
<1> SUFFICES ASSUME AuditInv
             PROVE  FilterExact
  OBVIOUS
<1>0. /\ FilterTypes /\ Recording /\ Writing
      /\ Len(out) \in Nat /\ DOMAIN out = 1 .. Len(out) /\ Len(report) \in Nat
      /\ \A k \in 1 .. Len(out) : out[k] \in 1 .. Len(report) /\ report[out[k]] \in Results
      /\ next \in 1 .. Len(report) + 1
  BY FilteredFacts, LenProperties DEF AuditInv, FilterTypes
<1>1. ASSUME NEW i \in 1 .. next - 1, Relevant(report[i])
      PROVE  report[i] \in Written
  <2>1. Place(i) # "../" /\ Place(i) # "excluded"
    BY <1>1 DEF Relevant, Place
  <2>2. PICK j \in 1 .. next - 1 :
           /\ Text(i) = Text(j)
           /\ Excluded(j) \/ \E k \in 1 .. Len(out) : report[out[k]] = report[j]
    BY <1>0, <1>1, <2>1 DEF Recording
  <2>3. report[i] = report[j]
    BY <2>2 DEF Text
  <2>4. ~Excluded(j)
    BY <2>1, <2>3 DEF Excluded, Place
  <2>5. QED
    BY <1>0, <2>2, <2>3, <2>4 DEF Written
<1>2. ASSUME NEW k \in DOMAIN out, out[k] > 1
      PROVE  /\ Relevant(report[out[k]])
             /\ \A l \in 1 .. k - 1 : /\ out[l] < out[k]
                                      /\ out[l] > 1 => report[out[l]] # report[out[k]]
  <2>1. report[out[k]][1] \in Places
    BY <1>0, <1>2 DEF Results
  <2>2. Relevant(report[out[k]])
    BY <1>0, <1>2, <2>1 DEF Writing, Excluded, Place, Relevant, Places
  <2>3. \A l \in 1 .. k - 1 : out[l] < out[k] /\ Text(out[l]) # Text(out[k])
    BY <1>0, <1>2 DEF Writing
  <2>4. \A l \in 1 .. k - 1 : out[l] > 1 => report[out[l]] # report[out[k]]
    BY <1>0, <1>2, <2>3 DEF Text
  <2>5. QED
    BY <2>2, <2>3, <2>4
<1>3. QED
  BY <1>1, <1>2 DEF FilterExact

(* The filtered list has every relevant result of the report, and from the *)
(* second one on nothing else, nothing twice and in order                  *)
(* (process_smatch_output.py:54-79).                                       *)
THEOREM SpecFilterExact == ListsSpec => []FilterExact
BY AuditInvAlways, ExactWhen, PTL

(* A result has the status of the first entry of the list that is of it or *)
(* speaks for it, and none if there is no such entry                       *)
(* (transfer_results.py:65-133).                                           *)
THEOREM SpecReviewsKept == ListsSpec => []ReviewsKept
<1>1. AuditInv => ReviewsKept
  BY DEF AuditInv
<1>2. QED
  BY <1>1, AuditInvAlways, PTL

(* At the end a reviewer is shown every relevant result of the report that *)
(* bears an id (process_smatch_output.py:54-79,                            *)
(* transfer_results.py:50-133).                                            *)
THEOREM SpecAuditComplete == ListsSpec => []AuditComplete
<1>1. AuditInv => AuditComplete
  <2> SUFFICES ASSUME AuditInv, next > Len(report), n > Len(Filtered),
                      NEW i \in DOMAIN report, Relevant(report[i]),
                      report[i][2].id # Transfer!NoId
               PROVE  \E k \in DOMAIN list : Occurs(Parsed(report[i]), list[k].result)
    BY DEF AuditComplete
  <2>1. /\ FilterTypes /\ LookedUp /\ Len(report) \in Nat /\ DOMAIN report = 1 .. Len(report)
        /\ Len(out) \in Nat /\ DOMAIN out = 1 .. Len(out) /\ Len(Filtered) = Len(out)
    BY FilteredFacts, LenProperties DEF AuditInv, FilterTypes
  <2>2. i \in 1 .. next - 1 /\ n = Len(out) + 1
    BY <2>1 DEF FilterTypes, LookedUp
  <2>3. PICK k \in 1 .. Len(out) : report[out[k]] = report[i]
    BY <2>1, <2>2, ExactWhen DEF FilterExact, Written
  <2>4. Filtered[k] = Parsed(report[i])
    BY <2>1, <2>3, FilteredFacts
  <2>5. Filtered[k].id # Transfer!NoId
    BY <2>4 DEF Parsed
  <2>6. QED
    BY <2>1, <2>2, <2>4, <2>5 DEF LookedUp
<1>2. QED
  BY <1>1, AuditInvAlways, PTL

-----------------------------------------------------------------------------
(* SharedTree, the audit and the builds in one kernel tree, for all        *)
(* numbers of audits, of versions of the user's .config and of builds.     *)

Confs == {None, Audit, Torn, Default} \cup (1 .. MaxEdits)
AuditSteps ==
    {"idle", "backup", "open", "install", "clean", "start", "build", "collect", "lists", "deliver",
     "deliver lists", "restore", "rewrite", "remove"}
BuildStages == {"clean", "configure", "compile", "done", "unclean", "failed"}

TreeTypes ==
    /\ user \in 0 .. MaxEdits /\ config \in Confs /\ backup \in Confs /\ orphans \subseteq Confs
    /\ dirty \in BOOLEAN
    /\ audits \in 0 .. MaxAudits /\ given \in Confs /\ used \in Confs
    /\ step \in AuditSteps
    /\ build \in [Builds -> BuildStages]
    /\ wiped \subseteq Confs /\ intruded \subseteq Builds

-----------------------------------------------------------------------------
(* The inductive invariant.                                                *)

(* Copies of .config apart from the one in place.                          *)
Kept == {None, backup} \cup orphans \cup wiped

(* There is a backup only while an audit with another .config runs; and    *)
(* then what the user wrote is kept elsewhere than in .config.             *)
BackedUp ==
    /\ backup # None => step \notin {"idle", "backup"} /\ user \in Kept
    /\ step \in {"open", "install"} => user \in Kept
    /\ step \in {"rewrite", "remove"} => backup # None

(* While it is restored, it is in .config or was removed from there.       *)
Restoring ==
    /\ step = "rewrite" => config # None \/ backup \in wiped
    /\ step = "remove"  => backup \in {config} \cup wiped

(* The configuration in place at each step until the build begins.         *)
Asked ==
    /\ step \in {"backup", "open", "install"} => given = Audit
    /\ step = "install" => config \in {None, Torn}
    /\ step = "clean" => config \in {None, given}
    /\ step = "start" => config \in {None, given, Default}
    /\ step \in {"build", "collect", "lists", "deliver", "deliver lists", "restore"} =>
           used \in {given, Default}

(* Which reports are those of the audit under way.                         *)
Reported ==
    /\ step \in {"start", "build"} => frags = {} \/ frags = {audits}
    /\ step = "collect" => frags = {audits}
    /\ step \in {"lists", "deliver"} => warns = {audits}
    /\ step \in {"deliver", "deliver lists"} => lists = {audits}
    /\ step \in {"deliver lists", "restore"} => delivered = {audits}
    /\ step = "restore" => outLists = {audits}

(* A build that nobody intruded on has the tree as its mrproper left it.   *)
TreeClean == \A b \in Builds \ intruded : b \in AtWork => config = None /\ ~dirty

TreeInv ==
    /\ TreeTypes /\ ConfigNotLost /\ BackedUp /\ Restoring /\ Asked /\ Reported
    /\ TreeClean /\ BuildsApart

-----------------------------------------------------------------------------
(* What the audit and the builds do.                                       *)

(* At first the tree has the configuration of the user and no audit runs.  *)
LEMMA InitTreeInv == TreeInit => TreeInv
<1> SUFFICES ASSUME TreeInit
             PROVE  TreeInv
  OBVIOUS
<1>1. TreeTypes
  BY AuditAssumption DEF TreeInit, AuditInit, TreeTypes, Confs, AuditSteps, BuildStages, None
<1>2. ConfigNotLost /\ BackedUp /\ Restoring /\ Asked /\ Reported
  BY DEF TreeInit, AuditInit, ConfigNotLost, BackedUp, Restoring, Asked, Reported
<1>3. TreeClean /\ BuildsApart
  BY DEF TreeInit, TreeClean, AtWork, BuildsApart
<1>4. QED
  BY <1>1, <1>2, <1>3 DEF TreeInv

(* Every step of the audit and the user leaves the builds as they are.     *)
LEMMA OtherTypes == ASSUME TreeInv, Other PROVE TreeTypes'
<1>1. /\ TreeTypes /\ AuditNext /\ UNCHANGED <<build, wiped>>
      /\ MaxAudits \in Nat /\ MaxEdits \in Nat
  BY AuditAssumption DEF TreeInv, Other
<1>2. AtWork \subseteq Builds
  BY DEF AtWork
<1>3. intruded' \subseteq Builds
  BY <1>1, <1>2 DEF Other, TreeTypes
<1>4. /\ user' \in 0 .. MaxEdits /\ config' \in Confs /\ backup' \in Confs
      /\ orphans' \subseteq Confs
      /\ dirty' \in BOOLEAN /\ audits' \in 0 .. MaxAudits /\ given' \in Confs /\ used' \in Confs
      /\ step' \in AuditSteps
  <2> USE <1>1 DEF TreeTypes, Confs, AuditSteps, conf, args, reports, Step
  <2>1. CASE Edit
    BY <2>1 DEF Edit
  <2>2. CASE Start
    <3>1. audits' = audits + 1 /\ audits < MaxAudits
      BY <2>2 DEF Start
    <3>2. given' \in {config, Audit} /\ step' \in AuditSteps
      BY <2>2 DEF Start
    <3>3. UNCHANGED <<user, config, backup, orphans, dirty, used>>
      BY <2>2 DEF Start
    <3> HIDE DEF AuditSteps
    <3>4. QED
      BY <3>1, <3>2, <3>3
  <2>3. CASE Stop
    BY <2>3 DEF Stop
  <2>4. CASE Backup \/ Open \/ Install
    BY <2>4 DEF Backup, Saved, Open, Install, Redirect, InPlace, Installed
  <2>5. CASE Reopen \/ Restore \/ Remove
    BY <2>5 DEF Reopen, Restore, Remove, Redirect, InPlace
  <2>6. CASE Clean \/ StartBuild \/ Build
    BY <2>6 DEF Clean, StartBuild, Build
  <2>7. CASE Collect \/ MakeLists \/ Deliver \/ DeliverLists
    BY <2>7 DEF Collect, MakeLists, Deliver, DeliverLists
  <2>8. QED
    BY <2>1, <2>2, <2>3, <2>4, <2>5, <2>6, <2>7 DEF AuditNext
<1>5. QED
  BY <1>1, <1>3, <1>4 DEF TreeTypes

(* What the user wrote is kept when .config is written over, and a backup  *)
(* is removed only when it is back in place.                               *)
LEMMA OtherConfig ==
    ASSUME TreeInv, Other
    PROVE  ConfigNotLost' /\ BackedUp' /\ Restoring'
<1>1. /\ TreeTypes /\ ConfigNotLost /\ BackedUp /\ Restoring /\ AuditNext /\ UNCHANGED wiped
  BY DEF TreeInv, Other
<1>2. user \in Nat /\ None = 0 /\ Torn # None /\ Audit # None
  BY <1>1 DEF TreeTypes, None, Torn, Audit
<1> USE <1>1, <1>2 DEF ConfigNotLost, BackedUp, Restoring, Kept, conf, Step
<1>3. CASE Edit
  BY <1>3 DEF Edit, None
<1>4. CASE Start
  BY <1>4 DEF Start
<1>5. CASE Stop
  BY <1>5 DEF Stop
<1>6. CASE Backup
  BY <1>6 DEF Backup, Saved
<1>7. CASE Open
  BY <1>7 DEF Open, Redirect
<1>8. CASE Install
  BY <1>8 DEF Install, Redirect, InPlace
<1>9. CASE Reopen
  BY <1>9 DEF Reopen, Redirect
<1>10. CASE Restore
  BY <1>10 DEF Restore, Redirect, InPlace
<1>11. CASE Remove
  BY <1>11 DEF Remove
<1>12. CASE Clean
  BY <1>12 DEF Clean
<1>13. CASE StartBuild \/ Build \/ Collect \/ MakeLists \/ Deliver \/ DeliverLists
  BY <1>13 DEF StartBuild, Build, Collect, MakeLists, Deliver, DeliverLists
<1>14. QED
  BY <1>3, <1>4, <1>5, <1>6, <1>7, <1>8, <1>9, <1>10, <1>11, <1>12, <1>13 DEF AuditNext

(* The reports are made of those of the step before.                       *)
LEMMA OtherReports == ASSUME TreeInv, Other PROVE Asked' /\ Reported'
<1>1. Asked /\ Reported /\ BackedUp /\ AuditNext
  BY DEF TreeInv, Other
<1> USE <1>1 DEF Asked, Reported, conf, args, reports, Step
<1>2. CASE Edit \/ Start
  BY <1>2 DEF Edit, Start
<1>3. CASE Stop
  BY <1>3 DEF Stop
<1>4. CASE Backup \/ Open \/ Install
  BY <1>4 DEF Backup, Open, Install, Redirect, InPlace, Installed
<1>5. CASE Reopen \/ Restore \/ Remove
  BY <1>5 DEF Reopen, Restore, Remove, Redirect
<1>6. CASE Clean
  BY <1>6 DEF Clean, Leftovers
<1>7. CASE StartBuild \/ Build
  BY <1>7 DEF StartBuild, Build
<1>8. CASE Collect \/ MakeLists
  BY <1>8 DEF Collect, MakeLists
<1>9. CASE Deliver \/ DeliverLists
  BY <1>9 DEF Deliver, DeliverLists
<1>10. QED
  BY <1>2, <1>3, <1>4, <1>5, <1>6, <1>7, <1>8, <1>9 DEF AuditNext

(* A step of an audit or an edit counts the builds at work as intruded on, *)
(* and on no other does it change the tree.                                *)
LEMMA OtherBuilds == ASSUME TreeInv, Other PROVE TreeClean' /\ BuildsApart'
<1>1. /\ TreeClean /\ BuildsApart /\ UNCHANGED build
      /\ intruded' = IF <<config', dirty'>> # <<config, dirty>>
                     THEN intruded \cup AtWork ELSE intruded
  BY DEF TreeInv, Other
<1>2. AtWork' = AtWork
  BY <1>1 DEF AtWork
<1>3. QED
  BY <1>1, <1>2 DEF TreeClean, BuildsApart

-----------------------------------------------------------------------------
(* A build's steps.                                                        *)
OneBuild(b) == Mrproper(b) \/ Configure(b) \/ Compile(b) \/ Fail(b)

(* A build moves on; either it cleans the tree, with .config, or it leaves *)
(* the tree alone.                                                         *)
LEMMA BuildFrame ==
    ASSUME TreeInv, NEW b \in Builds, OneBuild(b)
    PROVE  /\ UNCHANGED <<user, backup, orphans, audits, given, used, step, frags, warns, lists,
                          delivered, outLists, intruded>>
           /\ build' \in [Builds -> BuildStages]
           /\ \A c \in Builds \ {b} : build'[c] = build[c]
           /\ Cleaned \/ UNCHANGED <<config, dirty, wiped>>
           /\ build'[b] \in {"configure", "compile", "done", "unclean", "failed"}
<1>1. build \in [Builds -> BuildStages]
  BY DEF TreeInv, TreeTypes
<1>2. ASSUME NEW from, NEW to \in BuildStages, BuildStep(b, from, to)
      PROVE  /\ UNCHANGED <<user, backup, orphans, audits, given, used, step, frags, warns, lists,
                            delivered, outLists, intruded>>
             /\ build' \in [Builds -> BuildStages] /\ build'[b] = to
             /\ \A c \in Builds \ {b} : build'[c] = build[c]
  BY <1>1, <1>2 DEF BuildStep, args, reports
<1>3. QED
  BY <1>2 DEF OneBuild, Mrproper, Configure, Compile, MakeApart, Fail, BuildStages

(* A step of a build preserves the invariant: make mrproper removes the    *)
(* configuration wherever an audit is.                                     *)
LEMMA BuildKeeps ==
    ASSUME TreeInv, NEW b \in Builds, OneBuild(b)
    PROVE  TreeInv'
<1>1. /\ TreeTypes /\ ConfigNotLost /\ BackedUp /\ Restoring /\ Asked /\ Reported
      /\ TreeClean /\ BuildsApart
  BY DEF TreeInv
<1>2. /\ \/ config' = None /\ dirty' = FALSE
            /\ wiped' = wiped \cup {config} \cup (IF step = "rewrite" THEN {backup} ELSE {})
         \/ UNCHANGED <<config, dirty, wiped>>
  BY BuildFrame DEF Cleaned
<1>3. TreeTypes'
  BY <1>1, <1>2, BuildFrame DEF TreeTypes, Confs
<1>4. ConfigNotLost' /\ BackedUp'
  BY <1>1, <1>2, BuildFrame DEF ConfigNotLost, BackedUp, Kept
<1>5. Restoring'
  BY <1>1, <1>2, BuildFrame DEF Restoring
<1>6. Asked' /\ Reported'
  BY <1>1, <1>2, BuildFrame DEF Asked, Reported
<1>7. TreeClean' /\ BuildsApart'
  <2>1. CASE Mrproper(b)
    <3>1. config' = None /\ ~dirty' /\ build'[b] = "configure" /\ UNCHANGED intruded
      BY <1>1, <2>1 DEF Mrproper, Cleaned, BuildStep, TreeTypes
    <3>2. QED
      BY <1>1, <3>1, BuildFrame DEF TreeClean, BuildsApart
  <2>2. CASE Configure(b) \/ Compile(b)
    <3>1. /\ UNCHANGED <<config, dirty, intruded>> /\ b \in AtWork
          /\ build'[b] = "unclean" => ~(config = None /\ ~dirty)
      BY <1>1, <2>2 DEF Configure, Compile, MakeApart, BuildStep, AtWork, TreeTypes
    <3>2. \A c \in Builds : c \in AtWork' => c \in AtWork
      BY <3>1, BuildFrame DEF AtWork
    <3>3. QED
      BY <1>1, <3>1, <3>2, BuildFrame DEF TreeClean, BuildsApart
  <2>3. CASE Fail(b)
    <3>1. UNCHANGED <<config, dirty, intruded>> /\ build'[b] = "failed"
      BY <1>1, <2>3 DEF Fail, BuildStep, TreeTypes
    <3>2. \A c \in Builds : c \in AtWork' => c \in AtWork
      BY <3>1, BuildFrame DEF AtWork
    <3>3. QED
      BY <1>1, <3>1, <3>2, BuildFrame DEF TreeClean, BuildsApart
  <2>4. QED
    BY <2>1, <2>2, <2>3 DEF OneBuild
<1>8. QED
  BY <1>3, <1>4, <1>5, <1>6, <1>7 DEF TreeInv

-----------------------------------------------------------------------------
(* A step that changes nothing preserves the invariant.                    *)
LEMMA StutterKeeps == ASSUME TreeInv, UNCHANGED treeVars PROVE TreeInv'
<1>1. /\ UNCHANGED <<user, config, backup, orphans, dirty, audits, given, used, step>>
      /\ UNCHANGED <<frags, warns, lists, delivered, outLists, build, wiped, intruded>>
  BY DEF treeVars, auditVars, conf, args, reports
<1>2. TreeTypes' /\ ConfigNotLost' /\ BackedUp' /\ Restoring'
  BY <1>1 DEF TreeInv, TreeTypes, ConfigNotLost, BackedUp, Kept, Restoring
<1>3. Asked' /\ Reported' /\ TreeClean' /\ BuildsApart'
  BY <1>1 DEF TreeInv, Asked, Reported, TreeClean, AtWork, BuildsApart
<1>4. QED
  BY <1>2, <1>3 DEF TreeInv

(* Every step preserves the invariant.                                     *)
LEMMA TreeInvStep == TreeInv /\ [TreeNext]_treeVars => TreeInv'
<1> SUFFICES ASSUME TreeInv, [TreeNext]_treeVars
             PROVE  TreeInv'
  OBVIOUS
<1>1. CASE Other
  BY <1>1, OtherTypes, OtherConfig, OtherReports, OtherBuilds DEF TreeInv
<1>2. CASE \E b \in Builds : OneBuild(b)
  BY <1>2, BuildKeeps
<1>3. CASE UNCHANGED treeVars
  BY <1>3, StutterKeeps
<1>4. QED
  BY <1>1, <1>2, <1>3 DEF TreeNext, OneBuild

(* The tree, the backups and the reports are related as TreeInv says,      *)
(* wherever audits stop and builds clean the tree under them.              *)
THEOREM TreeInvAlways == TreeSpec => []TreeInv
BY InitTreeInv, TreeInvStep, PTL DEF TreeSpec

(* No sequence of audits that are stopped destroys the last copy of the    *)
(* user's .config, unless a build's mrproper removed it                    *)
(* (smatch_audit.sh:86-103, fuzz.sh:344).                                  *)
THEOREM SpecConfigNotLost == TreeSpec => []ConfigNotLost
<1>1. TreeInv => ConfigNotLost
  BY DEF TreeInv
<1>2. QED
  BY <1>1, TreeInvAlways, PTL

(* A build finds the tree unclean only if the audit or the user wrote to   *)
(* it after the build's own mrproper, however many builds clean the tree   *)
(* at once (fuzz.sh:343-346).                                              *)
THEOREM SpecBuildsApart == TreeSpec => []BuildsApart
<1>1. TreeInv => BuildsApart
  BY DEF TreeInv
<1>2. QED
  BY <1>1, TreeInvAlways, PTL

(* What a successful audit delivers is of this audit alone, and of the     *)
(* configuration it was asked for or the default one                       *)
(* (smatch_audit.sh:44-57, 86-95).                                         *)
THEOREM SpecDeliveredAsked == TreeSpec => []DeliveredAsked
<1>1. TreeInv => DeliveredAsked
  BY DEF TreeInv, Asked, Reported, DeliveredAsked
<1>2. QED
  BY <1>1, TreeInvAlways, PTL
=============================================================================
