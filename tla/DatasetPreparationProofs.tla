----------------------- MODULE DatasetPreparationProofs -----------------------
(***************************************************************************)
(* Proofs about DatasetPreparation, for any number of classes, samples,    *)
(* files, preparers and changes of the folder.                             *)
(***************************************************************************)
EXTENDS DatasetPreparation, FiniteSetTheorems, SequenceTheorems, TLAPS

\* Where a preparer is in its loops.
Strict(s) == \A i, j \in 1..Len(s) : i < j => s[i] < s[j]
Together(q) == q.calibration \o q.evaluation
Place(q) ==
    /\ q.pc \in {"start", "root"} =>
          q.label = 0 /\ q.total = 0 /\ q.calibration = <<>> /\ q.evaluation = <<>>
    /\ q.pc \in {"decode", "identify"} => Strict(q.files)
    /\ q.pc = "decode" => q.i > 0
    /\ q.pc = "identify" => q.i \in 1..PerClass /\ Len(q.files) >= PerClass
    /\ q.pc = "validate" => q.i \in 1..Len(Together(q))
    /\ q.pc = "write" => q.i \in 1..3

\* The samples of each class that a preparer has taken.
Of(s, l) == {x \in Range(s) : x.label = l}
Full(q, l) == /\ Cardinality(Of(q.calibration, l)) = CalPerClass
              /\ Cardinality(Of(q.evaluation, l)) = EvaPerClass
Empty(q, l) == Of(q.calibration, l) = {} /\ Of(q.evaluation, l) = {}
Early(i) == IF i <= CalPerClass THEN i - 1 ELSE CalPerClass
Partial(q) ==
    /\ Cardinality(Of(q.calibration, q.label)) = Early(q.i)
    /\ Cardinality(Of(q.evaluation, q.label)) = q.i - 1 - Early(q.i)
    /\ \A x \in Of(q.calibration, q.label) \cup Of(q.evaluation, q.label) :
          \E j \in 1..(q.i - 1) : x.name = q.files[j]
Finding == {"start", "root", "list", "decode"}
Collected(q) ==
    /\ q.pc \in Finding \cup {"identify"} => \A l \in Classes :
          (l < q.label => Full(q, l)) /\ (l > q.label => Empty(q, l))
    /\ q.pc \in Finding => Empty(q, q.label)
    /\ q.pc = "identify" => Partial(q)
    /\ q.pc \in {"validate", "overlap", "mkdir", "write", "ok"} => \A l \in Classes : Full(q, l)

\* The digests that were compared with the folder once more.
Seen(q, s) == s.sha \in q.late[s.label][s.name]
Confirmed(q) ==
    /\ q.pc = "validate" =>
          /\ \A j \in 1..(q.i - 1) : Seen(q, Together(q)[j])
          /\ \A l \in Classes, n \in Names : Content(folder, l, n) \in q.late[l][n]
    /\ q.pc \in {"overlap", "mkdir", "write", "ok"} => \A s \in Range(Together(q)) : Seen(q, s)

Apart(q) == \A x \in Range(q.calibration), y \in Range(q.evaluation) : ~SameSample(x, y)
Separate(q) == q.pc \in {"mkdir", "write", "ok"} => Apart(q)

\* What the directory holds, and who it belongs to.
Settled(q) ==
    /\ \A l \in Classes : Full(q, l)
    /\ \A s \in Range(Together(q)) : Seen(q, s)
    /\ Apart(q)
Written(p) ==
    /\ \A d \in Document : disk[d] \in {None, Value(p, d)}
    /\ disk.record # None => \A d \in Document : disk[d] = Value(p, d)
    /\ At(p, "write") => \A j \in 1..(proc[p].i - 1) : disk[Documents[j]] = Value(p, Documents[j])
    /\ At(p, "ok") => \A d \in Document : disk[d] = Value(p, d)
Owned(p) ==
    /\ proc[p].pc \in {"write", "ok"} => disk.owner = p
    /\ disk.owner = p => /\ proc[p].pc \in {"write", "ok", "failed", "killed"}
                         /\ Settled(proc[p])
                         /\ Written(p)

\* The inductive invariant.
Proper(p) ==
    /\ Place(proc[p]) /\ Collected(proc[p]) /\ Confirmed(proc[p]) /\ Separate(proc[p])
    /\ Owned(p)
IInv ==
    /\ TypeOK
    /\ disk.owner = None => \A d \in Document : disk[d] = None
    /\ \A p \in Preparers : Proper(p)

-----------------------------------------------------------------------------
(* Sequences and finite sets                                               *)

LEMMA ConstantFacts ==
    /\ Classes \subseteq Entries /\ Classes \subseteq Nat /\ 0 \in Classes
    /\ ClassCount \in Nat \ {0} /\ CalPerClass \in Nat \ {0} /\ EvaPerClass \in Nat \ {0}
    /\ PerClass \in Nat /\ PerClass = CalPerClass + EvaPerClass
    /\ Names \subseteq Nat /\ IsFiniteSet(Names)
    /\ None \notin Preparers /\ None \notin Contents
BY PreparationAssumption DEF PreparationAssumption, Classes, Entries, PerClass

\* A set of names has an ascending enumeration: by rank.
LEMMA AscendingFacts ==
    ASSUME NEW S \in SUBSET Nat, IsFiniteSet(S)
    PROVE  /\ Cardinality(S) \in Nat
           /\ Ascending(S) \in [1..Cardinality(S) -> S]
           /\ \A i, j \in 1..Cardinality(S) : i < j => Ascending(S)[i] < Ascending(S)[j]
<1> DEFINE n == Cardinality(S)
           upto(x) == {y \in S : y <= x}
           rank == [x \in S |-> Cardinality(upto(x))]
<1>1. n \in Nat
  BY FS_CardinalityType
<1>2. ASSUME NEW x \in S PROVE IsFiniteSet(upto(x)) /\ Cardinality(upto(x)) \in 1..n
  <2>1. upto(x) \in SUBSET S /\ x \in upto(x)
    OBVIOUS
  <2>2. IsFiniteSet(upto(x)) /\ Cardinality(upto(x)) <= n /\ Cardinality(upto(x)) \in Nat
    BY <2>1, FS_Subset, FS_CardinalityType
  <2>3. Cardinality(upto(x)) # 0
    BY <2>1, <2>2, FS_EmptySet
  <2> QED
    BY <1>1, <2>2, <2>3
<1>3. ASSUME NEW x \in S, NEW y \in S, x < y PROVE rank[x] < rank[y]
  <2>1. upto(x) \in SUBSET upto(y) /\ y \in upto(y) /\ y \notin upto(x)
    <3>1. x \in Nat /\ y \in Nat /\ y \in upto(y) /\ y \notin upto(x)
      BY <1>3
    <3>2. ASSUME NEW z \in upto(x) PROVE z \in upto(y)
      <4>1. z \in S /\ z \in Nat /\ z <= x
        OBVIOUS
      <4> QED
        BY <1>3, <3>1, <4>1
    <3> QED
      BY <3>1, <3>2
  <2>2. Cardinality(upto(x)) <= Cardinality(upto(y)) /\ Cardinality(upto(x)) # Cardinality(upto(y))
    <3>1. IsFiniteSet(upto(y)) /\ upto(x) # upto(y)
      BY <1>2, <2>1
    <3> HIDE DEF upto
    <3> QED
      BY <2>1, <3>1, FS_Subset
  <2>3. Cardinality(upto(x)) \in Nat /\ Cardinality(upto(y)) \in Nat
    BY <1>2
  <2> QED
    BY <2>2, <2>3
<1>4. rank \in [S -> 1..n]
  BY <1>2
<1> HIDE DEF rank
<1>5. rank \in Injection(S, 1..n)
  <2>1. ASSUME NEW x \in S, NEW y \in S, rank[x] = rank[y] PROVE x = y
    <3>1. rank[x] \in Nat /\ rank[y] \in Nat /\ x \in Nat /\ y \in Nat
      BY <1>1, <1>4
    <3>2. ~(x < y) /\ ~(y < x)
      BY <1>3, <2>1, <3>1
    <3> QED
      BY <3>1, <3>2
  <2> QED
    BY <1>4, <2>1 DEF Injection, IsInjective
<1>6. rank \in Surjection(S, 1..n)
  <2>1. IsFiniteSet(1..n) /\ Cardinality(1..n) = n
    BY <1>1, FS_Interval
  <2> QED
    BY <1>5, <2>1, FS_Injection
<1> DEFINE s == [i \in 1..n |-> CHOOSE x \in S : rank[x] = i]
<1>7. \A i \in 1..n : s[i] \in S /\ rank[s[i]] = i
  BY <1>6 DEF Surjection
<1>8. s \in [1..n -> S]
  BY <1>7
<1> HIDE DEF s
<1>9. ASSUME NEW i \in 1..n, NEW j \in 1..n, i < j PROVE s[i] < s[j]
  <2>1. s[i] \in Nat /\ s[j] \in Nat /\ rank[s[i]] = i /\ rank[s[j]] = j
    BY <1>7
  <2>2. s[i] # s[j]
    BY <1>9, <2>1
  <2>3. ~(s[j] < s[i])
    BY <1>1, <1>3, <1>7, <1>9, <2>1
  <2> QED
    BY <2>1, <2>2, <2>3
<1>10. \E t \in [1..n -> S] : \A i, j \in 1..n : i < j => t[i] < t[j]
  BY <1>8, <1>9
<1> QED
  BY <1>1, <1>10 DEF Ascending

LEMMA AppendFacts ==
    ASSUME NEW S, NEW s \in Seq(S), NEW x \in S
    PROVE  Append(s, x) \in Seq(S) /\ Range(Append(s, x)) = Range(s) \cup {x}
<1> DEFINE t == Append(s, x)
<1>1. /\ t \in Seq(S) /\ Len(t) = Len(s) + 1 /\ t[Len(s) + 1] = x
      /\ \A i \in 1..Len(s) : t[i] = s[i]
  BY AppendProperties
<1>2. DOMAIN t = 1..(Len(s) + 1) /\ DOMAIN s = 1..Len(s) /\ Len(s) \in Nat
  BY <1>1, LenProperties
<1> HIDE DEF t
<1>3. Range(t) = {t[i] : i \in 1..(Len(s) + 1)} /\ Range(s) = {s[i] : i \in 1..Len(s)}
  BY <1>2 DEF Range
<1>4. ASSUME NEW y \in Range(t) PROVE y \in Range(s) \cup {x}
  BY <1>1, <1>2, <1>3
<1>5. ASSUME NEW y \in Range(s) \cup {x} PROVE y \in Range(t)
  <2>1. PICK i \in 1..(Len(s) + 1) : y = t[i]
    BY <1>1, <1>2, <1>3
  <2> QED
    BY <1>3, <2>1
<1>6. Range(t) = Range(s) \cup {x}
  BY <1>4, <1>5
<1> QED
  BY <1>1, <1>6 DEF t

LEMMA FiniteRange ==
    ASSUME NEW S, NEW s \in Seq(S)
    PROVE  IsFiniteSet(Range(s)) /\ Range(s) \subseteq S
<1>1. s \in Surjection(1..Len(s), Range(s)) /\ Len(s) \in Nat
  BY LenProperties DEF Surjection, Range
<1>2. IsFiniteSet(Range(s))
  BY <1>1, FS_Surjection, FS_Interval
<1> QED
  BY <1>2, RangeOfSeq

-----------------------------------------------------------------------------
(* What the folder says                                                    *)

LEMMA ContentFacts ==
    ASSUME NEW f \in Folder, NEW l \in Entries
    PROVE  /\ \A n \in Names : Content(f, l, n) \in Contents \cup {None}
           /\ Present(f, l) \in SUBSET Names
<1>1. f[l] \in Class \cup {Junk, None}
  BY DEF Folder
<1> QED
  BY <1>1 DEF Content, IsDirectory, Class, Present

LEMMA ListFacts ==
    ASSUME NEW f \in Folder, NEW l \in Entries
    PROVE  Ascending(Present(f, l)) \in Seq(Names) /\ Strict(Ascending(Present(f, l)))
<1> DEFINE S == Present(f, l)
<1>1. S \in SUBSET Names /\ S \in SUBSET Nat /\ IsFiniteSet(S)
  BY ContentFacts, ConstantFacts, FS_Subset
<1>2. /\ Cardinality(S) \in Nat /\ Ascending(S) \in [1..Cardinality(S) -> S]
      /\ \A i, j \in 1..Cardinality(S) : i < j => Ascending(S)[i] < Ascending(S)[j]
  BY <1>1, AscendingFacts
<1> HIDE DEF S
<1>3. Ascending(S) \in [1..Cardinality(S) -> Names]
  BY <1>1, <1>2
<1>4. Ascending(S) \in Seq(Names)
  BY <1>2, <1>3, SeqDef
<1>5. Len(Ascending(S)) = Cardinality(S)
  BY <1>2, <1>3, <1>4, LenProperties
<1> QED
  BY <1>2, <1>4, <1>5 DEF Strict, S

-----------------------------------------------------------------------------
(* What the steps of a preparer come to                                    *)

Whole == proc' \in [Preparers -> Preparer]
Others(p) == \A q \in Preparers \ {p} : proc'[q] = proc[q]
Goes(p, l, m) == proc[p].pc = l /\ proc'[p].pc = m
KeepsPlace(p) == /\ proc'[p].label = proc[p].label /\ proc'[p].files = proc[p].files
                 /\ proc'[p].i = proc[p].i /\ proc'[p].total = proc[p].total
KeepsSamples(p) == /\ proc'[p].calibration = proc[p].calibration
                   /\ proc'[p].evaluation = proc[p].evaluation
KeepsHistory(p) == proc'[p].began = proc[p].began /\ proc'[p].late = proc[p].late

Starts(p) ==
    /\ Inside /\ Goes(p, "start", "root") /\ KeepsPlace(p) /\ KeepsSamples(p)
    /\ proc'[p].began = folder /\ proc'[p].late = proc[p].late
Roots(p) ==
    /\ Inside /\ Goes(p, "root", "list")
    /\ KeepsPlace(p) /\ KeepsSamples(p) /\ KeepsHistory(p)
    /\ {l \in Entries : folder[l] # None} = Classes
Lists(p) ==
    /\ Inside /\ Goes(p, "list", "decode") /\ KeepsSamples(p) /\ KeepsHistory(p)
    /\ proc'[p].i = 1 /\ proc'[p].files = Ascending(Present(folder, proc[p].label))
    /\ proc'[p].label = proc[p].label /\ proc'[p].total = proc[p].total
    /\ IsDirectory(folder, proc[p].label)
Decodes(p) ==
    /\ Inside /\ Goes(p, "decode", "decode") /\ KeepsSamples(p) /\ KeepsHistory(p)
    /\ proc'[p].i = proc[p].i + 1 /\ proc'[p].files = proc[p].files
    /\ proc'[p].label = proc[p].label /\ proc'[p].total = proc[p].total
Counts(p) ==
    /\ Inside /\ Goes(p, "decode", "identify") /\ KeepsSamples(p) /\ KeepsHistory(p)
    /\ proc'[p].i = 1 /\ proc'[p].files = proc[p].files
    /\ proc'[p].label = proc[p].label
    /\ proc'[p].total = proc[p].total + Len(proc[p].files)
    /\ Len(proc[p].files) >= PerClass

Picked(q) == [label |-> q.label, name |-> q.files[q.i],
              sha |-> Content(folder, q.label, q.files[q.i])]
Now == [l \in Classes |-> [n \in Names |-> {Content(folder, l, n)}]]
Identifies(p) ==
    /\ Inside /\ proc[p].pc = "identify" /\ proc[p].i \in 1..PerClass
    /\ Picked(proc[p]) \in Sample
    /\ proc'[p].files = proc[p].files /\ proc'[p].total = proc[p].total
    /\ proc'[p].began = proc[p].began
    /\ IF proc[p].i <= CalPerClass
       THEN /\ proc'[p].calibration = Append(proc[p].calibration, Picked(proc[p]))
            /\ proc'[p].evaluation = proc[p].evaluation
       ELSE /\ proc'[p].evaluation = Append(proc[p].evaluation, Picked(proc[p]))
            /\ proc'[p].calibration = proc[p].calibration
    /\ \/ /\ proc[p].i # PerClass /\ proc'[p].pc = "identify" /\ proc'[p].i = proc[p].i + 1
          /\ proc'[p].label = proc[p].label /\ proc'[p].late = proc[p].late
       \/ /\ proc[p].i = PerClass /\ proc[p].label + 1 \in Classes
          /\ proc'[p].pc = "list" /\ proc'[p].i = proc[p].i + 1
          /\ proc'[p].label = proc[p].label + 1 /\ proc'[p].late = proc[p].late
       \/ /\ proc[p].i = PerClass /\ proc[p].label + 1 \notin Classes
          /\ proc'[p].pc = "validate" /\ proc'[p].i = 1
          /\ proc'[p].label = proc[p].label /\ proc'[p].late = Now

Validates(p) ==
    LET s == Together(proc[p])[proc[p].i] IN
    /\ Inside /\ proc[p].pc = "validate" /\ KeepsSamples(p) /\ KeepsHistory(p)
    /\ Content(folder, s.label, s.name) = s.sha
    /\ proc'[p].i = proc[p].i + 1 /\ proc'[p].files = proc[p].files
    /\ proc'[p].label = proc[p].label /\ proc'[p].total = proc[p].total
    /\ proc'[p].pc = IF proc[p].i = Len(Together(proc[p])) THEN "overlap" ELSE "validate"
Separates(p) ==
    /\ Inside /\ Goes(p, "overlap", "mkdir") /\ Apart(proc[p])
    /\ KeepsPlace(p) /\ KeepsSamples(p) /\ KeepsHistory(p)
Makes(p) ==
    /\ UNCHANGED <<folder, changes>> /\ Goes(p, "mkdir", "write")
    /\ disk.owner = None /\ disk' = [disk EXCEPT !.owner = p]
    /\ proc'[p].i = 1 /\ proc'[p].files = proc[p].files
    /\ proc'[p].label = proc[p].label /\ proc'[p].total = proc[p].total
    /\ KeepsSamples(p) /\ KeepsHistory(p)
Publishes(p) ==
    LET d == Documents[proc[p].i] IN
    /\ UNCHANGED <<folder, changes>> /\ proc[p].pc = "write" /\ proc[p].i \in 1..3
    /\ disk[d] = None /\ disk' = [disk EXCEPT ![d] = Value(p, d)]
    /\ \/ proc'[p].i = proc[p].i + 1 /\ proc'[p].pc = IF d = "record" THEN "ok" ELSE "write"
       \/ proc'[p].i = proc[p].i /\ proc'[p].pc = "failed"
    /\ proc'[p].files = proc[p].files
    /\ proc'[p].label = proc[p].label /\ proc'[p].total = proc[p].total
    /\ KeepsSamples(p) /\ KeepsHistory(p)
Stops(p) ==
    /\ Inside /\ proc[p].pc \in Active /\ proc'[p].pc \in {"failed", "killed"}
    /\ KeepsPlace(p) /\ KeepsSamples(p) /\ KeepsHistory(p)

Moved(p) ==
    \/ Starts(p) \/ Roots(p) \/ Lists(p) \/ Decodes(p) \/ Counts(p) \/ Identifies(p)
    \/ Validates(p) \/ Separates(p) \/ Makes(p) \/ Publishes(p) \/ Stops(p)

\* One preparer goes on, with the state r.
LEMMA Update ==
    ASSUME TypeOK, NEW p \in Preparers, NEW r \in Preparer, proc' = [proc EXCEPT ![p] = r]
    PROVE  Whole /\ Others(p) /\ proc'[p] = r
BY DEF TypeOK, Whole, Others

LEMMA Advance ==
    ASSUME NEW q \in Preparer, NEW k \in Nat,
           NEW l \in Active \cup {"start", "ok", "failed", "killed"}
    PROVE  /\ [q EXCEPT !.i = k] \in Preparer /\ [q EXCEPT !.pc = l] \in Preparer
           /\ [q EXCEPT !.i = k, !.pc = l] \in Preparer
           /\ q.i + 1 \in Nat
<1>1. q.i + 1 \in Nat
  BY DEF Preparer
<1>2. [q EXCEPT !.i = k] \in Preparer
  BY DEF Preparer
<1>3. [q EXCEPT !.pc = l] \in Preparer
  BY DEF Preparer
<1>4. [q EXCEPT !.i = k, !.pc = l] \in Preparer
  BY DEF Preparer
<1> QED
  BY <1>1, <1>2, <1>3, <1>4

LEMMA IdentifyFacts ==
    ASSUME TypeOK, NEW p \in Preparers, Place(proc[p]), Identify(p)
    PROVE  Whole /\ Others(p) /\ Identifies(p)
<1> DEFINE q == proc[p]
           s == Picked(q)
           r == [q EXCEPT ![Purpose(q.i)] = Append(@, s), !.i = @ + 1]
<1>1. /\ q \in Preparer /\ q.pc = "identify" /\ q.i \in 1..PerClass /\ s.sha # None
      /\ Len(q.files) >= PerClass /\ Inside /\ folder \in Folder
      /\ proc' = [proc EXCEPT ![p] = IF q.i = PerClass THEN AfterClass(p, r) ELSE r]
  BY DEF TypeOK, Place, Identify, At, Picked
<1>2. s \in Sample
  <2>1. q.files \in Seq(Names) /\ q.label \in Classes /\ q.label \in Entries
    BY <1>1, ConstantFacts DEF Preparer
  <2>2. q.files[q.i] \in Names
    <3>1. q.i \in 1..Len(q.files)
      <4>1. Len(q.files) \in Nat /\ PerClass \in Nat
        BY <2>1, ConstantFacts, LenProperties
      <4>2. q.i \in 1..PerClass /\ Len(q.files) >= PerClass
        BY <1>1
      <4> QED
        BY <4>1, <4>2
    <3> QED
      BY <2>1, <3>1, ElementOfSeq
  <2>3. Content(folder, q.label, q.files[q.i]) \in Contents
    BY <1>1, <2>1, <2>2, ContentFacts DEF Picked
  <2> QED
    BY <2>1, <2>2, <2>3 DEF Picked, Sample
<1> DEFINE c == IF q.i <= CalPerClass THEN Append(q.calibration, s) ELSE q.calibration
           e == IF q.i <= CalPerClass THEN q.evaluation ELSE Append(q.evaluation, s)
<1> HIDE DEF s
<1>3. c \in Seq(Sample) /\ e \in Seq(Sample)
  BY <1>1, <1>2, AppendProperties DEF Preparer
<1>4. r = [q EXCEPT !.calibration = c, !.evaluation = e, !.i = q.i + 1]
  BY <1>1 DEF Preparer, Purpose
<1> HIDE DEF c, e
<1>5. /\ r \in Preparer /\ r.pc = q.pc /\ r.label = q.label /\ r.files = q.files
      /\ r.i = q.i + 1 /\ r.total = q.total /\ r.calibration = c /\ r.evaluation = e
      /\ r.began = q.began /\ r.late = q.late
  <2>1. q.i + 1 \in Nat
    <3>1. q.i \in Nat
      BY <1>1 DEF Preparer
    <3> QED
      BY <3>1
  <2>2. q \in Preparer /\ c \in Seq(Sample) /\ e \in Seq(Sample) /\ q.i + 1 \in Nat
    BY <1>1, <1>3, <2>1
  <2>3. r = [q EXCEPT !.calibration = c, !.evaluation = e, !.i = q.i + 1]
    BY <1>4
  <2> HIDE DEF r
  <2> QED
    BY <2>2, <2>3 DEF Preparer
<1> HIDE DEF r
<1>6. CASE q.i # PerClass
  BY <1>1, <1>2, <1>5, <1>6, Update DEF Identifies, c, e, s
<1>7. CASE q.i = PerClass /\ q.label + 1 \in Classes
  <2> DEFINE t == [r EXCEPT !.pc = "list", !.label = @ + 1]
  <2>1. proc' = [proc EXCEPT ![p] = t]
    BY <1>1, <1>5, <1>7 DEF AfterClass
  <2>2. /\ t \in Preparer /\ t.pc = "list" /\ t.label = q.label + 1 /\ t.files = q.files
        /\ t.i = q.i + 1 /\ t.total = q.total /\ t.calibration = c /\ t.evaluation = e
        /\ t.began = q.began /\ t.late = q.late
    BY <1>5, <1>7 DEF Preparer, Active, Reading
  <2> HIDE DEF t
  <2> QED
    BY <1>1, <1>2, <1>7, <2>1, <2>2, Update DEF Identifies, c, e, s
<1>8. CASE q.i = PerClass /\ q.label + 1 \notin Classes
  <2> DEFINE t == [r EXCEPT !.pc = "validate", !.i = 1, !.late = Now]
  <2>1. proc' = [proc EXCEPT ![p] = t]
    BY <1>1, <1>5, <1>8 DEF AfterClass, Now
  <2>2. Now \in [Classes -> [Names -> SUBSET (Contents \cup {None})]]
    BY <1>1, ContentFacts, ConstantFacts DEF Now
  <2>3. /\ t \in Preparer /\ t.pc = "validate" /\ t.label = q.label /\ t.files = q.files
        /\ t.i = 1 /\ t.total = q.total /\ t.calibration = c /\ t.evaluation = e
        /\ t.began = q.began /\ t.late = Now
    BY <1>5, <1>8, <2>2 DEF Preparer, Active, Reading
  <2> HIDE DEF t
  <2> QED
    BY <1>1, <1>2, <1>8, <2>1, <2>3, Update DEF Identifies, c, e, s
<1> QED
  BY <1>6, <1>7, <1>8

LEMMA Steps ==
    ASSUME TypeOK, NEW p \in Preparers, Place(proc[p]), Step(p) \/ Kill(p)
    PROVE  Whole /\ Others(p) /\ Moved(p)
<1> DEFINE q == proc[p]
<1>1. q \in Preparer /\ proc \in [Preparers -> Preparer] /\ folder \in Folder
  BY DEF TypeOK
<1>2. CASE Start(p)
  <2> DEFINE r == [q EXCEPT !.pc = "root", !.began = folder]
  <2>1. proc' = [proc EXCEPT ![p] = r] /\ q.pc = "start" /\ Inside
    BY <1>1, <1>2 DEF Start, At
  <2>2. r \in Preparer
    BY <1>1 DEF Preparer, Active, Reading
  <2> QED
    BY <1>1, <2>1, <2>2, Update
       DEF Starts, Goes, KeepsPlace, KeepsSamples, Moved, Preparer
<1>3. CASE ListRoot(p)
  <2> DEFINE r == [q EXCEPT !.pc = "list"]
  <2>1. /\ proc' = [proc EXCEPT ![p] = r] /\ q.pc = "root" /\ Inside
        /\ {l \in Entries : folder[l] # None} = Classes
    BY <1>1, <1>3 DEF ListRoot, At
  <2>2. r \in Preparer
    BY <1>1 DEF Preparer, Active, Reading
  <2> QED
    BY <1>1, <2>1, <2>2, Update
       DEF Roots, Goes, KeepsPlace, KeepsSamples, KeepsHistory, Moved, Preparer
<1>4. CASE ListClass(p)
  <2> DEFINE files == Ascending(Present(folder, q.label))
             r == [q EXCEPT !.pc = "decode", !.i = 1, !.files = files]
  <2>1. /\ proc' = [proc EXCEPT ![p] = r] /\ q.pc = "list" /\ Inside
        /\ IsDirectory(folder, q.label)
    BY <1>1, <1>4 DEF ListClass, At
  <2>2. files \in Seq(Names)
    BY <1>1, ListFacts, ConstantFacts DEF Preparer
  <2> HIDE DEF files
  <2>3. r \in Preparer
    BY <1>1, <2>2 DEF Preparer, Active, Reading
  <2> QED
    BY <1>1, <2>1, <2>3, Update
       DEF Lists, Goes, KeepsSamples, KeepsHistory, Moved, Preparer, files
<1>5. CASE Decode(p)
  <2> DEFINE r == [q EXCEPT !.i = q.i + 1]
  <2>1. proc' = [proc EXCEPT ![p] = r] /\ q.pc = "decode" /\ Inside
    BY <1>1, <1>5 DEF Decode, At
  <2>2. r \in Preparer
    BY <1>1, Advance
  <2> QED
    BY <1>1, <2>1, <2>2, Update
       DEF Decodes, Goes, KeepsSamples, KeepsHistory, Moved, Preparer
<1>6. CASE CountFiles(p)
  <2> DEFINE r == [q EXCEPT !.pc = "identify", !.i = 1, !.total = q.total + Len(q.files)]
  <2>1. /\ proc' = [proc EXCEPT ![p] = r] /\ q.pc = "decode" /\ Inside
        /\ Len(q.files) >= PerClass
    BY <1>1, <1>6 DEF CountFiles, At
  <2>2. q.total + Len(q.files) \in Nat
    BY <1>1, LenProperties DEF Preparer
  <2>3. r \in Preparer
    BY <1>1, <2>2 DEF Preparer, Active, Reading
  <2> QED
    BY <1>1, <2>1, <2>3, Update
       DEF Counts, Goes, KeepsSamples, KeepsHistory, Moved, Preparer
<1>7. CASE Identify(p)
  BY <1>7, IdentifyFacts DEF Moved
<1>8. CASE ValidateSample(p)
  <2> DEFINE l == IF q.i = Len(Together(q)) THEN "overlap" ELSE q.pc
             r == [q EXCEPT !.i = q.i + 1, !.pc = l]
  <2>1. /\ proc' = [proc EXCEPT ![p] = r] /\ q.pc = "validate" /\ Inside
        /\ LET s == Together(q)[q.i] IN Content(folder, s.label, s.name) = s.sha
    BY <1>1, <1>8 DEF ValidateSample, At, Samples, Together
  <2>2. r \in Preparer
    <3>1. l \in Active
      BY <2>1 DEF Active, Reading
    <3> HIDE DEF l
    <3> QED
      BY <1>1, <3>1, Advance
  <2> QED
    BY <1>1, <2>1, <2>2, Update
       DEF Validates, KeepsSamples, KeepsHistory, Moved, Preparer
<1>9. CASE RequireNoOverlap(p)
  <2> DEFINE r == [q EXCEPT !.pc = "mkdir"]
  <2>1. proc' = [proc EXCEPT ![p] = r] /\ q.pc = "overlap" /\ Inside /\ Apart(q)
    BY <1>1, <1>9 DEF RequireNoOverlap, At, Apart
  <2>2. r \in Preparer
    BY <1>1 DEF Preparer, Active, Reading
  <2> QED
    BY <1>1, <2>1, <2>2, Update
       DEF Separates, Goes, KeepsPlace, KeepsSamples, KeepsHistory, Moved, Preparer
<1>10. CASE MakeOutput(p)
  <2> DEFINE r == [q EXCEPT !.pc = "write", !.i = 1]
  <2>1. /\ proc' = [proc EXCEPT ![p] = r] /\ q.pc = "mkdir"
        /\ UNCHANGED <<folder, changes>>
        /\ disk.owner = None /\ disk' = [disk EXCEPT !.owner = p]
    BY <1>1, <1>10 DEF MakeOutput, At
  <2>2. r \in Preparer
    BY <1>1 DEF Preparer, Active, Reading
  <2> QED
    BY <1>1, <2>1, <2>2, Update
       DEF Makes, Goes, KeepsSamples, KeepsHistory, Moved, Preparer
<1>11. CASE Publish(p)
  <2> DEFINE d == Documents[q.i]
             l == IF d = "record" THEN "ok" ELSE q.pc
             r == [q EXCEPT !.i = q.i + 1, !.pc = l]
             f == [q EXCEPT !.pc = "failed"]
  <2>1. /\ q.pc = "write" /\ q.i \in 1..3 /\ UNCHANGED <<folder, changes>>
        /\ disk[d] = None /\ disk' = [disk EXCEPT ![d] = Value(p, d)]
        /\ proc' = [proc EXCEPT ![p] = r] \/ proc' = [proc EXCEPT ![p] = f]
    BY <1>1, <1>11 DEF Publish, At, Place
  <2>2. r \in Preparer /\ f \in Preparer
    <3>1. l \in Active \cup {"ok"}
      BY <2>1 DEF Active
    <3> HIDE DEF l
    <3> QED
      BY <1>1, <3>1, Advance
  <2>3. CASE proc' = [proc EXCEPT ![p] = r]
    BY ZenonT(60), <1>1, <2>1, <2>2, <2>3, Update
       DEF Publishes, KeepsSamples, KeepsHistory, Moved, Preparer
  <2>4. CASE proc' = [proc EXCEPT ![p] = f]
    BY ZenonT(60), <1>1, <2>1, <2>2, <2>4, Update
       DEF Publishes, KeepsSamples, KeepsHistory, Moved, Preparer
  <2> QED
    BY <2>1, <2>3, <2>4
<1>12. CASE Fail(p) \/ Kill(p)
  <2>1. PICK l \in {"failed", "killed"} :
            proc' = [proc EXCEPT ![p] = [q EXCEPT !.pc = l]] /\ q.pc \in Active /\ Inside
    BY <1>1, <1>12 DEF Fail, Kill
  <2>2. [q EXCEPT !.pc = l] \in Preparer
    BY <1>1 DEF Preparer
  <2> QED
    BY <1>1, <2>1, <2>2, Update
       DEF Stops, KeepsPlace, KeepsSamples, KeepsHistory, Moved, Preparer
<1> QED
  BY <1>2, <1>3, <1>4, <1>5, <1>6, <1>7, <1>8, <1>9, <1>10, <1>11, <1>12 DEF Step

-----------------------------------------------------------------------------
(* The invariant over the steps of a preparer                              *)

LEMMA ProcessTypes ==
    ASSUME TypeOK, NEW p \in Preparers
    PROVE  /\ proc[p] \in Preparer /\ folder \in Folder
           /\ proc[p].i \in Nat /\ proc[p].label \in Classes /\ proc[p].label \in Nat
           /\ proc[p].files \in Seq(Names) /\ Len(proc[p].files) \in Nat
           /\ proc[p].calibration \in Seq(Sample) /\ proc[p].evaluation \in Seq(Sample)
           /\ Together(proc[p]) \in Seq(Sample) /\ Len(Together(proc[p])) \in Nat
           /\ proc[p].late \in [Classes -> [Names -> SUBSET (Contents \cup {None})]]
<1>1. proc[p] \in Preparer /\ folder \in Folder
  BY DEF TypeOK
<1>2. /\ proc[p].files \in Seq(Names) /\ proc[p].i \in Nat /\ proc[p].label \in Classes
      /\ proc[p].calibration \in Seq(Sample) /\ proc[p].evaluation \in Seq(Sample)
      /\ proc[p].late \in [Classes -> [Names -> SUBSET (Contents \cup {None})]]
  BY <1>1 DEF Preparer
<1>3. Together(proc[p]) \in Seq(Sample)
  BY <1>2, ConcatProperties DEF Together
<1> QED
  BY <1>1, <1>2, <1>3, LenProperties, ConstantFacts

LEMMA DocumentFacts ==
    /\ Documents[1] = "calibration" /\ Documents[2] = "evaluation" /\ Documents[3] = "record"
    /\ Document = {"calibration", "evaluation", "record"}
BY DEF Documents, Document

\* The state is the same but for the place.
LEMMA SameTogether ==
    ASSUME NEW p, KeepsSamples(p)
    PROVE  Together(proc'[p]) = Together(proc[p])
BY DEF KeepsSamples, Together

LEMMA PlaceKept ==
    ASSUME TypeOK, NEW p \in Preparers, Place(proc[p]), Moved(p)
    PROVE  Place(proc'[p])
<1>1. CASE Starts(p)
  BY <1>1 DEF Starts, Goes, KeepsPlace, KeepsSamples, Place
<1>2. CASE Roots(p)
  BY <1>2 DEF Roots, Goes, Place
<1>3. CASE Lists(p)
  <2>1. Strict(proc'[p].files)
    BY <1>3, ProcessTypes, ListFacts, ConstantFacts DEF Lists
  <2> QED
    BY <1>3, <2>1 DEF Lists, Goes, Place
<1>4. CASE Decodes(p)
  BY <1>4, ProcessTypes DEF Decodes, Goes, Place
<1>5. CASE Counts(p)
  <2>1. 1 \in 1..PerClass
    BY ConstantFacts
  <2> QED
    BY <1>5, <2>1 DEF Counts, Goes, Place
<1>6. CASE Identifies(p)
  <2>1. Strict(proc[p].files) /\ Len(proc[p].files) >= PerClass /\ proc[p].i \in 1..PerClass
    BY <1>6 DEF Identifies, Place
  <2>2. proc[p].i # PerClass => proc[p].i + 1 \in 1..PerClass
    BY <2>1, ConstantFacts
  <2>3. proc[p].i = PerClass => 1 \in 1..Len(Together(proc'[p]))
    <3> SUFFICES ASSUME proc[p].i = PerClass PROVE 1 \in 1..Len(Together(proc'[p]))
      OBVIOUS
    <3>1. ~(PerClass <= CalPerClass)
      BY ConstantFacts
    <3>2. /\ proc'[p].evaluation = Append(proc[p].evaluation, Picked(proc[p]))
          /\ proc'[p].calibration = proc[p].calibration
          /\ Picked(proc[p]) \in Sample
      BY <1>6, <3>1 DEF Identifies
    <3>3. /\ proc'[p].evaluation \in Seq(Sample)
          /\ Len(proc'[p].evaluation) = Len(proc[p].evaluation) + 1
          /\ Len(proc[p].evaluation) \in Nat /\ Len(proc[p].calibration) \in Nat
      BY <3>2, ProcessTypes, AppendProperties, LenProperties
    <3>4. Len(Together(proc'[p])) = Len(proc[p].calibration) + Len(proc'[p].evaluation)
      BY <3>2, <3>3, ProcessTypes, ConcatProperties DEF Together
    <3>5. Len(Together(proc'[p])) = Len(proc[p].calibration) + (Len(proc[p].evaluation) + 1)
      BY <3>3, <3>4
    <3>6. \A a, b \in Nat : 1 \in 1..(a + (b + 1))
      OBVIOUS
    <3> QED
      BY <3>3, <3>5, <3>6
  <2> QED
    BY <1>6, <2>1, <2>2, <2>3 DEF Identifies, Place
<1>7. CASE Validates(p)
  <2>1. Together(proc'[p]) = Together(proc[p])
    BY <1>7, SameTogether DEF Validates
  <2>2. proc[p].i \in 1..Len(Together(proc[p])) /\ proc'[p].i = proc[p].i + 1
    BY <1>7 DEF Validates, Place
  <2>3. proc[p].i # Len(Together(proc[p])) => proc'[p].i \in 1..Len(Together(proc'[p]))
    BY <2>1, <2>2, ProcessTypes
  <2> QED
    BY <1>7, <2>3 DEF Validates, Place
<1>8. CASE Separates(p) \/ Makes(p) \/ Stops(p)
  BY <1>8 DEF Separates, Makes, Stops, Goes, Place
<1>9. CASE Publishes(p)
  BY <1>9, DocumentFacts DEF Publishes, Place
<1> QED
  BY <1>1, <1>2, <1>3, <1>4, <1>5, <1>6, <1>7, <1>8, <1>9 DEF Moved

\* One sample more of the class of label, none more of the others.
LEMMA OneMore ==
    ASSUME NEW s \in Seq(Sample), NEW x \in Sample, NEW l \in Classes
    PROVE  /\ Cardinality(Of(s, l)) \in Nat
           /\ l # x.label => Of(Append(s, x), l) = Of(s, l)
           /\ l = x.label =>
                 /\ Of(Append(s, x), l) = Of(s, l) \cup {x}
                 /\ x \notin Of(s, l) =>
                       Cardinality(Of(Append(s, x), l)) = Cardinality(Of(s, l)) + 1
<1>1. Range(Append(s, x)) = Range(s) \cup {x} /\ IsFiniteSet(Range(s))
  BY AppendFacts, FiniteRange
<1>2. IsFiniteSet(Of(s, l)) /\ Cardinality(Of(s, l)) \in Nat
  BY <1>1, FS_Subset, FS_CardinalityType DEF Of
<1>3. l # x.label => Of(Append(s, x), l) = Of(s, l)
  BY <1>1 DEF Of
<1>4. l = x.label => Of(Append(s, x), l) = Of(s, l) \cup {x}
  BY <1>1 DEF Of
<1> QED
  BY <1>2, <1>3, <1>4, FS_AddElement

LEMMA IdentifyCollects ==
    ASSUME TypeOK, NEW p \in Preparers, Place(proc[p]), Collected(proc[p]), Identifies(p)
    PROVE  Collected(proc'[p])
<1> DEFINE q == proc[p]
           r == proc'[p]
           x == Picked(q)
           label == q.label
<1>1. /\ x \in Sample /\ x.label = label /\ x.name = q.files[q.i] /\ label \in Classes
      /\ q.i \in 1..PerClass /\ Partial(q) /\ Strict(q.files) /\ q.files \in Seq(Names)
      /\ Len(q.files) \in Nat /\ Len(q.files) >= PerClass /\ r.files = q.files
      /\ q.calibration \in Seq(Sample) /\ q.evaluation \in Seq(Sample)
      /\ \A l \in Classes : (l < label => Full(q, l)) /\ (l > label => Empty(q, l))
  BY ProcessTypes DEF Identifies, Place, Collected, Picked
<1>2. x \notin Of(q.calibration, label) /\ x \notin Of(q.evaluation, label)
  <2>1. ASSUME NEW j \in 1..(q.i - 1) PROVE q.files[j] # q.files[q.i]
    <3>1. q.i \in 1..Len(q.files) /\ j \in 1..Len(q.files) /\ j < q.i
      <4>1. PerClass \in Nat
        BY ConstantFacts
      <4>2. q.i \in 1..PerClass /\ Len(q.files) \in Nat /\ Len(q.files) >= PerClass
        BY <1>1
      <4> QED
        BY <4>1, <4>2
    <3>2. q.files[j] < q.files[q.i] /\ q.files[j] \in Names /\ q.files[q.i] \in Names
      BY <1>1, <3>1, ElementOfSeq DEF Strict
    <3> QED
      BY <3>2, ConstantFacts
  <2> QED
    BY <1>1, <2>1 DEF Partial
<1>3. \A l \in Classes \ {label} :
          /\ Of(r.calibration, l) = Of(q.calibration, l)
          /\ Of(r.evaluation, l) = Of(q.evaluation, l)
  BY ZenonT(60), <1>1, OneMore DEF Identifies
<1>4. /\ Cardinality(Of(q.calibration, label)) = Early(q.i)
      /\ Cardinality(Of(q.evaluation, label)) = q.i - 1 - Early(q.i)
      /\ Early(q.i) \in Nat
  BY <1>1, ConstantFacts DEF Partial, Early
<1>5. /\ Cardinality(Of(r.calibration, label)) = Early(q.i + 1)
      /\ Cardinality(Of(r.evaluation, label)) = q.i - Early(q.i + 1)
  <2>1. CASE q.i <= CalPerClass
    <3>1. r.calibration = Append(q.calibration, x) /\ r.evaluation = q.evaluation
      BY <2>1 DEF Identifies
    <3>2. Cardinality(Of(r.calibration, label)) = Early(q.i) + 1
      BY <1>1, <1>2, <1>4, <3>1, OneMore
    <3>3. Early(q.i + 1) = q.i /\ Early(q.i) = q.i - 1
      BY <1>1, <2>1, ConstantFacts DEF Early
    <3> QED
      BY <1>1, <1>4, <3>1, <3>2, <3>3
  <2>2. CASE ~(q.i <= CalPerClass)
    <3>1. r.evaluation = Append(q.evaluation, x) /\ r.calibration = q.calibration
      BY <2>2 DEF Identifies
    <3>2. Cardinality(Of(r.evaluation, label)) = q.i - 1 - Early(q.i) + 1
      BY SMTT(30), <1>1, <1>2, <1>4, <3>1, OneMore
    <3>3. Early(q.i + 1) = CalPerClass /\ Early(q.i) = CalPerClass
      BY <1>1, <2>2, ConstantFacts DEF Early
    <3> QED
      BY <1>1, <1>4, <3>1, <3>2, <3>3, ConstantFacts
  <2> QED
    BY <2>1, <2>2
<1>6. \A y \in Of(r.calibration, label) \cup Of(r.evaluation, label) :
          \E j \in 1..q.i : y.name = q.files[j]
  <2>1. Of(r.calibration, label) \cup Of(r.evaluation, label) \subseteq
            Of(q.calibration, label) \cup Of(q.evaluation, label) \cup {x}
    <3>1. CASE q.i <= CalPerClass
      <4>1. r.calibration = Append(q.calibration, x) /\ r.evaluation = q.evaluation
        BY <3>1 DEF Identifies
      <4> HIDE DEF q, r, x, label
      <4> QED
        BY <1>1, <4>1, OneMore
    <3>2. CASE ~(q.i <= CalPerClass)
      <4>1. r.evaluation = Append(q.evaluation, x) /\ r.calibration = q.calibration
        BY <3>2 DEF Identifies
      <4> HIDE DEF q, r, x, label
      <4> QED
        BY <1>1, <4>1, OneMore
    <3> QED
      BY <3>1, <3>2
  <2>2. ASSUME NEW y \in Of(q.calibration, label) \cup Of(q.evaluation, label)
        PROVE  \E j \in 1..q.i : y.name = q.files[j]
    <3>1. PICK j \in 1..(q.i - 1) : y.name = q.files[j]
      BY <1>1 DEF Partial
    <3>2. j \in 1..q.i
      BY <1>1
    <3> QED
      BY <3>1, <3>2
  <2>3. q.i \in 1..q.i
    BY <1>1
  <2> QED
    BY <1>1, <2>1, <2>2, <2>3
<1>7. q.i = PerClass => Full(r, label)
  <2>1. Early(PerClass + 1) = CalPerClass /\ PerClass - CalPerClass = EvaPerClass
    BY ConstantFacts DEF Early
  <2> QED
    BY <1>5, <2>1 DEF Full
<1>8. \A l \in Classes : (l < label => Full(r, l)) /\ (l > label => Empty(r, l))
  BY <1>1, <1>3, ConstantFacts DEF Full, Empty
<1>9. CASE r.pc = "identify"
  <2>1. r.label = label /\ r.i = q.i + 1 /\ r.i - 1 = q.i
    BY SMTT(30), <1>1, <1>9 DEF Identifies
  <2>2. Partial(r)
    BY <1>1, <1>5, <1>6, <2>1 DEF Partial
  <2> QED
    BY <1>8, <1>9, <2>1, <2>2 DEF Collected, Finding
<1>10. CASE r.pc = "list"
  <2>1. r.label = label + 1 /\ q.i = PerClass /\ r.label \in Classes
    BY <1>10 DEF Identifies
  <2>2. ASSUME NEW l \in Classes PROVE (l < r.label => Full(r, l)) /\ (l >= r.label => Empty(r, l))
    <3>1. l \in Nat /\ label \in Nat
      BY <1>1, ConstantFacts
    <3>2. (l < r.label => l < label \/ l = label) /\ (l >= r.label => l > label)
      BY <2>1, <3>1
    <3> QED
      BY <1>7, <1>8, <2>1, <3>2
  <2> QED
    BY <1>10, <2>1, <2>2, ConstantFacts DEF Collected, Finding
<1>11. CASE r.pc = "validate"
  <2>1. label + 1 \notin Classes /\ q.i = PerClass
    BY <1>11 DEF Identifies
  <2>2. ASSUME NEW l \in Classes PROVE Full(r, l)
    <3>1. l \in Nat /\ label \in Nat /\ (l < label \/ l = label)
      BY <1>1, <2>1, ConstantFacts DEF Classes
    <3> QED
      BY <1>7, <1>8, <2>1, <3>1
  <2> QED
    BY <1>11, <2>2 DEF Collected, Finding
<1> QED
  BY <1>9, <1>10, <1>11 DEF Identifies

LEMMA CollectedKept ==
    ASSUME TypeOK, NEW p \in Preparers, Place(proc[p]), Collected(proc[p]), Moved(p)
    PROVE  Collected(proc'[p])
<1>1. CASE Identifies(p)
  BY <1>1, IdentifyCollects
<1>2. CASE Counts(p)
  <2>1. /\ KeepsSamples(p) /\ proc[p].pc = "decode" /\ proc'[p].pc = "identify"
        /\ proc'[p].label = proc[p].label /\ proc'[p].i = 1
    BY <1>2 DEF Counts, Goes
  <2>2. /\ Of(proc'[p].calibration, proc'[p].label) = {}
        /\ Of(proc'[p].evaluation, proc'[p].label) = {}
    BY <2>1 DEF Collected, Finding, Empty, KeepsSamples
  <2>3. Early(1) = 0 /\ 1 - 1 - Early(1) = 0 /\ Cardinality({}) = 0
    <3>1. CalPerClass \in Nat /\ CalPerClass # 0
      BY ConstantFacts
    <3>2. Early(1) = 0
      BY <3>1 DEF Early
    <3> QED
      BY <3>2, FS_EmptySet
  <2>4. Partial(proc'[p])
    BY <2>1, <2>2, <2>3 DEF Partial
  <2> QED
    BY <2>1, <2>4 DEF Collected, Finding, Full, Empty, KeepsSamples
<1>3. CASE Starts(p) \/ Roots(p) \/ Lists(p) \/ Decodes(p)
  <2>1. /\ KeepsSamples(p) /\ proc[p].pc \in Finding /\ proc'[p].pc \in Finding
        /\ proc'[p].label = proc[p].label
    BY <1>3 DEF Starts, Roots, Lists, Decodes, Goes, KeepsPlace, Finding
  <2> QED
    BY <2>1 DEF Collected, Finding, Full, Empty, KeepsSamples
<1>4. CASE Validates(p) \/ Separates(p) \/ Makes(p) \/ Publishes(p) \/ Stops(p)
  <2>1. /\ KeepsSamples(p)
        /\ \/ /\ proc[p].pc \in {"validate", "overlap", "mkdir", "write", "ok"}
              /\ proc'[p].pc \in {"overlap", "validate", "mkdir", "write", "ok", "failed"}
           \/ proc'[p].pc \in {"failed", "killed"}
    BY <1>4 DEF Validates, Separates, Makes, Publishes, Stops, Goes
  <2> QED
    BY <2>1 DEF Collected, Finding, Full, KeepsSamples
<1> QED
  BY <1>1, <1>2, <1>3, <1>4 DEF Moved

\* A sample of a manifest names a class and a file.
LEMMA SampleFacts ==
    ASSUME TypeOK, NEW p \in Preparers, NEW j \in 1..Len(Together(proc[p]))
    PROVE  /\ Together(proc[p])[j].label \in Classes
           /\ Together(proc[p])[j].name \in Names
<1>1. Together(proc[p])[j] \in Sample
  BY ProcessTypes, ElementOfSeq
<1> QED
  BY <1>1 DEF Sample

LEMMA ConfirmedKept ==
    ASSUME TypeOK, NEW p \in Preparers, Place(proc[p]), Confirmed(proc[p]), Moved(p)
    PROVE  Confirmed(proc[p])'
<1> DEFINE q == proc[p]
           r == proc'[p]
<1>0. folder' = folder
  BY DEF Moved, Inside, Starts, Roots, Lists, Decodes, Counts, Identifies, Validates, Separates,
     Makes, Publishes, Stops
<1>1. CASE Starts(p) \/ Roots(p) \/ Lists(p) \/ Decodes(p) \/ Counts(p) \/ Stops(p)
  BY <1>1 DEF Starts, Roots, Lists, Decodes, Counts, Stops, Goes, Confirmed
<1>2. CASE Identifies(p)
  <2> SUFFICES ASSUME r.pc = "validate" PROVE Confirmed(q)'
    BY <1>2 DEF Identifies, Confirmed
  <2>1. r.i = 1 /\ r.late = Now
    BY <1>2 DEF Identifies
  <2>2. \A j \in 1..(r.i - 1) : FALSE
    BY <2>1
  <2>3. \A l \in Classes, n \in Names : Content(folder, l, n) \in r.late[l][n]
    BY <2>1 DEF Now
  <2> QED
    BY <1>0, <2>2, <2>3 DEF Confirmed
<1>3. CASE Validates(p)
  <2>1. /\ Together(r) = Together(q) /\ r.late = q.late /\ r.i = q.i + 1
        /\ q.i \in 1..Len(Together(q)) /\ q.pc = "validate"
        /\ \A l \in Classes, n \in Names : Content(folder, l, n) \in q.late[l][n]
    BY <1>3, SameTogether DEF Validates, KeepsHistory, Place, Confirmed
  <2>2. Seen(q, Together(q)[q.i])
    <3>1. /\ Content(folder, Together(q)[q.i].label, Together(q)[q.i].name)
                = Together(q)[q.i].sha
      BY <1>3 DEF Validates
    <3>2. Together(q)[q.i].label \in Classes /\ Together(q)[q.i].name \in Names
      BY <2>1, SampleFacts
    <3> QED
      BY <2>1, <3>1, <3>2 DEF Seen
  <2>3. ASSUME NEW j \in 1..q.i PROVE Seen(r, Together(r)[j])
    <3>1. q.i \in Nat
      BY ProcessTypes
    <3>2. CASE j = q.i
      BY <2>1, <2>2, <3>2 DEF Seen
    <3>3. CASE j # q.i
      <4>1. j \in 1..(q.i - 1)
        BY <3>1, <3>3
      <4> QED
        BY <2>1, <4>1 DEF Confirmed, Seen
    <3> QED
      BY <3>2, <3>3
  <2>4. CASE q.i = Len(Together(q))
    <3>1. r.pc = "overlap"
      BY <1>3, <2>4 DEF Validates
    <3>2. ASSUME NEW s \in Range(Together(r)) PROVE Seen(r, s)
      <4>1. PICK j \in 1..Len(Together(q)) : s = Together(r)[j]
        BY <2>1, ProcessTypes, RangeEquality
      <4> QED
        BY <2>3, <2>4, <4>1
    <3> QED
      BY <3>1, <3>2 DEF Confirmed
  <2>5. CASE q.i # Len(Together(q))
    <3>1. r.pc = "validate" /\ r.i - 1 = q.i
      BY <1>3, <2>1, <2>5, ProcessTypes DEF Validates
    <3> QED
      BY <1>0, <2>1, <2>3, <3>1 DEF Confirmed
  <2> QED
    BY <2>4, <2>5
<1>4. CASE Separates(p) \/ Makes(p) \/ Publishes(p)
  <2>1. /\ Together(r) = Together(q) /\ r.late = q.late
        /\ q.pc \in {"overlap", "mkdir", "write", "ok"} /\ r.pc # "validate"
    BY <1>4, SameTogether DEF Separates, Makes, Publishes, Goes, KeepsHistory
  <2> QED
    BY <2>1 DEF Confirmed, Seen
<1> QED
  BY <1>1, <1>2, <1>3, <1>4 DEF Moved

LEMMA SeparateKept ==
    ASSUME NEW p \in Preparers, Separate(proc[p]), Moved(p)
    PROVE  Separate(proc'[p])
<1>1. CASE Makes(p) \/ Publishes(p) \/ Separates(p)
  BY <1>1 DEF Makes, Publishes, Separates, Goes, KeepsSamples, Separate, Apart, SameSample
<1>2. CASE ~(Makes(p) \/ Publishes(p) \/ Separates(p))
  <2>1. proc'[p].pc \notin {"mkdir", "write", "ok"}
    BY <1>2 DEF Moved, Starts, Roots, Lists, Decodes, Counts, Identifies, Validates, Stops, Goes
  <2> QED
    BY <2>1 DEF Separate
<1> QED
  BY <1>1, <1>2

\* What p has to publish stays the same once it is settled.
LEMMA SettledKept ==
    ASSUME NEW p, KeepsSamples(p), KeepsHistory(p), Settled(proc[p])
    PROVE  Settled(proc'[p])
<1>1. Together(proc'[p]) = Together(proc[p])
  BY SameTogether
<1> QED
  BY <1>1 DEF KeepsSamples, KeepsHistory, Settled, Full, Seen, Apart

\* Only the owner of the directory writes in it.
LEMMA OwnedKept ==
    ASSUME TypeOK, NEW p \in Preparers, Place(proc[p]), Collected(proc[p]),
           Confirmed(proc[p]), Separate(proc[p]), Owned(p), Moved(p),
           disk.owner = None => \A d \in Document : disk[d] = None
    PROVE  /\ Owned(p)'
           /\ disk'.owner = None => disk' = disk
           /\ disk' # disk => disk.owner \in {None, p} /\ disk'.owner = p
           /\ disk' \in [owner: Preparers \cup {None}, calibration: Seq(Sample) \cup {None},
                         evaluation: Seq(Sample) \cup {None}, record: Summary \cup {None}]
<1> DEFINE q == proc[p]
           r == proc'[p]
           Disk == [owner: Preparers \cup {None}, calibration: Seq(Sample) \cup {None},
                    evaluation: Seq(Sample) \cup {None}, record: Summary \cup {None}]
<1>0. disk \in Disk /\ None \notin Preparers
  BY ConstantFacts DEF TypeOK
<1>1. CASE Makes(p)
  <2>1. /\ disk' = [disk EXCEPT !.owner = p] /\ disk.owner = None /\ r.i = 1
        /\ q.pc = "mkdir" /\ r.pc = "write"
    BY <1>1 DEF Makes, Goes
  <2>2. disk' \in Disk /\ disk'.owner = p /\ \A d \in Document : disk'[d] = None
    BY <1>0, <2>1, DocumentFacts
  <2>3. Settled(q)
    BY <2>1 DEF Collected, Confirmed, Separate, Settled
  <2>4. Settled(r)
    BY <1>1, <2>3, SettledKept DEF Makes
  <2>5. Written(p)'
    <3>1. \A j \in 1..(r.i - 1) : FALSE
      BY <2>1
    <3> QED
      BY <2>1, <2>2, <3>1, DocumentFacts DEF Written, At
  <2> QED
    BY <1>0, <2>1, <2>2, <2>4, <2>5 DEF Owned
<1>2. CASE Publishes(p)
  <2> DEFINE d == Documents[q.i]
  <2>1. /\ q.pc = "write" /\ q.i \in 1..3 /\ disk.owner = p /\ Settled(q) /\ Written(p)
        /\ d \in Document /\ disk' = [disk EXCEPT ![d] = Value(p, d)]
        /\ KeepsSamples(p) /\ KeepsHistory(p) /\ r.total = q.total
        /\ q.i = 3 <=> d = "record"
    BY <1>2, DocumentFacts DEF Publishes, Owned
  <2>2. \A c \in Document : Value(p, c)' = Value(p, c)
    BY <2>1, DocumentFacts DEF Value, KeepsSamples
  <2>3. Settled(r)
    BY <2>1, SettledKept
  <2>4. /\ Value(p, "calibration") \in Seq(Sample) /\ Value(p, "evaluation") \in Seq(Sample)
        /\ Value(p, "record") \in Summary
    BY ProcessTypes DEF Value, Preparer, Summary
  <2> HIDE DEF d
  <2>5. /\ disk' \in Disk /\ disk'.owner = p /\ disk'[d] = Value(p, d)
        /\ \A c \in Document \ {d} : disk'[c] = disk[c]
    BY <1>0, <2>1, <2>4, DocumentFacts
  <2>6. d = "record" => \A c \in Document : disk'[c] = Value(p, c)
    <3> SUFFICES ASSUME d = "record" PROVE \A c \in Document : disk'[c] = Value(p, c)
      OBVIOUS
    <3>1. 1 \in 1..(q.i - 1) /\ 2 \in 1..(q.i - 1)
      BY <2>1
    <3>2. /\ disk["calibration"] = Value(p, "calibration")
          /\ disk["evaluation"] = Value(p, "evaluation")
      BY <2>1, <3>1, DocumentFacts DEF Written, At
    <3> QED
      BY <2>5, <3>2, DocumentFacts
  <2>7. disk'.record # None => \A c \in Document : disk'[c] = Value(p, c)
    <3>1. CASE d # "record"
      <4>1. disk'.record = disk.record
        BY <2>5, <3>1, DocumentFacts
      <4> QED
        BY <2>1, <2>5, <4>1 DEF Written
    <3> QED
      BY <2>6, <3>1
  <2>8. r.pc = "write" => \A j \in 1..(r.i - 1) : disk'[Documents[j]] = Value(p, Documents[j])
    <3> SUFFICES ASSUME r.pc = "write", NEW j \in 1..(r.i - 1)
                 PROVE  disk'[Documents[j]] = Value(p, Documents[j])
      OBVIOUS
    <3>1. r.i = q.i + 1 /\ q.i # 3
      BY <1>2, <2>1 DEF Publishes, d
    <3>2. CASE j = q.i
      BY <2>5, <3>2 DEF d
    <3>3. CASE j # q.i
      <4>1. j \in 1..(q.i - 1) /\ j \in 1..3
        BY <2>1, <3>1, <3>3
      <4>2. disk[Documents[j]] = Value(p, Documents[j]) /\ Documents[j] \in Document
        BY <2>1, <4>1, DocumentFacts DEF Written, At
      <4> QED
        BY <2>5, <4>2
    <3> QED
      BY <3>2, <3>3
  <2>9. r.pc \in {"write", "ok", "failed"} /\ (r.pc = "ok" => d = "record")
    BY <1>2 DEF Publishes, d
  <2>10. \A c \in Document : disk'[c] \in {None, Value(p, c)}
    BY <2>1, <2>5 DEF Written
  <2>11. Written(p)'
    <3>1. \A c \in Document : disk'[c] \in {None, Value(p, c)'}
      BY <2>2, <2>10
    <3>2. disk'.record # None => \A c \in Document : disk'[c] = Value(p, c)'
      BY <2>2, <2>7
    <3>3. r.pc = "write" =>
             \A j \in 1..(r.i - 1) : disk'[Documents[j]] = Value(p, Documents[j])'
      <4> SUFFICES ASSUME r.pc = "write", NEW j \in 1..(r.i - 1)
                   PROVE  disk'[Documents[j]] = Value(p, Documents[j])'
        OBVIOUS
      <4>1. j \in 1..3 /\ Documents[j] \in Document
        <5>1. r.i = q.i + 1
          BY <1>2 DEF Publishes
        <5>2. j \in 1..3
          BY <2>1, <5>1
        <5> QED
          BY <5>2, DocumentFacts
      <4> QED
        BY <2>2, <2>8, <4>1
    <3>4. r.pc = "ok" => \A c \in Document : disk'[c] = Value(p, c)'
      BY <2>2, <2>6, <2>9
    <3> QED
      BY <3>1, <3>2, <3>3, <3>4 DEF Written, At
  <2> QED
    BY <1>0, <2>1, <2>3, <2>5, <2>9, <2>11 DEF Owned
<1>3. CASE ~(Makes(p) \/ Publishes(p))
  <2>1. /\ disk' = disk /\ r.pc \notin {"write", "ok"}
        /\ q.pc \in {"write", "ok", "failed", "killed"} =>
              /\ q.pc = "write" /\ r.pc \in {"failed", "killed"}
              /\ KeepsSamples(p) /\ KeepsHistory(p) /\ KeepsPlace(p)
    BY <1>3 DEF Moved, Inside, Starts, Roots, Lists, Decodes, Counts, Identifies, Validates,
       Separates, Stops, Goes, Active, Reading
  <2>2. CASE disk.owner = p
    <3>1. /\ Settled(q) /\ Written(p) /\ r.pc \in {"failed", "killed"}
          /\ KeepsSamples(p) /\ KeepsHistory(p) /\ KeepsPlace(p)
      BY <2>1, <2>2 DEF Owned
    <3>2. \A c \in Document : Value(p, c)' = Value(p, c)
      BY <3>1, DocumentFacts DEF Value, KeepsSamples, KeepsPlace
    <3>3. Settled(r)
      BY <3>1, SettledKept
    <3>4. Written(p)'
      BY <2>1, <3>1, <3>2 DEF Written, At
    <3> QED
      BY <1>0, <2>1, <3>1, <3>3, <3>4 DEF Owned
  <2>3. CASE disk.owner # p
    BY <1>0, <2>1, <2>3 DEF Owned
  <2> QED
    BY <2>2, <2>3
<1> QED
  BY <1>1, <1>2, <1>3

LEMMA BystanderKept ==
    ASSUME NEW p \in Preparers, NEW q \in Preparers \ {p}, Proper(q),
           proc'[q] = proc[q], folder' = folder,
           disk' # disk => disk.owner \in {None, p} /\ disk'.owner = p, None \notin Preparers
    PROVE  Proper(q)'
<1>1. (Place(proc[q]) /\ Collected(proc[q]) /\ Separate(proc[q]))'
  BY DEF Proper, Place, Collected, Partial, Full, Empty, Separate, Apart
<1>2. Confirmed(proc[q])'
  BY DEF Proper, Confirmed, Seen
<1>3. Owned(q)'
  <2>1. CASE disk' = disk
    <3>1. \A d : Value(q, d)' = Value(q, d)
      BY DEF Value
    <3> QED
      BY <2>1, <3>1 DEF Proper, Owned, Settled, Full, Seen, Apart, Written, At
  <2>2. CASE disk' # disk
    BY <2>2 DEF Proper, Owned
  <2> QED
    BY <2>1, <2>2
<1> QED
  BY <1>1, <1>2, <1>3 DEF Proper

LEMMA StepKeepsInvariant ==
    ASSUME IInv, NEW p \in Preparers, Step(p) \/ Kill(p)
    PROVE  IInv'
<1>1. TypeOK /\ Proper(p) /\ None \notin Preparers
  BY ConstantFacts DEF IInv
<1>2. Whole /\ Others(p) /\ Moved(p)
  BY <1>1, Steps DEF Proper
<1>3. folder' = folder /\ changes' = changes
  BY <1>2 DEF Moved, Inside, Starts, Roots, Lists, Decodes, Counts, Identifies, Validates,
     Separates, Makes, Publishes, Stops
<1>4. /\ Owned(p)'
      /\ disk'.owner = None => disk' = disk
      /\ disk' # disk => disk.owner \in {None, p} /\ disk'.owner = p
      /\ disk' \in [owner: Preparers \cup {None}, calibration: Seq(Sample) \cup {None},
                    evaluation: Seq(Sample) \cup {None}, record: Summary \cup {None}]
  BY <1>1, <1>2, OwnedKept DEF IInv, Proper
<1>5. TypeOK'
  BY <1>1, <1>2, <1>3, <1>4 DEF TypeOK, Whole
<1>6. Proper(p)'
  BY <1>1, <1>2, <1>4, PlaceKept, CollectedKept, ConfirmedKept, SeparateKept DEF Proper
<1>7. ASSUME NEW q \in Preparers \ {p} PROVE Proper(q)'
  <2>1. Proper(q) /\ proc'[q] = proc[q]
    BY <1>2 DEF IInv, Others
  <2> QED
    BY <1>1, <1>3, <1>4, <2>1, BystanderKept
<1>8. disk'.owner = None => \A d \in Document : disk'[d] = None
  BY <1>4 DEF IInv
<1> QED
  BY <1>5, <1>6, <1>7, <1>8 DEF IInv

-----------------------------------------------------------------------------
(* The invariant over changes of the folder                                *)

LEMMA FolderFacts ==
    ASSUME TypeOK, Change
    PROVE  folder' \in Folder /\ changes' \in 0..MaxChanges
<1>1. folder \in Folder
  BY DEF TypeOK
<1>2. changes' \in 0..MaxChanges
  <2>1. changes < MaxChanges /\ changes' = changes + 1
    BY DEF Change
  <2>2. changes \in 0..MaxChanges /\ MaxChanges \in Nat
    BY PreparationAssumption DEF TypeOK, PreparationAssumption
  <2> QED
    BY <2>1, <2>2
<1>3. ASSUME NEW l \in Entries, NEW n \in Names, NEW v \in Contents \cup {None},
             IsDirectory(folder, l), folder' = [folder EXCEPT ![l][n] = v]
      PROVE  folder' \in Folder
  <2>1. folder[l] \in Class
    BY <1>1, <1>3 DEF IsDirectory, Folder
  <2>2. [folder[l] EXCEPT ![n] = v] \in Class
    BY <2>1 DEF Class
  <2> QED
    BY <1>1, <1>3, <2>2 DEF Folder
<1>4. ASSUME NEW l \in Entries, NEW d \in {Junk, None, [n \in Names |-> None]},
             folder' = [folder EXCEPT ![l] = d]
      PROVE  folder' \in Folder
  <2>1. d \in Class \cup {Junk, None}
    BY DEF Class
  <2> QED
    BY <1>1, <1>4, <2>1 DEF Folder
<1> QED
  BY <1>2, <1>3, <1>4 DEF Change

LEMMA ChangeKeepsInvariant == ASSUME IInv, Change PROVE IInv'
<1>1. /\ TypeOK /\ disk' = disk /\ folder' \in Folder /\ changes' \in 0..MaxChanges
  BY FolderFacts DEF IInv, Change
<1> DEFINE later(p) == [l \in Classes |-> [n \in Names |->
                          proc[p].late[l][n] \cup {Content(folder', l, n)}]]
           late(p) == IF proc[p].pc # "validate" THEN proc[p].late ELSE later(p)
           began(p) == IF proc[p].pc \in Reading THEN None ELSE proc[p].began
<1>2. ASSUME NEW p \in Preparers
      PROVE  proc'[p] = [proc[p] EXCEPT !.began = began(p), !.late = late(p)]
  BY DEF Change
<1>3. ASSUME NEW p \in Preparers
      PROVE  /\ proc'[p] \in Preparer /\ proc'[p].late = late(p)
             /\ proc'[p].pc = proc[p].pc /\ KeepsPlace(p) /\ KeepsSamples(p)
  <2>1. proc[p] \in Preparer
    BY <1>1 DEF TypeOK
  <2>2. late(p) \in [Classes -> [Names -> SUBSET (Contents \cup {None})]]
    <3>1. later(p) \in [Classes -> [Names -> SUBSET (Contents \cup {None})]]
      BY <1>1, <2>1, ContentFacts, ConstantFacts DEF Preparer
    <3> HIDE DEF later
    <3> QED
      BY <2>1, <3>1 DEF Preparer
  <2>3. began(p) \in Folder \cup {None}
    BY <2>1 DEF Preparer
  <2> HIDE DEF late, began
  <2> QED
    <3>1. proc'[p] = [proc[p] EXCEPT !.began = began(p), !.late = late(p)]
      BY <1>2
    <3> DEFINE r == proc'[p]
    <3>2. r = [proc[p] EXCEPT !.began = began(p), !.late = late(p)]
      BY <3>1
    <3> HIDE DEF r
    <3>3. /\ r \in Preparer /\ r.late = late(p) /\ r.pc = proc[p].pc
          /\ r.label = proc[p].label /\ r.files = proc[p].files /\ r.i = proc[p].i
          /\ r.total = proc[p].total /\ r.calibration = proc[p].calibration
          /\ r.evaluation = proc[p].evaluation
      BY <2>1, <2>2, <2>3, <3>2 DEF Preparer
    <3> QED
      BY <3>3 DEF r, KeepsPlace, KeepsSamples
<1>4. TypeOK'
  <2>1. proc' = [p \in Preparers |-> proc'[p]]
    BY DEF Change
  <2> QED
    BY <1>1, <1>3, <2>1 DEF TypeOK
<1>5. ASSUME NEW p \in Preparers PROVE Proper(p)'
  <2>1. Proper(p) /\ Together(proc'[p]) = Together(proc[p])
    BY <1>3, SameTogether DEF IInv
  <2> HIDE DEF late, later, began
  <2>a. Place(proc[p])'
    BY <1>3, <2>1 DEF Proper, Place, KeepsPlace, KeepsSamples
  <2>b. Collected(proc[p])'
    BY <1>3, <2>1 DEF Proper, Collected, Partial, Full, Empty, KeepsPlace, KeepsSamples
  <2>c. Separate(proc[p])'
    BY <1>3, <2>1 DEF Proper, Separate, Apart, KeepsSamples
  <2>2. (Place(proc[p]) /\ Collected(proc[p]) /\ Separate(proc[p]))'
    BY <2>a, <2>b, <2>c
  <2>3. CASE proc[p].pc # "validate"
    <3>1. proc'[p].late = proc[p].late
      BY <1>3, <2>3 DEF late
    <3>2. Confirmed(proc[p])'
      BY <1>3, <2>1, <2>3, <3>1 DEF Proper, Confirmed, Seen
    <3>3. \A d \in Document : Value(p, d)' = Value(p, d)
      BY <1>3, DocumentFacts DEF Value, KeepsPlace, KeepsSamples
    <3>5. Settled(proc[p]) => Settled(proc'[p])
      BY <1>3, <2>1, <3>1 DEF Settled, Full, Seen, Apart, KeepsSamples
    <3>6. Owned(p)'
      <4>1. proc'[p].i = proc[p].i /\ proc'[p].pc = proc[p].pc
        BY <1>3 DEF KeepsPlace
      <4>2. disk.owner = p => Written(p)'
        <5> SUFFICES ASSUME disk.owner = p PROVE Written(p)'
          OBVIOUS
        <5>1. Written(p) /\ Place(proc[p])
          BY <2>1 DEF Proper, Owned
        <5>2. proc[p].pc = "write" =>
                  \A j \in 1..(proc[p].i - 1) : Documents[j] \in Document
          BY <5>1, DocumentFacts DEF Place
        <5> QED
          BY <1>1, <3>3, <4>1, <5>1, <5>2 DEF Written, At
      <4> QED
        BY <1>1, <2>1, <3>5, <4>1, <4>2 DEF Proper, Owned
    <3> QED
      BY <2>2, <3>2, <3>6 DEF Proper
  <2>4. CASE proc[p].pc = "validate"
    <3>1. proc'[p].late = later(p)
      BY <1>3, <2>4 DEF late
    <3>2. \A l \in Classes, n \in Names :
              /\ Content(folder', l, n) \in proc'[p].late[l][n]
              /\ proc[p].late[l][n] \subseteq proc'[p].late[l][n]
      BY <3>1 DEF later
    <3>3. ASSUME NEW j \in 1..(proc'[p].i - 1) PROVE Seen(proc'[p], Together(proc'[p])[j])
      <4>1. proc'[p].i = proc[p].i /\ proc[p].i \in 1..Len(Together(proc[p]))
        BY <1>3, <2>1, <2>4 DEF Proper, Place, KeepsPlace
      <4>2. j \in 1..Len(Together(proc[p]))
        BY <1>1, <4>1, ProcessTypes
      <4>3. Seen(proc[p], Together(proc[p])[j])
        BY <2>1, <2>4, <4>1 DEF Proper, Confirmed
      <4> QED
        BY <1>1, <2>1, <3>2, <4>2, <4>3, SampleFacts DEF Seen
    <3>4. Confirmed(proc[p])'
      BY <1>3, <2>4, <3>2, <3>3 DEF Confirmed
    <3>5. Owned(p)'
      BY <1>1, <1>3, <2>1, <2>4 DEF Proper, Owned
    <3> QED
      BY <2>2, <3>4, <3>5 DEF Proper
  <2> QED
    BY <2>3, <2>4
<1> QED
  BY <1>1, <1>4, <1>5 DEF IInv

LEMMA InitInvariant == Init => IInv
<1> SUFFICES ASSUME Init PROVE IInv
  OBVIOUS
<1>1. TypeOK
  <2>1. folder \in Folder /\ changes \in 0..MaxChanges
    BY PreparationAssumption DEF Init, PreparationAssumption
  <2>2. <<>> \in Seq(Names) /\ <<>> \in Seq(Sample)
    OBVIOUS
  <2>3. Unknown \in [Classes -> [Names -> SUBSET (Contents \cup {None})]]
    BY DEF Unknown
  <2> QED
    BY <2>1, <2>2, <2>3, ConstantFacts DEF Init, TypeOK, Preparer
<1>2. \A d \in Document : disk[d] = None
  BY DocumentFacts DEF Init
<1>3. ASSUME NEW p \in Preparers PROVE Proper(p)
  <2>1. /\ proc[p].pc = "start" /\ proc[p].label = 0 /\ proc[p].total = 0
        /\ proc[p].calibration = <<>> /\ proc[p].evaluation = <<>>
        /\ disk.owner = None
    BY DEF Init
  <2>2. Range(<<>>) = {}
    BY DEF Range
  <2>3. \A l \in Classes : Empty(proc[p], l) /\ ~(l < 0)
    BY <2>1, <2>2, ConstantFacts DEF Empty, Of
  <2>4. Collected(proc[p])
    BY <2>1, <2>3, ConstantFacts DEF Collected, Finding
  <2>5. Place(proc[p]) /\ Confirmed(proc[p]) /\ Separate(proc[p]) /\ Owned(p)
    BY <2>1, ConstantFacts DEF Place, Confirmed, Separate, Owned
  <2> QED
    BY <2>4, <2>5 DEF Proper
<1> QED
  BY <1>1, <1>2, <1>3 DEF IInv

LEMMA Inductive == Spec => []IInv
<1>1. IInv /\ [Next]_vars => IInv'
  <2> SUFFICES ASSUME IInv, [Next]_vars PROVE IInv'
    OBVIOUS
  <2>1. CASE UNCHANGED vars
    <3>1. UNCHANGED <<folder, changes, disk, proc>>
      BY <2>1 DEF vars
    <3>2. TypeOK' /\ (disk.owner = None => \A d \in Document : disk[d] = None)'
      BY <3>1 DEF IInv, TypeOK
    <3>3. ASSUME NEW p \in Preparers PROVE Proper(p)'
      <4>1. \A d : Value(p, d)' = Value(p, d)
        BY <3>1 DEF Value
      <4>2. Proper(p)
        BY DEF IInv
      <4>3. Owned(p)'
        BY <3>1, <4>1, <4>2 DEF Proper, Owned, Settled, Full, Seen, Apart, Written, At
      <4> QED
        BY <3>1, <4>2, <4>3
           DEF Proper, Place, Collected, Partial, Full, Empty, Separate, Apart, Confirmed, Seen
    <3> QED
      BY <3>2, <3>3 DEF IInv
  <2> QED
    BY <2>1, StepKeepsInvariant, ChangeKeepsInvariant DEF Next
<1> QED
  BY <1>1, InitInvariant, PTL DEF Spec

-----------------------------------------------------------------------------
(* Theorems                                                                *)

\* What is on disk is the settled value of the preparer that owns it.
LEMMA Ownership ==
    ASSUME IInv, NEW d \in Document, disk[d] # None
    PROVE  /\ disk.owner \in Preparers /\ Settled(proc[disk.owner])
           /\ disk[d] = Value(disk.owner, d)
           /\ Written(disk.owner)
<1>1. disk.owner \in Preparers
  BY DEF IInv, TypeOK
<1> QED
  BY <1>1 DEF IInv, Proper, Owned, Written

\* Every variable of the preparation stays in its type.
THEOREM TypeCorrect == Spec => []TypeOK
BY Inductive, PTL DEF IInv

\* Where there is a preparation record, there are the manifests it counts, and
\* a preparer that reports success has left all three files.
THEOREM RecordsAreWhole == Spec => []RecordMeansWhole
<1>1. ASSUME IInv PROVE RecordMeansWhole
  <2>1. ASSUME disk.record # None
        PROVE  /\ disk.calibration = disk.record.calibration
               /\ disk.evaluation = disk.record.evaluation
    BY <1>1, <2>1, Ownership, DocumentFacts DEF Written, Value
  <2>2. ASSUME NEW p \in Preparers, At(p, "ok")
        PROVE  disk.owner = p /\ \A d \in Document : disk[d] = Value(p, d)
    BY <1>1, <2>2 DEF IInv, Proper, Owned, Written, At
  <2> QED
    BY <2>1, <2>2 DEF RecordMeansWhole
<1> QED
  BY <1>1, Inductive, PTL

\* A digest that is published was the one of its file after the last file
\* had been identified.
THEOREM DigestsUpToDate == Spec => []UpToDate
<1>1. ASSUME IInv PROVE UpToDate
  <2> SUFFICES ASSUME NEW d \in {"calibration", "evaluation"}, disk[d] # None,
                      NEW s \in Range(disk[d])
               PROVE  s.sha \in proc[disk.owner].late[s.label][s.name]
    BY DEF UpToDate
  <2> DEFINE p == disk.owner
  <2>1. p \in Preparers /\ Settled(proc[p]) /\ disk[d] = proc[p][d]
    BY <1>1, Ownership, DocumentFacts DEF Value
  <2>2. s \in Range(proc[p].calibration) \cup Range(proc[p].evaluation)
    BY <2>1
  <2>3. /\ proc[p].calibration \in Seq(Sample) /\ proc[p].evaluation \in Seq(Sample)
    BY <1>1, <2>1, ProcessTypes DEF IInv
  <2>4. s \in Range(Together(proc[p]))
    BY <2>2, <2>3, RangeConcatenation DEF Together
  <2> QED
    BY <2>1, <2>4 DEF Settled, Seen
<1> QED
  BY <1>1, Inductive, PTL

\* The published manifests are a split: nothing in common, and the number of
\* samples of each class that was asked for.
THEOREM ManifestsSplit == Spec => []Split
<1>1. ASSUME IInv PROVE Split
  <2> SUFFICES ASSUME disk.calibration # None, disk.evaluation # None
               PROVE  LET c == disk.calibration
                          e == disk.evaluation
                      IN  /\ \A x \in Range(c), y \in Range(e) : ~SameSample(x, y)
                          /\ \A l \in Classes :
                                /\ Cardinality({x \in Range(c) : x.label = l}) = CalPerClass
                                /\ Cardinality({y \in Range(e) : y.label = l}) = EvaPerClass
    BY DEF Split
  <2>1. /\ Settled(proc[disk.owner])
        /\ disk.calibration = proc[disk.owner].calibration
        /\ disk.evaluation = proc[disk.owner].evaluation
    BY <1>1, Ownership, DocumentFacts DEF Value
  <2> QED
    BY <2>1 DEF Settled, Apart, Full, Of
<1> QED
  BY <1>1, Inductive, PTL
-----------------------------------------------------------------------------
(* What is selected                                                        *)

\* Manifests of c and e samples, as the definition by ranks has them.
Correct(q, c, e) ==
    /\ Len(q.calibration) = c /\ Len(q.evaluation) = e
    /\ \A k \in 1..c : q.calibration[k] = Nth(q.began, CalPerClass, 0, k)
    /\ \A k \in 1..e : q.evaluation[k] = Nth(q.began, EvaPerClass, CalPerClass, k)
Below(f, l) == {x \in Classes \X Names : x[2] \in Present(f, x[1]) /\ x[1] < l}
Classwise(q, l, i) ==
    Correct(q, l * CalPerClass + Early(i), l * EvaPerClass + (i - 1 - Early(i)))
Finished(q) ==
    /\ Correct(q, ClassCount * CalPerClass, ClassCount * EvaPerClass)
    /\ q.total = Cardinality(Below(q.began, ClassCount))

\* The invariant of the selection, as long as the folder is the one of the start.
Selecting(q) ==
    /\ q.pc \in {"root", "list", "decode"} =>
          Classwise(q, q.label, 1) /\ q.total = Cardinality(Below(q.began, q.label))
    /\ q.pc \in {"decode", "identify"} =>
          /\ q.files = Ascending(Present(q.began, q.label))
          /\ IsDirectory(q.began, q.label)
    /\ q.pc = "identify" =>
          Classwise(q, q.label, q.i) /\ q.total = Cardinality(Below(q.began, q.label + 1))
    /\ q.pc \in {"validate", "overlap", "mkdir", "write", "ok"} => Finished(q)
Chosen(p) ==
    LET q == proc[p] IN q.began # None =>
        /\ q.pc \in Reading => q.began = folder
        /\ Selecting(q)
        /\ disk.owner = p => Finished(q)
SInv == \A p \in Preparers : Chosen(p)

\* A number written with a quotient and a remainder.
LEMMA Division ==
    ASSUME NEW a \in Nat, NEW b \in Nat \ {0}, NEW r \in 0..(b - 1)
    PROVE  (a * b + r) \div b = a /\ (a * b + r) % b = r
OBVIOUS

\* In the ascending enumeration of a set of names, each stands at its rank.
LEMMA Ranks ==
    ASSUME NEW S \in SUBSET Nat, IsFiniteSet(S), NEW j \in 1..Cardinality(S)
    PROVE  (CHOOSE x \in S : Cardinality({m \in S : m < x}) = j - 1) = Ascending(S)[j]
<1> DEFINE n == Cardinality(S)
           s == Ascending(S)
           less(x) == {m \in S : m < x}
<1>1. /\ n \in Nat /\ s \in [1..n -> S]
      /\ \A i, k \in 1..n : i < k => s[i] < s[k]
  BY AscendingFacts
<1> HIDE DEF n, s
<1>2. s \in Injection(1..n, S)
  <2>1. ASSUME NEW i \in 1..n, NEW k \in 1..n, s[i] = s[k] PROVE i = k
    <3>1. s[i] \in Nat /\ s[k] \in Nat
      BY <1>1
    <3>2. ~(s[i] < s[k]) /\ ~(s[k] < s[i])
      BY <2>1, <3>1
    <3>3. ~(i < k) /\ ~(k < i)
      BY <1>1, <3>2
    <3> QED
      BY <1>1, <3>3
  <2> QED
    BY <1>1, <2>1 DEF Injection, IsInjective
<1>3. s \in Surjection(1..n, S)
  <2>1. IsFiniteSet(1..n) /\ Cardinality(1..n) = n
    BY <1>1, FS_Interval
  <2> QED
    BY <1>2, <2>1, FS_Injection DEF n
<1>4. ASSUME NEW i \in 1..n PROVE less(s[i]) = {s[k] : k \in 1..(i - 1)}
  <2>1. ASSUME NEW m \in less(s[i]) PROVE \E k \in 1..(i - 1) : m = s[k]
    <3>1. PICK k \in 1..n : m = s[k]
      BY <1>3 DEF Surjection
    <3>2. m \in Nat /\ s[i] \in Nat /\ m < s[i]
      BY <1>1
    <3>3. k # i /\ ~(i < k)
      BY <1>1, <3>1, <3>2
    <3> QED
      BY <1>1, <3>1, <3>3
  <2>2. ASSUME NEW k \in 1..(i - 1) PROVE s[k] \in less(s[i])
    BY <1>1
  <2> QED
    BY <2>1, <2>2
<1>5. ASSUME NEW i \in 1..n PROVE Cardinality(less(s[i])) = i - 1
  <2> DEFINE t == [k \in 1..(i - 1) |-> s[k]]
  <2>1. t \in Bijection(1..(i - 1), less(s[i]))
    <3>1. \A k \in 1..(i - 1) : k \in 1..n
      BY <1>1
    <3>2. t \in Surjection(1..(i - 1), less(s[i]))
      BY <1>4 DEF Surjection
    <3>3. t \in Injection(1..(i - 1), less(s[i]))
      BY <1>2, <1>4, <3>1 DEF Injection, IsInjective
    <3> QED
      BY <3>2, <3>3 DEF Bijection
  <2>2. IsFiniteSet(1..(i - 1)) /\ Cardinality(1..(i - 1)) = i - 1
    BY <1>1, FS_Interval
  <2> HIDE DEF t
  <2> QED
    BY <2>1, <2>2, FS_Bijection DEF ExistsBijection
<1>6. s[j] \in S /\ Cardinality(less(s[j])) = j - 1
  BY <1>1, <1>5 DEF n
<1>7. ASSUME NEW x \in S, Cardinality(less(x)) = j - 1 PROVE x = s[j]
  <2>1. PICK i \in 1..n : x = s[i]
    BY <1>3 DEF Surjection
  <2>2. i - 1 = j - 1
    BY <1>5, <1>7, <2>1
  <2> QED
    BY <2>1, <2>2 DEF n
<1> QED
  BY <1>6, <1>7 DEF s

\* The n-th sample of the definition is the file at its place in the listing.
LEMMA NthFile ==
    ASSUME NEW f \in Folder, NEW l \in Classes, IsDirectory(f, l),
           NEW per \in Nat \ {0}, NEW skip \in Nat, NEW j \in 1..per,
           skip + j <= Len(Ascending(Present(f, l)))
    PROVE  LET name == Ascending(Present(f, l))[skip + j]
           IN  Nth(f, per, skip, l * per + j) =
                  [label |-> l, name |-> name, sha |-> Content(f, l, name)]
<1> DEFINE S == Present(f, l)
           s == Ascending(S)
           k == l * per + j
<1>1. l \in Entries /\ l \in Nat /\ S \in SUBSET Names /\ S \in SUBSET Nat /\ IsFiniteSet(S)
  BY ConstantFacts, ContentFacts, FS_Subset
<1>2. Len(s) = Cardinality(S) /\ Cardinality(S) \in Nat
  <2>1. s \in [1..Cardinality(S) -> S] /\ Cardinality(S) \in Nat
    BY <1>1, AscendingFacts
  <2>2. s \in Seq(Names)
    BY <1>1, ListFacts
  <2> HIDE DEF s, S
  <2> QED
    BY <2>1, <2>2, LenProperties
<1>3. (k - 1) \div per = l /\ (k - 1) % per = j - 1
  <2>1. j - 1 \in 0..(per - 1)
    OBVIOUS
  <2>2. (l * per + (j - 1)) \div per = l /\ (l * per + (j - 1)) % per = j - 1
    BY <1>1, <2>1, Division
  <2>3. k - 1 = l * per + (j - 1)
    <3>1. l * per \in Nat
      BY <1>1
    <3> QED
      BY <3>1
  <2> HIDE DEF k
  <2> QED
    BY <2>2, <2>3
<1>4. skip + j \in 1..Cardinality(S) /\ skip + (j - 1) = (skip + j) - 1
  BY <1>2
<1>5. (CHOOSE n \in S : Cardinality({m \in S : m < n}) = skip + (j - 1)) = s[skip + j]
  BY <1>1, <1>4, Ranks
<1>6. Content(f, l, s[skip + j]) = f[l][s[skip + j]]
  BY DEF Content
<1> HIDE DEF s
<1>7. Nth(f, per, skip, k) = [label |-> l, name |-> s[skip + j], sha |-> f[l][s[skip + j]]]
  BY <1>3, <1>5 DEF Nth
<1> QED
  BY <1>6, <1>7 DEF s

LEMMA Sizes ==
    ASSUME NEW a \in Nat, NEW b \in Nat
    PROVE  a * b \in Nat /\ (a + 1) * b = a * b + b /\ 0 * b = 0
OBVIOUS

\* The files of the first classes, counted class by class.
LEMMA BelowNext ==
    ASSUME NEW f \in Folder, NEW l \in Classes
    PROVE  Cardinality(Below(f, l + 1)) =
              Cardinality(Below(f, l)) + Len(Ascending(Present(f, l)))
<1> DEFINE S == Present(f, l)
           B == Below(f, l)
           row == {l} \X S
<1>1. l \in Entries /\ l \in Nat /\ S \in SUBSET Names /\ S \in SUBSET Nat /\ IsFiniteSet(S)
  BY ConstantFacts, ContentFacts, FS_Subset
<1>2. Len(Ascending(S)) = Cardinality(S) /\ Cardinality(S) \in Nat
  <2>1. Ascending(S) \in [1..Cardinality(S) -> S] /\ Cardinality(S) \in Nat
    BY <1>1, AscendingFacts
  <2>2. Ascending(S) \in Seq(Names)
    BY <1>1, ListFacts
  <2> HIDE DEF S
  <2> QED
    BY <2>1, <2>2, LenProperties
<1>3. IsFiniteSet(B) /\ Cardinality(B) \in Nat
  <2>1. IsFiniteSet(Classes)
    BY ConstantFacts, FS_Interval DEF Classes
  <2>2. IsFiniteSet(Classes \X Names)
    BY <2>1, ConstantFacts, FS_Product
  <2>3. B \subseteq Classes \X Names
    BY DEF Below
  <2> QED
    BY <2>2, <2>3, FS_Subset, FS_CardinalityType
<1>4. IsFiniteSet(row) /\ Cardinality(row) = Cardinality(S)
  <2>1. IsFiniteSet({l}) /\ Cardinality({l}) = 1
    BY FS_Singleton
  <2>2. IsFiniteSet(row) /\ Cardinality(row) = 1 * Cardinality(S)
    BY <1>1, <2>1, FS_Product
  <2> QED
    BY <1>2, <2>2
<1>5. Below(f, l + 1) = B \cup row
  <2>1. ASSUME NEW c \in Classes, NEW n \in Names
        PROVE  <<c, n>> \in Below(f, l + 1) <=> <<c, n>> \in B \cup row
    <3>1. c \in Nat /\ (c < l + 1 <=> c < l \/ c = l)
      BY <1>1, ConstantFacts
    <3>2. <<c, n>> \in Below(f, l + 1) <=> n \in Present(f, c) /\ c < l + 1
      BY DEF Below
    <3>3. <<c, n>> \in B <=> n \in Present(f, c) /\ c < l
      BY DEF Below
    <3>4. <<c, n>> \in row <=> c = l /\ n \in S
      OBVIOUS
    <3> QED
      BY <3>1, <3>2, <3>3, <3>4
  <2>2. Below(f, l + 1) \subseteq Classes \X Names /\ B \cup row \subseteq Classes \X Names
    BY <1>1 DEF Below
  <2> HIDE DEF B, row
  <2> QED
    BY <2>1, <2>2
<1>6. B \cap row = {}
  <2>1. \A x \in B : x[1] < l
    BY DEF Below
  <2>2. \A x \in row : x[1] = l
    OBVIOUS
  <2> HIDE DEF B, row
  <2> QED
    BY <1>1, <2>1, <2>2
<1>7. Cardinality({}) = 0
  BY FS_EmptySet
<1> HIDE DEF B, row, S
<1>8. Cardinality(B \cup row) = Cardinality(B) + Cardinality(row) - Cardinality(B \cap row)
  BY <1>3, <1>4, FS_Union
<1>9. Cardinality(B \cap row) = 0
  BY <1>6, <1>7
<1>10. Cardinality(B \cup row) = Cardinality(B) + Len(Ascending(S))
  BY <1>2, <1>3, <1>4, <1>8, <1>9
<1> QED
  BY <1>5, <1>10 DEF B, S

LEMMA BelowFirst == \A f : Cardinality(Below(f, 0)) = 0
<1>1. ASSUME NEW f PROVE Below(f, 0) = {}
  <2>1. ASSUME NEW x \in Below(f, 0) PROVE FALSE
    <3>1. x[1] \in Classes /\ x[1] < 0
      BY DEF Below
    <3>2. x[1] \in Nat
      BY <3>1, ConstantFacts
    <3> QED
      BY <3>1, <3>2
  <2> QED
    BY <2>1
<1> QED
  BY <1>1, FS_EmptySet

\* One sample more, at its place.
LEMMA Extended ==
    ASSUME NEW f, NEW per, NEW skip, NEW s \in Seq(Sample), NEW d \in Nat,
           Nth(f, per, skip, d) \in Sample, Len(s) + 1 = d,
           \A k \in 1..Len(s) : s[k] = Nth(f, per, skip, k)
    PROVE  /\ Len(Append(s, Nth(f, per, skip, d))) = d
           /\ \A k \in 1..d : Append(s, Nth(f, per, skip, d))[k] = Nth(f, per, skip, k)
<1> DEFINE x == Nth(f, per, skip, d)
           t == Append(s, x)
<1>1. /\ Len(t) = Len(s) + 1 /\ t[Len(s) + 1] = x
      /\ \A k \in 1..Len(s) : t[k] = s[k]
  BY AppendProperties
<1>2. \A k \in 1..d : k \in 1..Len(s) \/ k = d
  BY LenProperties
<1> HIDE DEF x, t
<1>3. t[d] = Nth(f, per, skip, d) /\ Len(t) = d
  BY <1>1 DEF x
<1>4. \A k \in 1..Len(s) : t[k] = Nth(f, per, skip, k)
  BY <1>1
<1>5. Len(t) = d /\ \A k \in 1..d : t[k] = Nth(f, per, skip, k)
  BY <1>2, <1>3, <1>4
<1> QED
  BY <1>5 DEF t, x

\* What is correct stays so as long as the samples and the history do.
LEMMA SameCorrect ==
    ASSUME NEW q, NEW r, r.calibration = q.calibration, r.evaluation = q.evaluation,
           r.began = q.began
    PROVE  /\ \A c, e : Correct(r, c, e) <=> Correct(q, c, e)
           /\ \A l, i : Classwise(r, l, i) <=> Classwise(q, l, i)
           /\ r.total = q.total => (Finished(r) <=> Finished(q))
<1>1. \A c, e : Correct(r, c, e) <=> Correct(q, c, e)
  BY DEF Correct
<1> QED
  BY <1>1 DEF Classwise, Finished

\* How many of the first files of a class go to calibration, and what that
\* makes of the place of the next sample in its manifest.
LEMMA EarlyEnds == Early(1) = 0 /\ Early(PerClass + 1) = CalPerClass
BY ConstantFacts DEF Early

LEMMA EarlyCalibration ==
    ASSUME NEW i \in 1..PerClass, i <= CalPerClass
    PROVE  /\ i \in 1..CalPerClass /\ Early(i) = i - 1 /\ Early(i + 1) = i
           /\ i - 1 - Early(i) = 0 /\ i - Early(i + 1) = 0
<1>1. i \in Nat /\ CalPerClass \in Nat
  BY ConstantFacts
<1>2. Early(i) = i - 1
  BY DEF Early
<1>3. Early(i + 1) = i
  BY <1>1 DEF Early
<1> QED
  BY <1>1, <1>2, <1>3

LEMMA EarlyEvaluation ==
    ASSUME NEW i \in 1..PerClass, ~(i <= CalPerClass)
    PROVE  \E j \in 1..EvaPerClass :
              /\ i = CalPerClass + j
              /\ Early(i) = CalPerClass /\ Early(i + 1) = CalPerClass
              /\ i - 1 - Early(i) = j - 1 /\ i - Early(i + 1) = j
<1>1. i \in Nat /\ CalPerClass \in Nat /\ EvaPerClass \in Nat /\ i <= CalPerClass + EvaPerClass
  BY ConstantFacts
<1>2. Early(i) = CalPerClass
  BY DEF Early
<1>3. Early(i + 1) = CalPerClass
  BY <1>1 DEF Early
<1>4. i - CalPerClass \in 1..EvaPerClass /\ i = CalPerClass + (i - CalPerClass)
  BY <1>1
<1>5. i - 1 - Early(i) = (i - CalPerClass) - 1 /\ i - Early(i + 1) = i - CalPerClass
  BY <1>1, <1>2, <1>3
<1> QED
  BY <1>2, <1>3, <1>4, <1>5

\* The next file of the listing is the next sample of the definition.
LEMMA NextNth ==
    ASSUME NEW q \in Preparer, folder \in Folder, IsDirectory(folder, q.label),
           q.files = Ascending(Present(folder, q.label)), q.i <= Len(q.files),
           NEW per \in Nat \ {0}, NEW skip \in Nat, NEW j \in 1..per, q.i = skip + j
    PROVE  Picked(q) = Nth(folder, per, skip, q.label * per + j)
<1> DEFINE name == Ascending(Present(folder, q.label))[skip + j]
<1>1. q.label \in Classes
  BY DEF Preparer
<1>2. Nth(folder, per, skip, q.label * per + j) =
        [label |-> q.label, name |-> name, sha |-> Content(folder, q.label, name)]
  BY <1>1, NthFile
<1>3. Picked(q) = [label |-> q.label, name |-> name, sha |-> Content(folder, q.label, name)]
  BY DEF Picked
<1> QED
  BY <1>2, <1>3

\* The sample that is identified is the next one of the definition.
LEMMA IdentifyChooses ==
    ASSUME TypeOK, NEW p \in Preparers, Place(proc[p]), Identifies(p),
           proc[p].began = folder, Selecting(proc[p])
    PROVE  LET q == proc[p]
               i == q.i
           IN  Correct(proc'[p], q.label * CalPerClass + Early(i + 1),
                       q.label * EvaPerClass + (i - Early(i + 1)))
<1> DEFINE q == proc[p]
           r == proc'[p]
           i == q.i
           l == q.label
           x == Picked(q)
<1>1. /\ q.pc = "identify" /\ i \in 1..PerClass /\ x \in Sample /\ r.began = q.began
      /\ IF i <= CalPerClass
         THEN r.calibration = Append(q.calibration, x) /\ r.evaluation = q.evaluation
         ELSE r.evaluation = Append(q.evaluation, x) /\ r.calibration = q.calibration
  BY DEF Identifies
<1>2. /\ Len(q.files) >= PerClass /\ q.files = Ascending(Present(folder, l))
      /\ IsDirectory(folder, l)
      /\ Classwise(q, l, i)
  BY <1>1 DEF Place, Selecting
<1>3. /\ folder \in Folder /\ l \in Classes /\ l \in Nat /\ i \in Nat
      /\ q.calibration \in Seq(Sample) /\ q.evaluation \in Seq(Sample) /\ Len(q.files) \in Nat
  BY ProcessTypes
<1>4. /\ l * CalPerClass \in Nat /\ l * EvaPerClass \in Nat
  BY <1>3, ConstantFacts, Sizes
<1> DEFINE a == l * CalPerClass
           b == l * EvaPerClass
<1>5. Correct(q, a + Early(i), b + (i - 1 - Early(i)))
  BY <1>2 DEF Classwise
<1>6. q \in Preparer /\ i <= Len(q.files) /\ q.began = folder
  <2>1. i <= Len(q.files)
    BY <1>1, <1>2, <1>3, ConstantFacts
  <2> QED
    BY <2>1, ProcessTypes
<1>7. a \in Nat /\ b \in Nat
  BY <1>4
<1>8. CASE i <= CalPerClass
  <2>1. /\ i \in 1..CalPerClass /\ Early(i) = i - 1 /\ Early(i + 1) = i
        /\ i - 1 - Early(i) = 0 /\ i - Early(i + 1) = 0
    BY <1>1, <1>8, EarlyCalibration
  <2>2. x = Nth(folder, CalPerClass, 0, a + i)
    <3>1. i = 0 + i
      BY <1>3
    <3> QED
      BY <1>2, <1>3, <1>6, <2>1, <3>1, ConstantFacts, NextNth
  <2>3. Correct(q, a + (i - 1), b + 0)
    BY <1>5, <2>1
  <2>4. r.calibration = Append(q.calibration, x) /\ r.evaluation = q.evaluation
    BY <1>1, <1>8
  <2> HIDE DEF x, i, a, b, q, r
  <2>5. /\ Len(q.calibration) = a + (i - 1)
        /\ \A k \in 1..(a + (i - 1)) : q.calibration[k] = Nth(folder, CalPerClass, 0, k)
    BY <1>6, <2>3 DEF Correct
  <2>6. /\ Len(r.calibration) = a + i
        /\ \A k \in 1..(a + i) : r.calibration[k] = Nth(folder, CalPerClass, 0, k)
    <3>1. q.calibration \in Seq(Sample) /\ x \in Sample
      BY <1>1, <1>3
    <3>2. a + i \in Nat /\ Len(q.calibration) + 1 = a + i /\ a + (i - 1) = Len(q.calibration)
      BY <1>7, <2>1, <2>5
    <3>3. \A k \in 1..Len(q.calibration) : q.calibration[k] = Nth(folder, CalPerClass, 0, k)
      BY <2>5, <3>2
    <3> DEFINE s == q.calibration
               d == a + i
    <3> HIDE DEF s, d
    <3>4. /\ Len(Append(s, Nth(folder, CalPerClass, 0, d))) = d
          /\ \A k \in 1..d : Append(s, Nth(folder, CalPerClass, 0, d))[k] =
                                Nth(folder, CalPerClass, 0, k)
      BY <2>2, <3>1, <3>2, <3>3, Extended DEF s, d
    <3>5. r.calibration = Append(s, Nth(folder, CalPerClass, 0, d))
      BY <2>2, <2>4 DEF s, d
    <3> QED
      BY <3>4, <3>5 DEF d
  <2>7. Correct(r, a + i, b + 0)
    BY <1>1, <1>6, <2>3, <2>4, <2>6 DEF Correct
  <2> QED
    BY <2>1, <2>7 DEF a, b, i, r, q, l
<1>9. CASE ~(i <= CalPerClass)
  <2>1. PICK j \in 1..EvaPerClass :
              /\ i = CalPerClass + j
              /\ Early(i) = CalPerClass /\ Early(i + 1) = CalPerClass
              /\ i - 1 - Early(i) = j - 1 /\ i - Early(i + 1) = j
    BY <1>1, <1>9, EarlyEvaluation
  <2>2. x = Nth(folder, EvaPerClass, CalPerClass, b + j)
    BY <1>2, <1>3, <1>6, <2>1, ConstantFacts, NextNth
  <2>3. Correct(q, a + CalPerClass, b + (j - 1))
    BY <1>5, <2>1
  <2>4. r.evaluation = Append(q.evaluation, x) /\ r.calibration = q.calibration
    BY <1>1, <1>9
  <2> HIDE DEF x, i, a, b, q, r
  <2>5. /\ Len(q.evaluation) = b + (j - 1)
        /\ \A k \in 1..(b + (j - 1)) :
              q.evaluation[k] = Nth(folder, EvaPerClass, CalPerClass, k)
    BY <1>6, <2>3 DEF Correct
  <2>6. /\ Len(r.evaluation) = b + j
        /\ \A k \in 1..(b + j) : r.evaluation[k] = Nth(folder, EvaPerClass, CalPerClass, k)
    <3>1. q.evaluation \in Seq(Sample) /\ x \in Sample
      BY <1>1, <1>3
    <3>2. b + j \in Nat /\ Len(q.evaluation) + 1 = b + j /\ b + (j - 1) = Len(q.evaluation)
      BY <1>7, <2>1, <2>5
    <3>3. \A k \in 1..Len(q.evaluation) : q.evaluation[k] = Nth(folder, EvaPerClass, CalPerClass, k)
      BY <2>5, <3>2
    <3> DEFINE s == q.evaluation
               d == b + j
    <3> HIDE DEF s, d
    <3>4. /\ Len(Append(s, Nth(folder, EvaPerClass, CalPerClass, d))) = d
          /\ \A k \in 1..d : Append(s, Nth(folder, EvaPerClass, CalPerClass, d))[k] =
                                Nth(folder, EvaPerClass, CalPerClass, k)
      BY <2>2, <3>1, <3>2, <3>3, Extended DEF s, d
    <3>5. r.evaluation = Append(s, Nth(folder, EvaPerClass, CalPerClass, d))
      BY <2>2, <2>4 DEF s, d
    <3> QED
      BY <3>4, <3>5 DEF d
  <2>7. Correct(r, a + CalPerClass, b + j)
    BY <1>1, <1>6, <2>3, <2>4, <2>6 DEF Correct
  <2> QED
    BY <2>1, <2>7 DEF a, b, i, r, q, l
<1> QED
  BY <1>8, <1>9

\* The selection over the steps of a preparer.
LEMMA ChosenKept ==
    ASSUME IInv, NEW p \in Preparers, Whole, Moved(p), Chosen(p)
    PROVE  Chosen(p)'
<1> DEFINE q == proc[p]
           r == proc'[p]
<1>1. TypeOK /\ Proper(p) /\ folder \in Folder
  BY DEF IInv, TypeOK
<1>2. folder' = folder /\ r \in Preparer
  BY DEF Moved, Inside, Starts, Roots, Lists, Decodes, Counts, Identifies, Validates,
     Separates, Makes, Publishes, Stops, Whole
<1>3. disk'.owner # disk.owner => q.pc = "mkdir"
  <2>1. ASSUME Publishes(p) PROVE disk'.owner = disk.owner
    BY <1>1, <2>1, DocumentFacts DEF Publishes, TypeOK
  <2> QED
    BY <2>1 DEF Moved, Inside, Starts, Roots, Lists, Decodes, Counts, Identifies, Validates,
     Separates, Makes, Stops, Goes
<1>4. disk.owner = p => q.pc \in {"write", "ok", "failed", "killed"}
  BY <1>1 DEF Proper, Owned
<1> SUFFICES ASSUME r.began # None
             PROVE  /\ r.pc \in Reading => r.began = folder
                    /\ Selecting(r)
                    /\ disk'.owner = p => Finished(r)
  BY <1>2 DEF Chosen
<1>5. ASSUME q.pc # "start"
      PROVE  r.began = q.began /\ (q.pc \in Reading => q.began = folder) /\ Selecting(q)
             /\ (disk.owner = p => Finished(q))
  <2>1. r.began = q.began
    BY <1>5 DEF Moved, Starts, Roots, Lists, Decodes, Counts, Identifies, Validates,
       Separates, Makes, Publishes, Stops, Goes, KeepsHistory
  <2> QED
    BY <2>1 DEF Chosen
<1>6. CASE Starts(p)
  <2>1. /\ q.label = 0 /\ q.total = 0 /\ q.calibration = <<>> /\ q.evaluation = <<>>
        /\ q.pc = "start"
    BY <1>1, <1>6 DEF Proper, Place, Starts, Goes
  <2>2. /\ r.pc = "root" /\ r.label = 0 /\ r.total = 0 /\ r.calibration = <<>>
        /\ r.evaluation = <<>> /\ r.began = folder
    BY <1>6, <2>1 DEF Starts, Goes, KeepsPlace, KeepsSamples
  <2>3. Correct(r, 0, 0)
    BY <2>2 DEF Correct
  <2>4. 0 * CalPerClass + Early(1) = 0 /\ 0 * EvaPerClass + (1 - 1 - Early(1)) = 0
    <3>1. 0 * CalPerClass = 0 /\ 0 * EvaPerClass = 0
      BY ConstantFacts, Sizes
    <3> QED
      BY <3>1, EarlyEnds
  <2>5. Classwise(r, 0, 1)
    BY <2>3, <2>4 DEF Classwise
  <2>6. disk'.owner # p
    BY <1>3, <1>4, <2>1
  <2> QED
    BY <2>2, <2>5, <2>6, BelowFirst DEF Selecting
<1>7. CASE Roots(p) \/ Lists(p) \/ Decodes(p)
  <2>1. /\ q.pc \in {"root", "list", "decode"} /\ r.pc \in {"list", "decode"}
        /\ r.label = q.label /\ r.total = q.total
        /\ r.calibration = q.calibration /\ r.evaluation = q.evaluation
    BY <1>7 DEF Roots, Lists, Decodes, Goes, KeepsPlace, KeepsSamples
  <2>2. r.began = q.began /\ q.began = folder /\ Selecting(q)
    BY <1>5, <2>1 DEF Reading
  <2>3. Classwise(r, r.label, 1) /\ r.total = Cardinality(Below(r.began, r.label))
    BY <2>1, <2>2, SameCorrect DEF Selecting
  <2>4. r.pc = "decode" => /\ r.files = Ascending(Present(r.began, r.label))
                           /\ IsDirectory(r.began, r.label)
    <3>1. CASE Roots(p)
      BY <3>1 DEF Roots, Goes
    <3>2. CASE Lists(p)
      BY <2>1, <2>2, <3>2 DEF Lists
    <3>3. CASE Decodes(p)
      BY <2>1, <2>2, <3>3 DEF Decodes, Goes, Selecting
    <3> QED
      BY <1>7, <3>1, <3>2, <3>3
  <2>5. disk'.owner # p
    BY <1>3, <1>4, <2>1
  <2> QED
    BY <2>1, <2>2, <2>3, <2>4, <2>5 DEF Selecting
<1>8. CASE Counts(p)
  <2>1. /\ q.pc = "decode" /\ r.pc = "identify" /\ r.i = 1
        /\ r.label = q.label /\ r.total = q.total + Len(q.files) /\ r.files = q.files
        /\ r.calibration = q.calibration /\ r.evaluation = q.evaluation
    BY <1>8 DEF Counts, Goes, KeepsSamples
  <2>2. r.began = q.began /\ q.began = folder /\ Selecting(q)
    BY <1>5, <2>1 DEF Reading
  <2>3. Classwise(r, r.label, r.i)
    BY <2>1, <2>2, SameCorrect DEF Selecting
  <2>4. /\ r.files = Ascending(Present(r.began, r.label)) /\ IsDirectory(r.began, r.label)
        /\ q.total = Cardinality(Below(folder, q.label))
    BY <2>1, <2>2 DEF Selecting
  <2>5. r.total = Cardinality(Below(r.began, r.label + 1))
    BY <1>1, <2>1, <2>2, <2>4, ProcessTypes, BelowNext
  <2>6. disk'.owner # p
    BY <1>3, <1>4, <2>1
  <2> QED
    BY <2>1, <2>2, <2>3, <2>4, <2>5, <2>6 DEF Selecting
<1>9. CASE Identifies(p)
  <2> DEFINE i == q.i
             l == q.label
  <2>1. /\ q.pc = "identify" /\ i \in 1..PerClass /\ r.files = q.files /\ r.total = q.total
        /\ \/ r.pc = "identify" /\ i # PerClass /\ r.i = i + 1 /\ r.label = l
           \/ /\ r.pc = "list" /\ i = PerClass /\ l + 1 \in Classes /\ r.label = l + 1
           \/ /\ r.pc = "validate" /\ i = PerClass /\ l + 1 \notin Classes /\ r.label = l
    BY <1>9 DEF Identifies
  <2>2. r.began = q.began /\ q.began = folder /\ Selecting(q)
    BY <1>5, <2>1 DEF Reading
  <2>3. Correct(r, l * CalPerClass + Early(i + 1), l * EvaPerClass + (i - Early(i + 1)))
    BY <1>1, <1>9, <2>2, IdentifyChooses DEF Proper
  <2>4. /\ q.files = Ascending(Present(q.began, l)) /\ IsDirectory(q.began, l)
        /\ q.total = Cardinality(Below(q.began, l + 1))
    BY <2>1, <2>2 DEF Selecting
  <2>5. l \in Nat /\ l \in Classes /\ i \in Nat
    BY <1>1, ProcessTypes
  <2>6. disk'.owner # p
    BY <1>3, <1>4, <2>1
  <2>7. i = PerClass => Correct(r, (l + 1) * CalPerClass, (l + 1) * EvaPerClass)
    <3> SUFFICES ASSUME i = PerClass
                 PROVE  Correct(r, (l + 1) * CalPerClass, (l + 1) * EvaPerClass)
      OBVIOUS
    <3>1. /\ (l + 1) * CalPerClass = l * CalPerClass + CalPerClass
          /\ (l + 1) * EvaPerClass = l * EvaPerClass + EvaPerClass
      BY <2>5, ConstantFacts, Sizes
    <3>2. Early(i + 1) = CalPerClass
      BY EarlyEnds
    <3>3. i - Early(i + 1) = EvaPerClass
      BY <3>2, ConstantFacts
    <3> QED
      BY <2>3, <3>1, <3>2, <3>3
  <2> HIDE DEF i, l, q, r
  <2>8. CASE r.pc = "identify"
    <3>1. r.i = i + 1 /\ r.label = l
      BY <2>1, <2>8
    <3>2. (i + 1) - 1 - Early(i + 1) = i - Early(i + 1)
      <4>1. Early(i + 1) \in Nat
        BY <2>5, ConstantFacts DEF Early
      <4> QED
        BY <2>5, <4>1
    <3>3. Classwise(r, r.label, r.i)
      BY <2>3, <3>1, <3>2 DEF Classwise
    <3> QED
      BY <2>1, <2>2, <2>4, <2>6, <2>8, <3>1, <3>3 DEF Selecting
  <2>9. CASE r.pc = "list"
    <3>1. r.label = l + 1 /\ i = PerClass
      BY <2>1, <2>9
    <3>2. /\ (l + 1) * CalPerClass + Early(1) = (l + 1) * CalPerClass
          /\ (l + 1) * EvaPerClass + (1 - 1 - Early(1)) = (l + 1) * EvaPerClass
      <4>1. (l + 1) * CalPerClass \in Nat /\ (l + 1) * EvaPerClass \in Nat
        BY <2>5, ConstantFacts, Sizes
      <4> QED
        BY <4>1, EarlyEnds
    <3>3. Classwise(r, r.label, 1)
      BY <2>7, <3>1, <3>2 DEF Classwise
    <3> QED
      BY <2>1, <2>2, <2>4, <2>6, <2>9, <3>1, <3>3 DEF Selecting
  <2>10. CASE r.pc = "validate"
    <3>1. i = PerClass /\ l + 1 = ClassCount
      <4>1. i = PerClass /\ l + 1 \notin Classes
        BY <2>1, <2>10
      <4> QED
        BY <2>5, <4>1, ConstantFacts DEF Classes
    <3>2. Finished(r)
      BY <2>1, <2>2, <2>4, <2>7, <3>1 DEF Finished
    <3> QED
      BY <2>2, <2>6, <2>10, <3>2 DEF Selecting
  <2> QED
    BY <2>1, <2>8, <2>9, <2>10
<1>10. CASE Validates(p) \/ Separates(p) \/ Makes(p) \/ Publishes(p)
  <2>1. /\ q.pc \in {"validate", "overlap", "mkdir", "write"}
        /\ r.pc \in {"validate", "overlap", "mkdir", "write", "ok", "failed"}
        /\ r.pc = "validate" => q.pc = "validate"
        /\ r.total = q.total
        /\ r.calibration = q.calibration /\ r.evaluation = q.evaluation
    BY <1>10 DEF Validates, Separates, Makes, Publishes, Goes, KeepsPlace, KeepsSamples
  <2>2. r.began = q.began /\ Selecting(q) /\ (q.pc \in Reading => q.began = folder)
    BY <1>5, <2>1
  <2>3. Finished(r)
    BY <2>1, <2>2, SameCorrect DEF Selecting
  <2> QED
    BY <2>1, <2>2, <2>3 DEF Selecting, Reading
<1>11. CASE Stops(p)
  <2>1. /\ q.pc \in Active /\ r.pc \in {"failed", "killed"} /\ r.total = q.total
        /\ r.calibration = q.calibration /\ r.evaluation = q.evaluation
        /\ disk' = disk
    BY <1>11 DEF Stops, KeepsPlace, KeepsSamples, Inside
  <2>2. r.began = q.began /\ (disk.owner = p => Finished(q))
    BY <1>5, <2>1 DEF Active, Reading
  <2>3. disk'.owner = p => Finished(r)
    BY <2>1, <2>2, SameCorrect
  <2> QED
    BY <2>1, <2>3 DEF Selecting, Reading
<1> QED
  BY <1>6, <1>7, <1>8, <1>9, <1>10, <1>11 DEF Moved

\* The selection over changes of the folder: whoever still reads gives up the claim.
LEMMA ChosenChanged ==
    ASSUME IInv, Change, NEW p \in Preparers, Chosen(p)
    PROVE  Chosen(p)'
<1> DEFINE q == proc[p]
           r == proc'[p]
           began == IF q.pc \in Reading THEN None ELSE q.began
<1>1. q \in Preparer /\ disk' = disk
  BY DEF IInv, TypeOK, Change
<1>2. /\ r.pc = q.pc /\ r.total = q.total /\ r.began = began
      /\ r.calibration = q.calibration /\ r.evaluation = q.evaluation
      /\ r.files = q.files /\ r.label = q.label /\ r.i = q.i
  BY <1>1 DEF Change, Preparer
<1> HIDE DEF r
<1> SUFFICES ASSUME r.began # None
             PROVE  /\ r.pc \notin Reading
                    /\ Selecting(r)
                    /\ disk.owner = p => Finished(r)
  BY <1>1 DEF Chosen, r
<1>3. q.pc \notin Reading /\ r.began = q.began
  BY <1>2
<1>4. Selecting(q) /\ (disk.owner = p => Finished(q))
  BY <1>3 DEF Chosen
<1>5. Finished(r) <=> Finished(q)
  BY <1>2, <1>3, SameCorrect
<1>6. Selecting(r)
  BY <1>2, <1>3, <1>4, <1>5 DEF Selecting, Reading
<1> QED
  BY <1>2, <1>3, <1>4, <1>5, <1>6

LEMMA SelectionInductive == Spec => [](IInv /\ SInv)
<1>1. Init => SInv
  BY DEF Init, SInv, Chosen
<1>2. IInv /\ SInv /\ [Next]_vars => SInv'
  <2> SUFFICES ASSUME IInv, SInv, [Next]_vars, NEW q \in Preparers
               PROVE  Chosen(q)'
    BY DEF SInv
  <2>1. Chosen(q) /\ None \notin Preparers
    BY ConstantFacts DEF SInv
  <2>2. ASSUME NEW p \in Preparers, Step(p) \/ Kill(p) PROVE Chosen(q)'
    <3>1. TypeOK /\ Proper(p)
      BY DEF IInv
    <3>2. Whole /\ Others(p) /\ Moved(p)
      BY <2>2, <3>1, Steps DEF Proper
    <3>3. CASE q = p
      BY <2>1, <3>2, <3>3, ChosenKept
    <3>4. CASE q # p
      <4>1. proc'[q] = proc[q] /\ folder' = folder
        BY <3>2, <3>4 DEF Others, Moved, Inside, Starts, Roots, Lists, Decodes, Counts,
           Identifies, Validates, Separates, Makes, Publishes, Stops
      <4>2. disk'.owner = q => disk.owner = q
        BY <2>1, <3>1, <3>2, <3>4, OwnedKept DEF IInv, Proper
      <4> QED
        BY <2>1, <4>1, <4>2 DEF Chosen
    <3> QED
      BY <3>3, <3>4
  <2>3. CASE Change
    BY <2>1, <2>3, ChosenChanged
  <2>4. CASE UNCHANGED vars
    BY <2>1, <2>4 DEF vars, Chosen
  <2> QED
    BY <2>2, <2>3, <2>4 DEF Next
<1> QED
  BY <1>1, <1>2, Inductive, PTL DEF Spec

\* If the folder did not change while it was read, the manifests are the first
\* files of every class and the next ones, and the record counts all the files.
THEOREM SelectionIsDeterministic == Spec => []Selected
<1>1. ASSUME IInv, SInv PROVE Selected
  <2> DEFINE p == disk.owner
             q == proc[p]
             f == q.began
  <2> SUFFICES ASSUME p # None, f # None
               PROVE  /\ disk.calibration # None =>
                            disk.calibration = [k \in 1..(ClassCount * CalPerClass) |->
                                                  Nth(f, CalPerClass, 0, k)]
                      /\ disk.evaluation # None =>
                            disk.evaluation = [k \in 1..(ClassCount * EvaPerClass) |->
                                                 Nth(f, EvaPerClass, CalPerClass, k)]
                      /\ disk.record # None =>
                            disk.record.total = Cardinality({x \in Classes \X Names :
                                                              x[2] \in Present(f, x[1])})
    BY DEF Selected
  <2>1. p \in Preparers /\ Finished(q)
    BY <1>1 DEF IInv, TypeOK, SInv, Chosen
  <2>2. q.calibration \in Seq(Sample) /\ q.evaluation \in Seq(Sample)
    BY <1>1, <2>1, ProcessTypes DEF IInv
  <2>3. /\ q.calibration = [k \in 1..Len(q.calibration) |-> q.calibration[k]]
        /\ q.evaluation = [k \in 1..Len(q.evaluation) |-> q.evaluation[k]]
    BY <2>2, LenProperties
  <2>4. /\ q.calibration = [k \in 1..(ClassCount * CalPerClass) |-> Nth(f, CalPerClass, 0, k)]
        /\ q.evaluation = [k \in 1..(ClassCount * EvaPerClass) |->
                             Nth(f, EvaPerClass, CalPerClass, k)]
    BY <2>1, <2>3 DEF Finished, Correct
  <2>5. Below(f, ClassCount) = {x \in Classes \X Names : x[2] \in Present(f, x[1])}
    <3>1. \A c \in Classes : c < ClassCount
      BY ConstantFacts DEF Classes
    <3> QED
      BY <3>1 DEF Below
  <2>6. /\ disk.calibration # None => disk.calibration = q.calibration
        /\ disk.evaluation # None => disk.evaluation = q.evaluation
        /\ disk.record # None => disk.record.total = q.total
    BY <1>1, Ownership, DocumentFacts DEF Value
  <2> HIDE DEF p, q, f
  <2> QED
    BY <2>1, <2>4, <2>5, <2>6 DEF Finished, f
<1> QED
  BY <1>1, SelectionInductive, PTL

-----------------------------------------------------------------------------
(* The output directory implements EvidenceDirectory                       *)

\* What is still to be published is not there.
Progress(p) == At(p, "write") =>
    \A j \in 1..3 : j >= proc[p].i => disk[Documents[j]] = None
Proceeding == \A p \in Preparers : Progress(p)

There == {i \in DOMAIN Documents : disk[Documents[i]] # None}
Answers == [p \in Preparers |-> Reported(proc[p].pc)]

LEMMA Values ==
    ASSUME TypeOK, NEW p \in Preparers
    PROVE  \A d \in Document : Value(p, d) # None
<1>1. /\ Value(p, "calibration") \in Seq(Sample) /\ Value(p, "evaluation") \in Seq(Sample)
      /\ Value(p, "record") \in Summary
  BY ProcessTypes DEF Value, Preparer, Summary
<1> QED
  BY <1>1, PreparationAssumption, DocumentFacts DEF PreparationAssumption

LEMMA DocumentTypes ==
    ASSUME TypeOK, NEW d \in Document, NEW v
    PROVE  /\ [disk EXCEPT ![d] = v].owner = disk.owner
           /\ [disk EXCEPT ![d] = v][d] = v
           /\ \A c \in Document \ {d} : [disk EXCEPT ![d] = v][c] = disk[c]
BY DocumentFacts DEF TypeOK

LEMMA ProceedingKept == ASSUME IInv, Proceeding, [Next]_vars PROVE Proceeding'
<1>1. ASSUME NEW p \in Preparers, Step(p) \/ Kill(p) PROVE Proceeding'
  <2>1. /\ TypeOK /\ Proper(p) /\ None \notin Preparers
        /\ Whole /\ Others(p) /\ Moved(p)
    BY <1>1, Steps, ConstantFacts DEF IInv, Proper
  <2>2. CASE Makes(p)
    <3>1. /\ disk.owner = None /\ disk' = [disk EXCEPT !.owner = p]
          /\ \A d \in Document : disk[d] = None
      BY <2>2 DEF Makes, IInv
    <3>2. \A d \in Document : disk'[d] = None
      BY <2>1, <3>1, DocumentFacts DEF TypeOK
    <3> QED
      BY <3>2, DocumentFacts DEF Proceeding, Progress
  <2>3. CASE Publishes(p)
    <3>1. disk.owner = p /\ proc[p].i \in 1..3 /\ proc[p].pc = "write"
      BY <2>1, <2>3 DEF Publishes, Proper, Owned
    <3>2. \A q \in Preparers \ {p} : proc'[q].pc # "write"
      BY <2>1, <3>1 DEF Others, IInv, Proper, Owned
    <3>3. ASSUME proc'[p].pc = "write", NEW j \in 1..3, j >= proc'[p].i
          PROVE  disk'[Documents[j]] = None
      <4>1. proc'[p].i = proc[p].i + 1
        BY <2>3, <3>3 DEF Publishes
      <4>2. j # proc[p].i /\ j >= proc[p].i
        BY <3>1, <3>3, <4>1
      <4>3. disk[Documents[j]] = None
        BY <3>1, <4>2 DEF Proceeding, Progress, At
      <4>4. /\ Documents[j] \in Document /\ Documents[proc[p].i] \in Document
            /\ Documents[j] # Documents[proc[p].i]
        BY <3>1, <4>2, DocumentFacts
      <4> QED
        BY <2>1, <2>3, <4>3, <4>4, DocumentTypes DEF Publishes
    <3> QED
      BY <3>2, <3>3 DEF Proceeding, Progress, At
  <2>4. CASE ~ Makes(p) /\ ~ Publishes(p)
    <3>1. disk' = disk /\ proc'[p].pc # "write"
      BY <2>1, <2>4 DEF Moved, Inside, Starts, Roots, Lists, Decodes, Counts, Identifies,
         Validates, Separates, Stops, Goes
    <3> QED
      BY <2>1, <3>1 DEF Proceeding, Progress, At, Others
  <2> QED
    BY <2>2, <2>3, <2>4
<1>2. CASE Change
  <2>1. disk' = disk /\ \A p \in Preparers : proc'[p].pc = proc[p].pc /\ proc'[p].i = proc[p].i
    BY <1>2 DEF Change, IInv, TypeOK, Preparer
  <2> QED
    BY <2>1 DEF Proceeding, Progress, At
<1>3. CASE UNCHANGED vars
  BY <1>3 DEF vars, Proceeding, Progress, At
<1> QED
  BY <1>1, <1>2, <1>3 DEF Next

\* What a step does to the answers.
LEMMA AnswerFacts ==
    ASSUME TypeOK, NEW p \in Preparers, Whole, Others(p)
    PROVE  Answers' = [Answers EXCEPT ![p] = Reported(proc'[p].pc)]
BY DEF Answers, Others, Whole

\* Each step of a preparer is one on the abstract directory, or none.
LEMMA StepImplements ==
    ASSUME IInv, Proceeding, NEW p \in Preparers, Step(p) \/ Kill(p)
    PROVE  [Evidence!AbstractNext]_(Evidence!avars)
<1>1. /\ TypeOK /\ Proper(p) /\ None \notin Preparers
      /\ Whole /\ Others(p) /\ Moved(p)
  BY Steps, ConstantFacts DEF IInv, Proper
<1>2. /\ Answers' = [Answers EXCEPT ![p] = Reported(proc'[p].pc)]
      /\ Answers[p] = Reported(proc[p].pc)
  BY <1>1, AnswerFacts DEF Answers
<1>3. Reported(proc'[p].pc) = Reported(proc[p].pc) => Answers' = Answers
  BY <1>2 DEF Answers
<1>4. DOMAIN Documents = 1..3 /\ Len(Documents) = 3
  BY DEF Documents
<1>5. CASE Makes(p)
  <2>1. /\ disk.owner = None /\ disk' = [disk EXCEPT !.owner = p]
        /\ Answers[p] = "none" /\ Answers' = Answers
    BY <1>2, <1>3, <1>5 DEF Makes, Goes, Reported
  <2>2. disk'.owner = p /\ \A d \in Document : disk'[d] = disk[d]
    BY <1>1, <2>1, DocumentFacts DEF TypeOK
  <2>3. There' = There
    BY <1>4, <2>2, DocumentFacts DEF There
  <2>4. Evidence!Acquire(p)
    BY <2>1, <2>2, <2>3 DEF Evidence!Acquire, Evidence!Waiting, Answers, There
  <2> QED
    BY <2>4 DEF Evidence!AbstractNext
<1>6. CASE Publishes(p)
  <2>0. PICK i \in 1..3 : i = proc[p].i
    BY <1>6 DEF Publishes
  <2> DEFINE d == Documents[i]
  <2>1. /\ proc[p].pc = "write" /\ i \in 1..3 /\ disk.owner = p /\ Written(p)
        /\ d \in Document /\ disk' = [disk EXCEPT ![d] = Value(p, d)]
        /\ proc'[p].pc \in {"write", "failed"} \/ (i = 3 /\ proc'[p].pc = "ok")
    BY <2>0, <1>1, <1>6, DocumentFacts DEF Publishes, Proper, Owned
  <2>2. \A j \in 1..3 : disk[Documents[j]] # None <=> j < i
    <3>1. ASSUME NEW j \in 1..3, j < i PROVE disk[Documents[j]] # None
      <4>1. j \in 1..(i - 1)
        BY <2>1, <3>1
      <4>2. disk[Documents[j]] = Value(p, Documents[j]) /\ Documents[j] \in Document
        BY <2>0, <2>1, <4>1, DocumentFacts DEF Written, At
      <4> QED
        BY <1>1, <4>2, Values
    <3>2. ASSUME NEW j \in 1..3, ~(j < i) PROVE disk[Documents[j]] = None
      BY <2>0, <2>1, <3>2 DEF Proceeding, Progress, At
    <3> QED
      BY <3>1, <3>2
  <2>3. /\ disk'.owner = p /\ disk'[d] # None
        /\ \A c \in Document \ {d} : disk'[c] = disk[c]
    <3> HIDE DEF d
    <3> QED
      BY <1>1, <2>1, Values, DocumentTypes
  <2>4. \A j \in 1..3 : disk'[Documents[j]] # None <=> j <= i
    <3> SUFFICES ASSUME NEW j \in 1..3 PROVE disk'[Documents[j]] # None <=> j <= i
      OBVIOUS
    <3>1. CASE j = i
      BY <2>1, <2>3, <3>1
    <3>2. CASE j # i
      <4>1. Documents[j] \in Document \ {d}
        BY <2>1, <3>2, DocumentFacts
      <4> QED
        BY <2>1, <2>2, <2>3, <3>2, <4>1
    <3> QED
      BY <3>1, <3>2
  <2>5. There = 1..(i - 1) /\ There' = 1..i
    BY <1>4, <2>1, <2>2, <2>4 DEF There
  <2>6. /\ Answers[p] = "none"
        /\ \/ Answers' = Answers
           \/ Answers' = [Answers EXCEPT ![p] = "failed"]
           \/ i = 3 /\ Answers' = [Answers EXCEPT ![p] = "completed"]
    BY <1>2, <1>3, <2>1 DEF Reported
  <2> HIDE DEF d
  <2>7. Evidence!AppendRecord(p, i)
    BY <1>4, <2>1, <2>3, <2>5, <2>6
       DEF Evidence!AppendRecord, Evidence!Waiting, Evidence!Tell, Answers, There
  <2>8. i \in 1..Len(Documents)
    BY <1>4, <2>1
  <2> QED
    BY <2>7, <2>8 DEF Evidence!AbstractNext
<1>7. CASE Stops(p)
  <2>1. /\ disk' = disk /\ Answers[p] = "none"
        /\ \E a \in {"failed", "killed"} : Answers' = [Answers EXCEPT ![p] = a]
    BY <1>2, <1>7 DEF Stops, Inside, Active, Reading, Reported
  <2>2. Evidence!GiveUp(p)
    BY <2>1 DEF Evidence!GiveUp, Evidence!Waiting, Evidence!Tell, Answers
  <2> QED
    BY <2>2 DEF Evidence!AbstractNext
<1>8. CASE ~(Makes(p) \/ Publishes(p) \/ Stops(p))
  <2>1. disk' = disk /\ Reported(proc'[p].pc) = Reported(proc[p].pc)
    BY <1>1, <1>8 DEF Moved, Inside, Starts, Roots, Lists, Decodes, Counts, Identifies,
       Validates, Separates, Goes, Reported
  <2> QED
    BY <1>3, <2>1 DEF Evidence!avars, Answers
<1> QED
  BY <1>5, <1>6, <1>7, <1>8

\* The output directory of a preparation gets the two manifests and their
\* record one after the other from one preparer, and all of them before it
\* reports success, however many are started: it is an EvidenceDirectory.
THEOREM Refinement == Spec => Implements
<1>1. Init => IInv /\ Proceeding /\ Evidence!AbstractInit
  <2> SUFFICES ASSUME Init PROVE Proceeding /\ Evidence!AbstractInit
    BY InitInvariant
  <2>1. \A p \in Preparers : proc[p].pc = "start"
    BY DEF Init
  <2>2. disk.owner = None /\ \A j \in DOMAIN Documents : disk[Documents[j]] = None
    <3>1. DOMAIN Documents = 1..3
      BY DEF Documents
    <3> QED
      BY <3>1, DocumentFacts DEF Init
  <2>3. Answers = [p \in Preparers |-> "none"]
    BY <2>1 DEF Answers, Reported
  <2> QED
    BY <2>1, <2>2, <2>3 DEF Proceeding, Progress, At, Answers, Evidence!AbstractInit
<1>2. IInv /\ Proceeding /\ [Next]_vars => [Evidence!AbstractNext]_(Evidence!avars)
  <2> SUFFICES ASSUME IInv, Proceeding, [Next]_vars
               PROVE  [Evidence!AbstractNext]_(Evidence!avars)
    OBVIOUS
  <2>1. CASE Change
    <3>1. disk' = disk /\ \A p \in Preparers : proc'[p].pc = proc[p].pc
      BY <2>1 DEF Change, IInv, TypeOK, Preparer
    <3> QED
      BY <3>1 DEF Evidence!avars
  <2>2. CASE UNCHANGED vars
    BY <2>2 DEF vars, Evidence!avars
  <2> QED
    BY <2>1, <2>2, StepImplements DEF Next
<1>3. IInv /\ Proceeding /\ [Next]_vars => Proceeding'
  BY ProceedingKept
<1> QED
  BY <1>1, <1>2, <1>3, Inductive, PTL DEF Spec, Implements, Evidence!AbstractSpec
=============================================================================
