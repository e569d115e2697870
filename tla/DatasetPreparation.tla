-------------------------- MODULE DatasetPreparation --------------------------
(***************************************************************************)
(* Preparing the two dataset manifests of a formal run from a folder of    *)
(* images (model_pipeline/dataset_prepare.py).  The folder has one         *)
(* directory for each class, 0 to ClassCount - 1.  The tool lists each     *)
(* class, decodes all its images, identifies the first ones by their       *)
(* digests, validates both manifests against the folder a second time,     *)
(* looks for overlap and publishes three files, one after the other, in a  *)
(* directory it makes.  Anything may change the folder meanwhile.          *)
(*                                                                         *)
(* The digest of a file is its content.  Names of files are numbers in     *)
(* their lexicographic order.  Publishing a file is one step with the      *)
(* three outcomes that ExclusivePublish shows.                             *)
(***************************************************************************)
EXTENDS Naturals, SequencesExt

CONSTANTS
    Preparers,   \* processes started with the same output directory
    ClassCount,
    Names,       \* names a file may have in the directory of a class
    Images,      \* contents that decode as an image
    Junk,        \* anything else: a link, another suffix, damaged data
    CalPerClass, \* calibration_samples_per_class
    EvaPerClass, \* evaluation_samples_per_class
    LabelLimit,  \* the largest label validate_dataset lets pass (999)
    Folders,     \* what the folder may be at the beginning
    None,
    MaxChanges   \* bound on what others change meanwhile

Classes == 0..(ClassCount - 1)
PerClass == CalPerClass + EvaPerClass
Entries == 0..ClassCount   \* names in the root, one of them unexpected
Contents == Images \cup {Junk}
Class == [Names -> Contents \cup {None}]
Folder == [Entries -> Class \cup {Junk, None}]
Sample == [label : Classes, name : Names, sha : Contents]
Summary == [total: Nat, calibration: Seq(Sample), evaluation: Seq(Sample)]

ASSUME PreparationAssumption ==
    /\ ClassCount \in Nat \ {0} /\ CalPerClass \in Nat \ {0}
    /\ EvaPerClass \in Nat \ {0} /\ LabelLimit \in Nat
    /\ Names \subseteq Nat /\ IsFiniteSet(Names)
    /\ Folders \subseteq Folder
    /\ Junk \notin Images
    /\ None \notin Preparers \cup Contents
    /\ None \notin Seq(Sample) \cup Summary
    /\ MaxChanges \in Nat

VARIABLES
    folder,   \* the root as it is now
    changes,  \* changes so far
    disk,     \* the output directory
    proc      \* the state of each preparer

vars == <<folder, changes, disk, proc>>

Document == {"calibration", "evaluation", "record"}
Documents == <<"calibration", "evaluation", "record">>
Reading == {"root", "list", "decode", "identify", "validate"}
Active == Reading \cup {"overlap", "mkdir", "write"}

\* i counts the files of the step under way.  History: began is the folder
\* the preparer started with, or None if it changed before the last sample
\* was validated; late says what each file has been since the last sample was
\* identified.
Preparer == [pc: Active \cup {"start", "ok", "failed", "killed"},
             label: Classes, files: Seq(Names), i: Nat, total: Nat,
             calibration: Seq(Sample), evaluation: Seq(Sample),
             began: Folder \cup {None},
             late: [Classes -> [Names -> SUBSET (Contents \cup {None})]]]

TypeOK ==
    /\ folder \in Folder
    /\ changes \in 0..MaxChanges
    /\ disk \in [owner: Preparers \cup {None},
                 calibration: Seq(Sample) \cup {None},
                 evaluation: Seq(Sample) \cup {None},
                 record: Summary \cup {None}]
    /\ proc \in [Preparers -> Preparer]

Unknown == [l \in Classes |-> [n \in Names |-> {}]]

Init ==
    /\ folder \in Folders
    /\ changes = 0
    /\ disk = [owner |-> None, calibration |-> None, evaluation |-> None,
               record |-> None]
    /\ proc = [p \in Preparers |->
                 [pc |-> "start", label |-> 0, files |-> <<>>, i |-> 1,
                  total |-> 0, calibration |-> <<>>, evaluation |-> <<>>,
                  began |-> None, late |-> Unknown]]

-----------------------------------------------------------------------------
At(p, l) == proc[p].pc = l
IsDirectory(f, l) == f[l] \notin {Junk, None}
Content(f, l, n) == IF IsDirectory(f, l) THEN f[l][n] ELSE None
Present(f, l) == {n \in Names : Content(f, l, n) # None}
Inside == UNCHANGED <<folder, changes, disk>>

Start(p) ==
    /\ At(p, "start")
    /\ proc' = [proc EXCEPT ![p].pc = "root", ![p].began = folder]
    /\ Inside

\* The names in the root are those of the classes, no more and no less.
ListRoot(p) ==
    /\ At(p, "root")
    /\ {l \in Entries : folder[l] # None} = Classes
    /\ proc' = [proc EXCEPT ![p].pc = "list"]
    /\ Inside

Ascending(S) ==
    CHOOSE s \in [1..Cardinality(S) -> S] :
        \A i, j \in 1..Cardinality(S) : i < j => s[i] < s[j]

\* Faulty variant: the files are taken as the directory gives them.
ListClassUnsorted(p) ==
    /\ At(p, "list")
    /\ IsDirectory(folder, proc[p].label)
    /\ LET files == Ascending(Present(folder, proc[p].label)) IN
          \E given \in {files, Reverse(files)} :
             proc' = [proc EXCEPT ![p].pc = "decode", ![p].i = 1, ![p].files = given]
    /\ Inside

ListClass(p) ==
    /\ At(p, "list")
    /\ IsDirectory(folder, proc[p].label)
    /\ proc' = [proc EXCEPT ![p].pc = "decode", ![p].i = 1,
                   ![p].files = Ascending(Present(folder, proc[p].label))]
    /\ Inside

\* image.verify(), for every file of the class, selected or not
Decode(p) ==
    /\ At(p, "decode")
    /\ proc[p].i <= Len(proc[p].files)
    /\ Content(folder, proc[p].label, proc[p].files[proc[p].i]) \in Images
    /\ proc' = [proc EXCEPT ![p].i = @ + 1]
    /\ Inside

CountFiles(p) ==
    /\ At(p, "decode")
    /\ proc[p].i > Len(proc[p].files)
    /\ Len(proc[p].files) >= PerClass
    /\ proc' = [proc EXCEPT ![p].pc = "identify", ![p].i = 1,
                            ![p].total = @ + Len(proc[p].files)]
    /\ Inside

Purpose(i) == IF i <= CalPerClass THEN "calibration" ELSE "evaluation"

\* Faulty variant: one class more is looked for.
AfterClassOneMore(p, q) ==
    IF q.label \in Classes
    THEN [q EXCEPT !.pc = "list", !.label = @ + 1]
    ELSE [q EXCEPT !.pc = "validate", !.i = 1]

\* What follows the last sample of a class.
AfterClass(p, q) ==
    IF q.label + 1 \in Classes
    THEN [q EXCEPT !.pc = "list", !.label = @ + 1]
    ELSE [q EXCEPT !.pc = "validate", !.i = 1,
             !.late = [l \in Classes |-> [n \in Names |-> {Content(folder, l, n)}]]]

\* The digest of one selected file is computed, _sample.
Identify(p) ==
    /\ At(p, "identify")
    /\ LET q == proc[p]
           name == q.files[q.i]
           sha == Content(folder, q.label, name)
           sample == [label |-> q.label, name |-> name, sha |-> sha]
           r == [q EXCEPT ![Purpose(q.i)] = Append(@, sample), !.i = @ + 1]
       IN /\ sha # None
          /\ proc' = [proc EXCEPT ![p] = IF q.i = PerClass THEN AfterClass(p, r) ELSE r]
    /\ Inside

Samples(p) == proc[p].calibration \o proc[p].evaluation

\* Faulty variant: what was just identified is taken for valid.
TrustSample(p) ==
    /\ At(p, "validate")
    /\ proc' = [proc EXCEPT ![p].i = @ + 1,
                   ![p].pc = IF proc[p].i = Len(Samples(p)) THEN "overlap" ELSE @]
    /\ Inside

\* validate_dataset: one sample after the other, calibration first.
ValidateSample(p) ==
    /\ At(p, "validate")
    /\ LET i == proc[p].i
           s == Samples(p)[i]
       IN /\ Content(folder, s.label, s.name) = s.sha
          /\ i > Len(proc[p].calibration) => s.label <= LabelLimit
          /\ proc' = [proc EXCEPT ![p].i = @ + 1,
                         ![p].pc = IF i = Len(Samples(p)) THEN "overlap" ELSE @]
    /\ Inside

SameSample(c, e) == c.sha = e.sha \/ (c.label = e.label /\ c.name = e.name)

\* Faulty variant: images of one class may be the same.
RequireNoOverlapBetweenClasses(p) ==
    /\ At(p, "overlap")
    /\ \A c \in Range(proc[p].calibration), e \in Range(proc[p].evaluation) :
          c.label # e.label => ~SameSample(c, e)
    /\ proc' = [proc EXCEPT ![p].pc = "mkdir"]
    /\ Inside

RequireNoOverlap(p) ==
    /\ At(p, "overlap")
    /\ \A c \in Range(proc[p].calibration), e \in Range(proc[p].evaluation) :
          ~SameSample(c, e)
    /\ proc' = [proc EXCEPT ![p].pc = "mkdir"]
    /\ Inside

\* output.mkdir(): only one preparer can make the directory.
MakeOutput(p) ==
    /\ At(p, "mkdir")
    /\ disk.owner = None
    /\ disk' = [disk EXCEPT !.owner = p]
    /\ proc' = [proc EXCEPT ![p].pc = "write", ![p].i = 1]
    /\ UNCHANGED <<folder, changes>>

Value(p, d) ==
    IF d = "record"
    THEN [total |-> proc[p].total, calibration |-> proc[p].calibration,
          evaluation |-> proc[p].evaluation]
    ELSE proc[p][d]

\* Faulty variant: an error while publishing is logged and not raised.
PublishSwallowing(p) ==
    /\ At(p, "write")
    /\ LET d == Documents[proc[p].i] IN
          /\ disk' \in {disk, [disk EXCEPT ![d] = Value(p, d)]}
          /\ proc' = [proc EXCEPT ![p].i = @ + 1,
                         ![p].pc = IF d = "record" THEN "ok" ELSE @]
    /\ UNCHANGED <<folder, changes>>

\* write_canonical_json for the next of the three files.
Publish(p) ==
    /\ At(p, "write")
    /\ LET d == Documents[proc[p].i] IN
          /\ disk[d] = None
          /\ disk' = [disk EXCEPT ![d] = Value(p, d)]
          /\ \/ proc' = [proc EXCEPT ![p].i = @ + 1,
                            ![p].pc = IF d = "record" THEN "ok" ELSE @]
             \/ proc' = [proc EXCEPT ![p].pc = "failed"]
    /\ UNCHANGED <<folder, changes>>

\* A condition above is not met, or the file system reports an error.
Fail(p) ==
    /\ proc[p].pc \in Active
    /\ proc' = [proc EXCEPT ![p].pc = "failed"]
    /\ Inside

Kill(p) ==
    /\ proc[p].pc \in Active
    /\ proc' = [proc EXCEPT ![p].pc = "killed"]
    /\ Inside

\* A file or a directory of the folder is written, replaced or removed.
Change ==
    /\ changes < MaxChanges
    /\ changes' = changes + 1
    /\ \/ \E l \in Entries, n \in Names, v \in Contents \cup {None} :
             /\ IsDirectory(folder, l)
             /\ folder' = [folder EXCEPT ![l][n] = v]
       \/ \E l \in Entries, d \in {Junk, None, [n \in Names |-> None]} :
             folder' = [folder EXCEPT ![l] = d]
    /\ folder' # folder
    /\ proc' = [p \in Preparers |->
           [proc[p] EXCEPT
               !.began = IF proc[p].pc \in Reading THEN None ELSE @,
               !.late = IF proc[p].pc # "validate" THEN @
                        ELSE [l \in Classes |-> [n \in Names |->
                                @[l][n] \cup {Content(folder', l, n)}]]]]
    /\ UNCHANGED disk

Step(p) ==
    \/ Start(p) \/ ListRoot(p) \/ ListClass(p) \/ Decode(p) \/ CountFiles(p)
    \/ Identify(p) \/ ValidateSample(p) \/ RequireNoOverlap(p)
    \/ MakeOutput(p) \/ Publish(p) \/ Fail(p)

Next == Change \/ \E p \in Preparers : Step(p) \/ Kill(p)

Spec == Init /\ [][Next]_vars

-----------------------------------------------------------------------------
(* Properties                                                              *)

\* The k-th sample of a manifest that takes per files of each class, skipping
\* the first skip ones, said without loops.
Nth(f, per, skip, k) ==
    LET l == (k - 1) \div per
        n == CHOOSE n \in Present(f, l) :
                Cardinality({m \in Present(f, l) : m < n}) = skip + ((k - 1) % per)
    IN [label |-> l, name |-> n, sha |-> f[l][n]]

\* The selection is deterministic: if the folder did not change, what is
\* published is the first files of every class, then the next ones, in the
\* order of classes and names, and the record counts all the files.
Selected ==
    LET p == disk.owner
        f == IF p = None THEN None ELSE proc[p].began
    IN f # None =>
        /\ disk.calibration # None =>
              disk.calibration = [k \in 1..(ClassCount * CalPerClass) |->
                                    Nth(f, CalPerClass, 0, k)]
        /\ disk.evaluation # None =>
              disk.evaluation = [k \in 1..(ClassCount * EvaPerClass) |->
                                    Nth(f, EvaPerClass, CalPerClass, k)]
        /\ disk.record # None =>
              disk.record.total = Cardinality({x \in Classes \X Names :
                                                 x[2] \in Present(f, x[1])})

\* However the folder changes meanwhile, the two published manifests share no
\* content and no file, and they have the same number of samples of each class.
Split ==
    LET c == disk.calibration
        e == disk.evaluation
    IN c # None /\ e # None =>
        /\ \A x \in Range(c), y \in Range(e) : ~SameSample(x, y)
        /\ \A l \in Classes :
              /\ Cardinality({x \in Range(c) : x.label = l}) = CalPerClass
              /\ Cardinality({y \in Range(e) : y.label = l}) = EvaPerClass

\* Every digest that is published was still that of its file at some moment
\* after the last file had been identified.
UpToDate ==
    \A d \in {"calibration", "evaluation"} : disk[d] # None =>
        \A s \in Range(disk[d]) : s.sha \in proc[disk.owner].late[s.label][s.name]

\* preparation.json is evidence of a whole preparation: where it is, both
\* manifests are, and they are the ones it counts; and a preparer that
\* reports success has left all three.
RecordMeansWhole ==
    /\ disk.record # None =>
          /\ disk.calibration = disk.record.calibration
          /\ disk.evaluation = disk.record.evaluation
    /\ \A p \in Preparers : At(p, "ok") =>
          disk.owner = p /\ \A d \in Document : disk[d] = Value(p, d)

\* The output directory is one that the pipeline may rely on, the two
\* manifests and their record being its three records, and what a preparer
\* reports of it is true.
Reported(l) == CASE l = "ok" -> "completed" [] l \in {"failed", "killed"} -> l
                 [] OTHER -> "none"
Evidence == INSTANCE EvidenceDirectory WITH
        Writers <- Preparers, Size <- Len(Documents), owner <- disk.owner,
        records <- {i \in DOMAIN Documents : disk[Documents[i]] # None},
        failure <- None,
        answer <- [p \in Preparers |-> Reported(proc[p].pc)]
Implements == Evidence!AbstractSpec
=============================================================================
