------------------------------- MODULE PilotRun -------------------------------
(***************************************************************************)
(* The synthetic proxy pilot (model_pipeline/pilot.py), sample by sample.  *)
(* It draws images (synthetic.py), labels the evaluation images with the   *)
(* FP32 model, calibrates and quantizes (calibration.py, quantize.py),     *)
(* evaluates both models on the labelled images (evaluate.py) and compares *)
(* them (compare.py).  Unlike a production run it looks at nothing again   *)
(* at the end and retains no failure.                                      *)
(*                                                                         *)
(* An image is its content: a pattern, which repeats after Period indices, *)
(* or Period itself, any other content; None is a missing or unreadable    *)
(* file.  What a model says of an image is a ranking, its top-5, the same  *)
(* for the same content and chosen when it is first asked, or <<>>, which  *)
(* stands for the four ways an inference can fail: no gate tells them      *)
(* apart.  The thresholds are percentages: for the counts of this code the *)
(* comparisons of floating-point quotients in compare.py come out the same *)
(* as those of integers here.                                              *)
(***************************************************************************)
EXTENDS Integers, Sequences, FiniteSets

CONSTANTS
    Counts,       \* <<calibration, evaluation>> sample counts a pilot is given
    Period,       \* the patterns repeat after so many images (65536)
    Rankings,     \* what a top-5 can be: sequences of distinct classes
    MaxTop1Drop, MaxTop5Drop, MinAgreement,  \* in per cent
    MaxImages,    \* bound on the sum of these counts
    Passes,       \* how often the calibrator may go through the samples
    Attempts,     \* bound on pilots started on the same output directory
    MaxChanges,   \* bound on what others change meanwhile
    None

Images == 0..MaxImages
Contents == 0..Period

ASSUME PilotAssumption ==
    /\ Period \in Nat \ {0}
    /\ Counts \subseteq (Nat \ {0}) \X (Nat \ {0})
    /\ MaxImages \in Nat
    /\ \A c \in Counts : c[1] + c[2] <= MaxImages
    /\ \A r \in Rankings : r \in Seq(Nat) /\ r # <<>>
    /\ {MaxTop1Drop, MaxTop5Drop, MinAgreement} \subseteq 0..100
    /\ MinAgreement <= 100 - MaxTop1Drop
    /\ {Passes, Attempts} \subseteq Nat \ {0} /\ MaxChanges \in Nat
    /\ None \notin Nat \cup Rankings \cup {<<>>}

Outcomes == Rankings \cup {<<>>}
Good(o) == o # <<>>
Top1Is(o, c) == Good(o) /\ o[1] = c
Top5Has(o, c) == \E j \in DOMAIN o : o[j] = c

\* The seventeen records and, beside the images, five files of the dataset,
\* in the order in which they are written.
RecordName == <<
    "pipeline-config", "source-model-config", "source-inspection",
    "calibration-manifest", "evaluation-unlabeled-manifest", "generation",
    "calibration-validation", "evaluation-manifest", "pseudo-labels",
    "evaluation-validation", "overlap", "quantization", "fp32-evaluation",
    "int8-evaluation", "comparison", "proxy-pilot-report", "reproducibility">>
Records == 1..17
DatasetFiles == <<"calibration-manifest", "evaluation-unlabeled-manifest",
                  "generation", "evaluation-manifest", "pseudo-labels">>

\* Faulty variant: the quantization is recorded before it is carried out.
AfterRecordUnpublished(i) ==
    CASE i = 3  -> "draw"        [] i = 7  -> "verifyLabel"
      [] i = 10 -> "overlap"     [] i = 12 -> "verifySource"
      [] i = 13 -> "verifyInt8"  [] i = 14 -> "compare"
      [] i = 17 -> "completed"   [] OTHER  -> "write"

\* The stage that follows the i-th record.
AfterRecord(i) ==
    CASE i = 3  -> "draw"        [] i = 7  -> "verifyLabel"
      [] i = 10 -> "overlap"     [] i = 11 -> "verifySource"
      [] i = 12 -> "verifyFp32"  [] i = 13 -> "verifyInt8"
      [] i = 14 -> "compare"     [] i = 17 -> "completed"
      [] OTHER  -> "write"

AfterDatasetFile(i) ==
    CASE i = 3 -> "validateCal" [] i = 5 -> "validateEva" [] OTHER -> "dataset"

Active == {"inspect", "write", "draw", "digest", "dataset", "validateCal",
    "validateUnlabeled", "verifyLabel", "openLabel", "label", "validateEva",
    "overlap", "verifySource", "prepare", "calibrate", "publish", "verifyFp32",
    "openFp32", "runFp32", "verifyInt8", "openInt8", "runInt8", "compare"}
Over == {"completed", "failed", "refused", "uncreated"}

VARIABLES
    image,    \* the images of the dataset as they are now
    source,   \* the file at the path of the source model
    int8,     \* the published model: its size, or what became of it
    disk,     \* who made the output directory, and what was written there
    run,      \* where the current pilot stands
    data,     \* what it holds in memory
    answer,   \* the answers the FP32 and the INT8 model have given so far
    meddling  \* history: changes by others

vars == <<image, source, int8, disk, run, data, answer, meddling>>

\* n records and d dataset files are written; k is the position of a loop.
Fresh(a) == [attempt |-> a, pc |-> "start", n |-> 0, d |-> 0, k |-> 0, pass |-> 1,
             cal |-> 0, eva |-> 0]
Run == [attempt: 1..Attempts, pc: Active \cup Over \cup {"start"},
        n: 0..17, d: 0..5, k: Images, pass: 1..Passes, cal: Images, eva: Images]

\* The manifests, the open model, what the calibrator got since its last
\* rewind, what the evaluations gave and what the comparison said.  History:
\* the content each label was given for, and the models that gave the labels
\* and that were quantized.
Models == {"none", "fp32", "other", "int8", "damaged"}
Data == [digest: [Images -> Contents \cup {None}], label: [Images -> Nat \cup {None}],
    labelled: [Images -> Contents \cup {None}], session: Models, labeller: Models,
    base: Models, fed: Seq(Contents), small: BOOLEAN, passed: BOOLEAN,
    outcome: [{"runFp32", "runInt8"} -> [Images -> Outcomes \cup {None}]]]
NoData == [digest |-> [i \in Images |-> None], label |-> [i \in Images |-> None],
    labelled |-> [i \in Images |-> None], session |-> "none", labeller |-> "none",
    base |-> "none", fed |-> <<>>, small |-> FALSE, passed |-> FALSE,
    outcome |-> [m \in {"runFp32", "runInt8"} |-> [i \in Images |-> None]]]
NoAnswers == [m \in {"fp32", "int8"} |-> [c \in Contents |-> None]]

TypeOK ==
    /\ image \in [Images -> Contents \cup {None}]
    /\ source \in {"fp32", "other"}
    /\ int8 \in {"none", "small", "large", "damaged"}
    /\ disk \in [owner: 0..Attempts, dataset: SUBSET (1..5), records: SUBSET Records]
    /\ run \in Run
    /\ data \in Data
    /\ answer \in [{"fp32", "int8"} -> [Contents -> Rankings \cup {None}]]
    /\ meddling \in [all: 0..MaxChanges, source: 0..MaxChanges,
                     image: [Images -> 0..MaxChanges]]

Init ==
    /\ image = [i \in Images |-> None]
    /\ source \in {"fp32", "other"}
    /\ int8 = "none"
    /\ disk = [owner |-> 0, dataset |-> {}, records |-> {}]
    /\ run = Fresh(1)
    /\ data = NoData
    /\ answer = NoAnswers
    /\ meddling = [all |-> 0, source |-> 0, image |-> [i \in Images |-> 0]]

-----------------------------------------------------------------------------
Calibration == 0..(run.cal - 1)
Evaluation == run.cal..(run.cal + run.eva - 1)

At(l) == run.pc = l

\* Loops over the evaluation samples start behind the calibration samples.
First(l) == IF l \in {"validateUnlabeled", "label", "validateEva", "runFp32", "runInt8"}
            THEN run.cal ELSE 0
Stop(l) == IF l = "validateCal" THEN run.cal ELSE run.cal + run.eva
Enter(l) == [run EXCEPT !.pc = l, !.k = First(l)]
Goto(l) == run' = Enter(l)
NextSample(again, after) ==
    run' = IF run.k + 1 = Stop(run.pc) THEN Enter(after)
           ELSE [run EXCEPT !.pc = again, !.k = @ + 1]

World == <<image, source, int8, meddling>>

\* The end of the process, and of what it held.
Stopped(l) ==
    /\ run' = [Fresh(run.attempt) EXCEPT !.pc = l]
    /\ data' = NoData
    /\ answer' = NoAnswers
Control == UNCHANGED <<World, disk, data, answer>>

\* Faulty variant: a directory that is there already is used.
CreateOutputThere ==
    /\ At("start")
    /\ disk' = [disk EXCEPT !.owner = IF @ = 0 THEN run.attempt ELSE @]
    /\ \E c \in Counts : run' = [Enter("inspect") EXCEPT !.cal = c[1], !.eva = c[2]]
    /\ UNCHANGED <<World, data, answer>>

\* The output, its records and its models directory are made.
CreateOutput ==
    /\ At("start")
    /\ \/ /\ disk.owner # 0
          /\ Goto("refused")
          /\ UNCHANGED disk
       \/ /\ disk.owner = 0
          /\ disk' \in {disk, [disk EXCEPT !.owner = run.attempt]}
          /\ Goto("uncreated")
       \/ /\ disk.owner = 0
          /\ disk' = [disk EXCEPT !.owner = run.attempt]
          /\ \E c \in Counts :
                run' = [Enter("inspect") EXCEPT !.cal = c[1], !.eva = c[2]]
    /\ UNCHANGED <<World, data, answer>>

InspectSource == At("inspect") /\ source = "fp32" /\ Goto("write") /\ Control

\* _write_record; the record may be there and an error be reported all the
\* same (ExclusivePublish).
WriteRecord ==
    /\ At("write")
    /\ LET i == run.n + 1 IN
          /\ i \notin disk.records
          /\ disk' = [disk EXCEPT !.records = @ \cup {i}]
          /\ \/ run' = [Enter(AfterRecord(i)) EXCEPT !.n = i] /\ UNCHANGED <<data, answer>>
             \/ Stopped("failed")
    /\ UNCHANGED World

-----------------------------------------------------------------------------
(* Synthetic data and its labels                                           *)

Pattern(i) == i % Period

\* _write_ppm, in mode "xb".  The index runs on from one split to the next.
DrawImage ==
    /\ At("draw")
    /\ image[run.k] = None
    /\ image' = [image EXCEPT ![run.k] = Pattern(run.k)]
    /\ run' = [run EXCEPT !.pc = "digest"]
    /\ UNCHANGED <<source, int8, meddling, disk, data, answer>>

\* The file just written is read again for its digest.
DigestImage ==
    /\ At("digest")
    /\ image[run.k] # None
    /\ data' = [data EXCEPT !.digest[run.k] = image[run.k]]
    /\ NextSample("draw", "dataset")
    /\ UNCHANGED <<World, disk, answer>>

WriteDatasetFile ==
    /\ At("dataset")
    /\ LET i == run.d + 1 IN
          /\ i \notin disk.dataset
          /\ disk' = [disk EXCEPT !.dataset = @ \cup {i}]
          /\ \/ /\ run' = [Enter(AfterDatasetFile(i)) EXCEPT !.d = i]
                /\ UNCHANGED <<data, answer>>
             \/ Stopped("failed")
    /\ UNCHANGED World

\* Faulty variant: the digest in the manifest is not compared.
ValidateSampleThere ==
    /\ run.pc \in {"validateCal", "validateUnlabeled", "validateEva"}
    /\ image[run.k] # None
    /\ NextSample(run.pc, IF At("validateCal") THEN "validateUnlabeled" ELSE "write")
    /\ Control

\* validate_dataset, of the calibration, the unlabelled and the labelled set.
ValidateSample ==
    /\ run.pc \in {"validateCal", "validateUnlabeled", "validateEva"}
    /\ image[run.k] = data.digest[run.k]
    /\ NextSample(run.pc, IF At("validateCal") THEN "validateUnlabeled" ELSE "write")
    /\ Control

\* _verify_artifact and _verify_source_unchanged: the file has the digest
\* that the inspection recorded.
VerifySource ==
    /\ run.pc \in {"verifyLabel", "verifySource", "verifyFp32"}
    /\ source = "fp32"
    /\ Goto(CASE At("verifyLabel") -> "openLabel" [] At("verifySource") -> "prepare"
              [] OTHER -> "openFp32")
    /\ Control

\* The model is opened by its path after that.
OpenSource ==
    /\ \/ /\ At("openLabel")
          /\ data' = [data EXCEPT !.session = source, !.labeller = source]
          /\ Goto("label")
       \/ /\ At("openFp32")
          /\ data' = [data EXCEPT !.session = source]
          /\ Goto("runFp32")
       \/ /\ At("prepare")
          /\ data' = [data EXCEPT !.base = source]
          /\ Goto("calibrate")
    /\ UNCHANGED <<World, disk, answer>>

\* What session.run and _classify_output give for content c.  The two models
\* of the pilot stay with an answer; what others put in their place may say
\* anything.
Answers(c) ==
    LET m == data.session IN
    IF m \in DOMAIN answer /\ answer[m][c] # None THEN {answer[m][c]} ELSE Rankings
Remember(c, o) ==
    answer' = [m \in DOMAIN answer |->
                 IF m = data.session THEN [answer[m] EXCEPT ![c] = o] ELSE answer[m]]

\* Faulty variant: the labels are paired with the samples of the other split.
LabelFromFirst ==
    /\ At("label")
    /\ image[run.k] # None
    /\ \E o \in Answers(image[run.k]) :
          /\ Remember(image[run.k], o)
          /\ data' = [data EXCEPT !.label[run.k - run.cal] = o[1],
                                  !.labelled[run.k] = image[run.k]]
    /\ NextSample("label", "dataset")
    /\ UNCHANGED <<World, disk>>

\* pseudo_label_evaluation_dataset: a sample without a top-1 ends it (Fail).
LabelSample ==
    /\ At("label")
    /\ image[run.k] # None
    /\ \E o \in Answers(image[run.k]) :
          /\ Remember(image[run.k], o)
          /\ data' = [data EXCEPT !.label[run.k] = o[1], !.labelled[run.k] = image[run.k]]
    /\ NextSample("label", "dataset")
    /\ UNCHANGED <<World, disk>>

\* Faulty variant: the overlap is recorded and the pilot goes on.
ReportOverlap == At("overlap") /\ Goto("write") /\ Control

\* require_no_dataset_overlap; identifiers and files of the splits differ.
RequireNoOverlap ==
    /\ At("overlap")
    /\ \A i \in Calibration, j \in Evaluation : data.digest[i] # data.digest[j]
    /\ Goto("write")
    /\ Control

-----------------------------------------------------------------------------
(* Calibration, quantization, evaluation and comparison                    *)

\* Faulty variant: an image that cannot be prepared is passed on.
GetNextAnyway ==
    /\ At("calibrate") /\ run.k < run.cal
    /\ run' = [run EXCEPT !.k = @ + 1]
    /\ data' = [data EXCEPT !.fed = Append(@, image[run.k])]
    /\ UNCHANGED <<World, disk, answer>>

\* ManifestCalibrationDataReader.get_next: the position first, then the image;
\* an image that cannot be prepared ends the quantization (Fail).
GetNext ==
    /\ At("calibrate") /\ run.k < run.cal
    /\ image[run.k] # None
    /\ run' = [run EXCEPT !.k = @ + 1]
    /\ data' = [data EXCEPT !.fed = Append(@, image[run.k])]
    /\ UNCHANGED <<World, disk, answer>>

\* Faulty variant: rewind leaves the position where it is.
RewindNot ==
    /\ At("calibrate") /\ run.k = run.cal
    /\ run.pass < Passes
    /\ run' = [run EXCEPT !.pass = @ + 1]
    /\ data' = [data EXCEPT !.fed = <<>>]
    /\ UNCHANGED <<World, disk, answer>>

\* The calibrator got None and goes through the samples once more.  fed is
\* what it got since the last rewind.
Rewind ==
    /\ At("calibrate") /\ run.k = run.cal
    /\ run.pass < Passes
    /\ run' = [run EXCEPT !.pass = @ + 1, !.k = 0]
    /\ data' = [data EXCEPT !.fed = <<>>]
    /\ UNCHANGED <<World, disk, answer>>

EndCalibration ==
    /\ At("calibrate") /\ run.k = run.cal
    /\ Goto("publish")
    /\ Control

\* The model is linked under its name; an error may still follow.
PublishModel ==
    /\ At("publish")
    /\ int8 = "none"
    /\ int8' \in {"small", "large"}
    /\ \/ /\ data' = [data EXCEPT !.small = int8' = "small"]
          /\ Goto("write")
          /\ UNCHANGED answer
       \/ Stopped("failed")
    /\ UNCHANGED <<image, source, meddling, disk>>

VerifyInt8 ==
    /\ At("verifyInt8")
    /\ int8 = IF data.small THEN "small" ELSE "large"
    /\ Goto("openInt8")
    /\ Control

OpenInt8 ==
    /\ At("openInt8")
    /\ data' = [data EXCEPT !.session = IF int8 = "damaged" THEN int8 ELSE "int8"]
    /\ Goto("runInt8")
    /\ UNCHANGED <<World, disk, answer>>

\* evaluate_model, for one sample: every outcome is kept.
RunSample ==
    /\ run.pc \in {"runFp32", "runInt8"}
    /\ LET c == image[run.k] IN
       \/ /\ data' = [data EXCEPT !.outcome[run.pc][run.k] = <<>>]
          /\ UNCHANGED answer
       \/ /\ c # None
          /\ \E o \in Answers(c) :
                /\ data' = [data EXCEPT !.outcome[run.pc][run.k] = o]
                /\ Remember(c, o)
    /\ NextSample(run.pc, "write")
    /\ UNCHANGED <<World, disk>>

Fp32(i) == data.outcome["runFp32"][i]
Int8(i) == data.outcome["runInt8"][i]
Correct1(m) == Cardinality({i \in Evaluation : Top1Is(data.outcome[m][i], data.label[i])})
Correct5(m) == Cardinality({i \in Evaluation : Top5Has(data.outcome[m][i], data.label[i])})
Agreed == Cardinality({i \in Evaluation :
                          Good(Fp32(i)) /\ Top1Is(Int8(i), Fp32(i)[1])})

\* Faulty variant: a drop that equals the threshold is rejected.
OverallStrict ==
    /\ (Correct1("runFp32") - Correct1("runInt8")) * 100 < MaxTop1Drop * run.eva
    /\ (Correct5("runFp32") - Correct5("runInt8")) * 100 <= MaxTop5Drop * run.eva
    /\ data.small
    /\ Agreed * 100 >= MinAgreement * run.eva
    /\ \A i \in Evaluation : Good(Fp32(i)) /\ Good(Int8(i))

\* overall_passed: the gates of compare_evaluations.
Overall ==
    /\ (Correct1("runFp32") - Correct1("runInt8")) * 100 <= MaxTop1Drop * run.eva
    /\ (Correct5("runFp32") - Correct5("runInt8")) * 100 <= MaxTop5Drop * run.eva
    /\ data.small
    /\ Agreed * 100 >= MinAgreement * run.eva
    /\ \A i \in Evaluation : Good(Fp32(i)) /\ Good(Int8(i))

\* One selection was given to both evaluations, so that they are comparable.
CompareEvaluations ==
    /\ At("compare")
    /\ data' = [data EXCEPT !.passed = Overall]
    /\ Goto("write")
    /\ UNCHANGED <<World, disk, answer>>

-----------------------------------------------------------------------------
(* Failures and others                                                     *)

\* Any stage may raise (where a guard above is false, it does) or be killed:
\* nothing is cleaned up, so that the two leave the same behind.
Fail ==
    /\ run.pc \in Active
    /\ Stopped("failed")
    /\ UNCHANGED <<World, disk>>

\* Somebody starts another pilot on the same output directory.
StartAgain ==
    /\ run.pc \in Over
    /\ run.attempt < Attempts
    /\ run' = Fresh(run.attempt + 1)
    /\ data' = NoData /\ answer' = NoAnswers
    /\ UNCHANGED <<World, disk>>

\* Others change a file as long as a stage may still read one: the comparison
\* and what follows work from memory, and so does no pilot that has ended.
Meddled ==
    /\ run.pc \in Active \cup {"start"}
    /\ run.n < 14
    /\ meddling.all < MaxChanges

\* Changes of an image are counted once its digest is known.
ChangeImage(i, c) ==
    /\ Meddled
    /\ image[i] \notin {None, c}
    /\ image' = [image EXCEPT ![i] = c]
    /\ meddling' = [meddling EXCEPT !.all = @ + 1,
                      !.image[i] = IF data.digest[i] = None THEN @ ELSE @ + 1]
    /\ UNCHANGED <<source, int8, disk, run, data, answer>>

ChangeSource ==
    /\ Meddled
    /\ source' \in {"fp32", "other"} \ {source}
    /\ meddling' = [meddling EXCEPT !.all = @ + 1, !.source = @ + 1]
    /\ UNCHANGED <<image, int8, disk, run, data, answer>>

DamageInt8 ==
    /\ Meddled
    /\ int8 \in {"small", "large"}
    /\ int8' = "damaged"
    /\ meddling' = [meddling EXCEPT !.all = @ + 1]
    /\ UNCHANGED <<image, source, disk, run, data, answer>>

Stage ==
    \/ CreateOutput \/ InspectSource \/ WriteRecord \/ DrawImage \/ DigestImage
    \/ WriteDatasetFile \/ ValidateSample \/ VerifySource \/ OpenSource
    \/ LabelSample \/ RequireNoOverlap \/ GetNext \/ Rewind \/ EndCalibration
    \/ PublishModel \/ VerifyInt8 \/ OpenInt8 \/ RunSample
    \/ CompareEvaluations

Next ==
    \/ Stage \/ Fail \/ StartAgain
    \/ \E i \in Images, c \in Contents \cup {None} : ChangeImage(i, c)
    \/ ChangeSource \/ DamageInt8

Spec == Init /\ [][Next]_vars

-----------------------------------------------------------------------------
(* Properties                                                              *)

\* What the calibrator got before the model was recorded is the selection,
\* whole and in its order, as the manifest describes it: also when it went
\* through the samples twice, and unless an image was changed since.
CalibratedOnSelection ==
    run.n >= 12 =>
        /\ Len(data.fed) = run.cal
        /\ \A i \in Calibration : meddling.image[i] = 0 =>
              data.fed[i + 1] = data.digest[i]

\* Once the labelled set is validated, each label was given for the content
\* its manifest names; once the model is quantized, by the source model; and
\* that is what was quantized, once it has been verified again.  To escape,
\* a file has to be changed twice.
LabelsOfRecorded ==
    /\ run.n >= 10 => \A i \in Evaluation :
          meddling.image[i] < 2 => data.labelled[i] = data.digest[i]
    /\ run.n >= 12 /\ meddling.source < 2 => data.labeller = "fp32"
    /\ run.n >= 13 /\ meddling.source < 2 => data.base = "fp32"

\* The labels are the top-1 of the FP32 model, so its evaluation gets every
\* sample right that it gets an answer for, unless somebody interfered.
LabelsRight ==
    run.n >= 13 /\ meddling.source = 0 => \A i \in Evaluation :
        meddling.image[i] = 0 /\ Good(Fp32(i)) => Top1Is(Fp32(i), data.label[i])

\* The verdict is what the two models themselves call for: no failure, a
\* model of half the size, and enough images where the INT8 model has the top-1
\* of the FP32 model as its top-1, and among its top-5.  The gate on their
\* agreement decides nothing here, the one on the accuracy being stricter.
VerdictDeserved ==
    run.n >= 15 /\ meddling.all = 0 =>
        (data.passed <=>
            LET Of(m, i) == answer[m][Pattern(i)]
                Best(i) == Of("fp32", i)[1]
                Enough(S, drop) == Cardinality(S) * 100 >= (100 - drop) * run.eva
            IN /\ data.small
               /\ \A i \in Evaluation : Good(Fp32(i)) /\ Good(Int8(i))
               /\ Enough({i \in Evaluation : Top1Is(Of("int8", i), Best(i))}, MaxTop1Drop)
               /\ Enough({i \in Evaluation : Top5Has(Of("int8", i), Best(i))}, MaxTop5Drop))

\* However many samples a pilot is asked for, it gets past the overlap only
\* with images that all differ, within a split too: the patterns repeat, and
\* the first image that does so is a calibration image again.
SamplesDistinct ==
    run.n >= 11 /\ meddling.all = 0 =>
        \A i, j \in Calibration \cup Evaluation :
            image[i] = image[j] => i = j

\* Whatever a killed or failed pilot leaves behind: where there is a record,
\* there are all the earlier ones, the dataset files they speak of, and the
\* model from its quantization record on.
PrefixOnDisk ==
    \A j \in disk.records :
        /\ 1..(j - 1) \subseteq disk.records
        /\ j >= 4 => 1..3 \subseteq disk.dataset
        /\ j >= 8 => disk.dataset = 1..5
        /\ j >= 12 => int8 # "none"

\* A directory of an earlier pilot, completed or not, gets nothing from a
\* later one.
LaterPilotInert ==
    [][disk.owner \notin {0, run.attempt} => UNCHANGED disk]_vars

\* The output directory is one that the pipeline may rely on, and what a
\* pilot says of it is true.  Only the answer of the current one is kept.
Said(a) == IF a < run.attempt THEN "gone"
           ELSE IF a = run.attempt /\ run.pc \in Over THEN run.pc ELSE "none"
Evidence == INSTANCE EvidenceDirectory WITH
        Writers <- 1..Attempts, Size <- Len(RecordName),
        owner <- IF disk.owner = 0 THEN None ELSE disk.owner,
        records <- disk.records, failure <- None,
        answer <- [a \in 1..Attempts |-> Said(a)]
Implements == Evidence!AbstractSpec
=============================================================================
