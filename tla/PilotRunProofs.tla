----------------------------- MODULE PilotRunProofs -----------------------------
(***************************************************************************)
(* Proofs about PilotRun, for any sample counts, period, rankings,         *)
(* thresholds and numbers of pilots and of changes.                        *)
(***************************************************************************)
EXTENDS PilotRun, FiniteSetTheorems, TLAPS

\* The stages are behind the pilot that follow its i-th record.
Past(i, stages) == run.n > i \/ (run.n = i /\ run.pc \notin stages)

Drawn == Past(3, {"draw", "digest"})
Opened == Past(7, {"verifyLabel", "openLabel"})
Labelled == Past(7, {"verifyLabel", "openLabel", "label"})
Revalidated == Past(7, {"verifyLabel", "openLabel", "label", "dataset", "validateEva"})
Separate == Past(10, {"overlap"})
SourceVerified == Past(11, {"verifySource"})
Prepared == Past(11, {"verifySource", "prepare"})
Calibrated == Past(11, {"verifySource", "prepare", "calibrate"})
Published == Past(11, {"verifySource", "prepare", "calibrate", "publish"})
Fp32Verified == Past(12, {"verifyFp32"})
Fp32Done == Past(12, {"verifyFp32", "openFp32", "runFp32"})
Int8Done == Past(13, {"verifyInt8", "openInt8", "runInt8"})
Compared == Past(14, {"compare"})

Samples == 0..(run.cal + run.eva - 1)
Changed(i) == meddling.image[i]
Swaps == meddling.source

\* Which records and dataset files are written at a stage, and where its loop is.
Position ==
    /\ run.pc \in Active \cup {"completed"} => <<run.cal, run.eva>> \in Counts
    /\ run.pc \in {"start", "inspect", "failed", "refused", "uncreated"} =>
          run.n = 0 /\ run.d = 0
    /\ run.pc = "write" => \/ run.n \in 0..2 /\ run.d = 0
                           \/ run.n \in 3..6 /\ run.d = 3
                           \/ run.n \in 7..16 /\ run.d = 5
    /\ run.pc \in {"draw", "digest"} => run.n = 3 /\ run.d = 0 /\ run.k \in Samples
    /\ run.pc = "dataset" => \/ run.n = 3 /\ run.d \in 0..2
                             \/ run.n = 7 /\ run.d \in 3..4
    /\ run.pc = "validateCal" => run.n = 3 /\ run.d = 3 /\ run.k \in Calibration
    /\ run.pc = "validateUnlabeled" => run.n = 3 /\ run.d = 3 /\ run.k \in Evaluation
    /\ run.pc \in {"verifyLabel", "openLabel", "label"} => run.n = 7 /\ run.d = 3
    /\ run.pc = "validateEva" => run.n = 7 /\ run.d = 5
    /\ run.pc \in {"label", "validateEva", "runFp32", "runInt8"} => run.k \in Evaluation
    /\ run.pc = "overlap" => run.n = 10 /\ run.d = 5
    /\ run.pc \in {"verifySource", "prepare", "calibrate", "publish"} =>
          run.n = 11 /\ run.d = 5
    /\ run.pc = "calibrate" => run.k \in 0..run.cal
    /\ run.pc \in {"verifyFp32", "openFp32", "runFp32"} => run.n = 12 /\ run.d = 5
    /\ run.pc \in {"verifyInt8", "openInt8", "runInt8"} => run.n = 13 /\ run.d = 5
    /\ run.pc = "compare" => run.n = 14 /\ run.d = 5
    /\ run.pc = "completed" => run.n = 17 /\ run.d = 5

Counted == Swaps <= meddling.all /\ \A i \in Images : Changed(i) <= meddling.all

\* What is on disk.
Kept ==
    /\ run.pc \in Active \cup {"completed"} =>
          disk = [owner |-> run.attempt, dataset |-> 1..run.d, records |-> 1..run.n]
    /\ disk.owner = 0 => disk.records = {} /\ disk.dataset = {}
    /\ PrefixOnDisk
    /\ Published => int8 # "none"

\* An image is what it was when its digest was taken, unless it was changed.
Digested ==
    /\ \A i \in Images : Changed(i) = 0 /\ data.digest[i] # None => image[i] = data.digest[i]
    /\ run.pc \in {"draw", "digest"} => \A i \in 0..(run.k - 1) : data.digest[i] # None
    /\ Drawn => \A i \in Samples : data.digest[i] # None

\* Samples of a loop that are done, or all.
Done(l, behind) == IF run.pc = l THEN run.cal..(run.k - 1)
                   ELSE IF behind THEN Evaluation ELSE {}

\* An image that was labelled with another content has that content still,
\* until it is changed a second time.
LabelsKept ==
    /\ \A i \in Done("label", Labelled) :
          Changed(i) < 2 => data.labelled[i] \in {data.digest[i], image[i]}
    /\ \A i \in Done("validateEva", Revalidated) :
          Changed(i) < 2 => data.labelled[i] = data.digest[i]

SourceKept ==
    /\ run.pc \in Active \ {"inspect"} /\ Swaps = 0 => source = "fp32"
    /\ Swaps < 2 =>
          /\ Opened => data.labeller \in {"fp32", source}
          /\ SourceVerified => data.labeller = "fp32"
          /\ Prepared => data.base \in {"fp32", source}
          /\ Fp32Verified => data.base = "fp32"

\* What the calibrator has got.
Fed ==
    /\ run.pc = "calibrate" => Len(data.fed) = run.k
    /\ Calibrated => Len(data.fed) = run.cal
    /\ ~ Prepared => data.fed = <<>>
    /\ run.pc = "calibrate" \/ Calibrated =>
          \A i \in 1..Len(data.fed) :
              Changed(i - 1) = 0 => data.fed[i] = data.digest[i - 1]

Says(m, i) == answer[m][data.digest[i]]

\* Labels and outcomes are the answers of the two models.
Answered ==
    /\ run.pc \in {"label", "runFp32"} /\ Swaps = 0 => data.session = "fp32"
    /\ run.pc = "runInt8" /\ meddling.all = 0 => data.session = "int8"
    /\ Swaps = 0 =>
          /\ \A i \in Done("label", Labelled) : Changed(i) = 0 =>
                Says("fp32", i) # None /\ data.label[i] = Says("fp32", i)[1]
          /\ \A i \in Done("runFp32", Fp32Done) : Changed(i) = 0 /\ Good(Fp32(i)) =>
                Fp32(i) = Says("fp32", i)
    /\ meddling.all = 0 => \A i \in Done("runInt8", Int8Done) :
          Good(Int8(i)) => Int8(i) = Says("int8", i) /\ Says("int8", i) # None

\* Undisturbed, the images are the patterns.
Patterns ==
    /\ meddling.all = 0 => /\ int8 # "damaged"
                           /\ \A i \in Images : image[i] \in {None, Pattern(i)}
    /\ Separate => \A i \in Calibration, j \in Evaluation : data.digest[i] # data.digest[j]

Judged == Compared /\ meddling.all = 0 => (data.passed <=> Overall)

IInv == TypeOK /\ Position /\ Counted /\ Kept /\ Digested /\ LabelsKept /\ SourceKept
        /\ Fed /\ Answered /\ Patterns /\ Judged

-----------------------------------------------------------------------------
(* Lemmas on the shape of steps                                            *)

LEMMA CountFacts ==
    ASSUME NEW c \in Counts
    PROVE  /\ c[1] \in Nat \ {0} /\ c[2] \in Nat \ {0}
           /\ c[1] \in Images /\ c[2] \in Images /\ c[1] + c[2] \in Images
BY PilotAssumption DEF PilotAssumption, Images

LEMMA Sizes ==
    ASSUME TypeOK, Position, run.pc \in Active
    PROVE  /\ run.cal \in Nat \ {0} /\ run.eva \in Nat \ {0}
           /\ run.cal + run.eva \in Images
           /\ Samples \subseteq Images
           /\ Calibration \subseteq Samples /\ Evaluation \subseteq Samples
<1>1. <<run.cal, run.eva>> \in Counts
  BY DEF Position
<1>2. /\ run.cal \in Nat \ {0} /\ run.eva \in Nat \ {0}
      /\ run.cal + run.eva \in Images
  BY <1>1, CountFacts
<1> QED
  BY <1>2, PilotAssumption
     DEF PilotAssumption, Images, Samples, Calibration, Evaluation

LEMMA Entering ==
    ASSUME run \in Run, NEW l \in Active \cup Over
    PROVE  /\ Enter(l) \in Run
           /\ Enter(l).pc = l /\ Enter(l).k = First(l)
           /\ Enter(l).n = run.n /\ Enter(l).d = run.d
           /\ Enter(l).attempt = run.attempt /\ Enter(l).pass = run.pass
           /\ Enter(l).cal = run.cal /\ Enter(l).eva = run.eva
<1>1. First(l) \in Images
  BY PilotAssumption DEF PilotAssumption, Run, First, Images
<1> QED
  BY <1>1 DEF Run, Enter

LEMMA Looping ==
    ASSUME run \in Run, run.k + 1 \in Images,
           NEW again \in Active, NEW after \in Active, NextSample(again, after)
    PROVE  /\ run' \in Run
           /\ run'.n = run.n /\ run'.d = run.d
           /\ run'.attempt = run.attempt /\ run'.pass = run.pass
           /\ run'.cal = run.cal /\ run'.eva = run.eva
           /\ \/ run.k + 1 = Stop(run.pc) /\ run'.pc = after /\ run'.k = First(after)
              \/ run.k + 1 # Stop(run.pc) /\ run'.pc = again /\ run'.k = run.k + 1
<1>1. CASE run.k + 1 = Stop(run.pc)
  BY <1>1, Entering DEF NextSample
<1>2. CASE run.k + 1 # Stop(run.pc)
  BY <1>2 DEF NextSample, Run
<1> QED
  BY <1>1, <1>2

LEMMA Freshness ==
    ASSUME NEW a \in 1..Attempts, NEW l \in Over \cup {"start"}
    PROVE  /\ Fresh(a) \in Run /\ [Fresh(a) EXCEPT !.pc = l] \in Run
           /\ Fresh(a).pc = "start" /\ Fresh(a).n = 0 /\ Fresh(a).d = 0
           /\ [Fresh(a) EXCEPT !.pc = l].pc = l
           /\ [Fresh(a) EXCEPT !.pc = l].n = 0 /\ [Fresh(a) EXCEPT !.pc = l].d = 0
BY PilotAssumption DEF PilotAssumption, Fresh, Run, Images

LEMMA Emptiness == NoData \in Data /\ NoAnswers \in [{"fp32", "int8"} -> [Contents -> Rankings \cup {None}]]
BY PilotAssumption DEF PilotAssumption, NoData, NoAnswers, Data, Models

\* What goes with the end of the process.
LEMMA Stopping ==
    ASSUME TypeOK, NEW l \in {"failed"}, Stopped(l)
    PROVE  /\ run' \in Run /\ run'.pc = l /\ run'.n = 0 /\ run'.d = 0
           /\ run'.attempt = run.attempt
           /\ data' = NoData /\ answer' = NoAnswers
<1>1. run.attempt \in 1..Attempts
  BY DEF TypeOK, Run
<1> QED
  BY <1>1, Freshness DEF Stopped, Over, Fresh

-----------------------------------------------------------------------------
(* Types and the position in the sequence of stages                        *)

Placed == TypeOK /\ Position /\ Counted

\* A loop goes on with the next sample, or it is left.
Round(again, after, stop) ==
    \/ run.k + 1 # stop /\ run'.pc = again /\ run'.k = run.k + 1
    \/ run.k + 1 = stop /\ run'.pc = after /\ run'.k = First(after)
Total == run.cal + run.eva

\* Where each stage goes.
Steps ==
    /\ run'.attempt = run.attempt
    /\ \/ /\ run'.pc \in {"failed", "refused", "uncreated"} /\ run'.n = 0 /\ run'.d = 0
          /\ \/ run'.pc = "failed" /\ data' = NoData
             \/ CreateOutput /\ run.pc = "start" /\ run.n = 0
       \/ /\ CreateOutput /\ run.pc = "start"
          /\ run'.pc = "inspect" /\ run'.n = 0 /\ run'.d = 0
          /\ <<run'.cal, run'.eva>> \in Counts
       \/ /\ run'.cal = run.cal /\ run'.eva = run.eva
          /\ \/ /\ WriteRecord /\ run.pc = "write" /\ run'.pc = AfterRecord(run.n + 1)
                /\ run'.n = run.n + 1 /\ run'.d = run.d /\ run'.k = First(run'.pc)
             \/ /\ WriteDatasetFile /\ run.pc = "dataset"
                /\ run'.pc = AfterDatasetFile(run.d + 1)
                /\ run'.n = run.n /\ run'.d = run.d + 1 /\ run'.k = First(run'.pc)
             \/ /\ run'.n = run.n /\ run'.d = run.d
                /\ \/ InspectSource /\ run.pc = "inspect" /\ run'.pc = "write"
                   \/ DrawImage /\ run.pc = "draw" /\ run'.pc = "digest" /\ run'.k = run.k
                   \/ DigestImage /\ run.pc = "digest" /\ Round("draw", "dataset", Total)
                   \/ ValidateSample /\ run.pc = "validateCal"
                      /\ Round("validateCal", "validateUnlabeled", run.cal)
                   \/ ValidateSample /\ run.pc \in {"validateUnlabeled", "validateEva"}
                      /\ Round(run.pc, "write", Total)
                   \/ VerifySource /\ run.pc = "verifyLabel" /\ run'.pc = "openLabel"
                   \/ VerifySource /\ run.pc = "verifySource" /\ run'.pc = "prepare"
                   \/ VerifySource /\ run.pc = "verifyFp32" /\ run'.pc = "openFp32"
                   \/ OpenSource /\ run.pc = "openLabel" /\ run'.pc = "label" /\ run'.k = run.cal
                   \/ OpenSource /\ run.pc = "prepare" /\ run'.pc = "calibrate" /\ run'.k = 0
                   \/ OpenSource /\ run.pc = "openFp32" /\ run'.pc = "runFp32" /\ run'.k = run.cal
                   \/ LabelSample /\ run.pc = "label" /\ Round("label", "dataset", Total)
                   \/ RequireNoOverlap /\ run.pc = "overlap" /\ run'.pc = "write"
                   \/ GetNext /\ run.pc = "calibrate" /\ run.k < run.cal
                      /\ run'.pc = "calibrate" /\ run'.k = run.k + 1
                   \/ Rewind /\ run.pc = "calibrate" /\ run'.pc = "calibrate" /\ run'.k = 0
                   \/ EndCalibration /\ run.pc = "calibrate" /\ run.k = run.cal
                      /\ run'.pc = "publish"
                   \/ PublishModel /\ run.pc = "publish" /\ run'.pc = "write"
                   \/ VerifyInt8 /\ run.pc = "verifyInt8" /\ run'.pc = "openInt8"
                   \/ OpenInt8 /\ run.pc = "openInt8" /\ run'.pc = "runInt8" /\ run'.k = run.cal
                   \/ RunSample /\ run.pc \in {"runFp32", "runInt8"} /\ Round(run.pc, "write", Total)
                   \/ CompareEvaluations /\ run.pc = "compare" /\ run'.pc = "write"

\* The next sample, or the step after the last one.
LEMMA Rounding ==
    ASSUME run \in Run, run.k + 1 \in Images,
           NEW again \in Active, NEW after \in Active, NextSample(again, after)
    PROVE  /\ run' \in Run /\ run'.attempt = run.attempt
           /\ run'.n = run.n /\ run'.d = run.d
           /\ run'.cal = run.cal /\ run'.eva = run.eva
           /\ Round(again, after, Stop(run.pc))
BY Looping DEF Round

LEMMA Moves ==
    ASSUME Placed, Stage
    PROVE  run' \in Run /\ Steps
<1>r. run \in Run /\ Position
  BY DEF Placed, TypeOK
<1>a. run.pc \in Active => /\ run.cal \in Nat \ {0} /\ run.eva \in Nat \ {0}
                          /\ run.cal + run.eva \in Images
  BY Sizes DEF Placed
<1>m. MaxImages \in Nat
  BY PilotAssumption DEF PilotAssumption
<1>s. Stopped("failed") => run' \in Run /\ Steps
  BY Stopping DEF Placed, Steps
<1> USE <1>r, <1>a DEF At, Goto, Active, Over
<1>1. CASE CreateOutput
  <2>1. run.pc = "start" /\ run.n = 0 /\ run.d = 0
    BY <1>1 DEF CreateOutput, Position
  <2>2. CASE run' = Enter("refused") \/ run' = Enter("uncreated")
    BY <1>1, <2>1, <2>2, Entering DEF Steps
  <2>3. ASSUME NEW c \in Counts, run' = [Enter("inspect") EXCEPT !.cal = c[1], !.eva = c[2]]
        PROVE  run' \in Run /\ Steps
    <3>1. /\ run' \in Run /\ run'.pc = "inspect" /\ run'.n = run.n /\ run'.d = run.d
          /\ run'.cal = c[1] /\ run'.eva = c[2] /\ run'.attempt = run.attempt
      BY <2>3, Entering, CountFacts DEF Run
    <3>2. <<run'.cal, run'.eva>> \in Counts
      BY <3>1, PilotAssumption DEF PilotAssumption
    <3> QED
      BY <1>1, <2>1, <3>1, <3>2 DEF Steps
  <2> QED
    BY <1>1, <2>2, <2>3 DEF CreateOutput
<1>2. CASE InspectSource
  BY <1>2, Entering DEF InspectSource, Steps
<1>3. CASE WriteRecord
  <2>1. CASE run' = [Enter(AfterRecord(run.n + 1)) EXCEPT !.n = run.n + 1]
    <3>1. run.pc = "write"
      BY <1>3 DEF WriteRecord
    <3>2. run.n \in 0..16 /\ AfterRecord(run.n + 1) \in Active \cup Over
      BY <3>1 DEF Position, AfterRecord
    <3>3. /\ run' \in Run /\ run'.n = run.n + 1 /\ run'.pc = AfterRecord(run.n + 1)
          /\ run'.k = First(AfterRecord(run.n + 1)) /\ run'.d = run.d
          /\ run'.cal = run.cal /\ run'.eva = run.eva /\ run'.attempt = run.attempt
      BY <2>1, <3>2, Entering DEF Run
    <3> QED
      BY <1>3, <3>1, <3>3 DEF Steps
  <2> QED
    BY <1>3, <1>s, <2>1 DEF WriteRecord
<1>4. CASE DrawImage
  BY <1>4 DEF DrawImage, Run, Steps
<1>5. CASE DigestImage
  <2>1. run.pc = "digest" /\ NextSample("draw", "dataset")
    BY <1>5 DEF DigestImage
  <2>2. run.k \in Samples
    BY <2>1 DEF Position
  <2>3. run.k + 1 \in Images
    BY <2>1, <2>2, <1>m DEF Images, Samples
  <2> QED
    <3>1. "dataset" \in Active /\ "write" \in Active /\ "draw" \in Active /\ run.pc \in Active
      BY <2>1
    <3>2. /\ run' \in Run /\ run'.attempt = run.attempt
          /\ run'.n = run.n /\ run'.d = run.d
          /\ run'.cal = run.cal /\ run'.eva = run.eva
          /\ Round("draw", "dataset", Stop(run.pc))
      BY <1>r, <2>1, <2>3, <3>1, Rounding
    <3>3. Stop(run.pc) = Total
      BY <2>1 DEF Stop, Total
    <3> QED
      BY <1>5, <2>1, <3>2, <3>3 DEF Steps
<1>6. CASE WriteDatasetFile
  <2>1. CASE run' = [Enter(AfterDatasetFile(run.d + 1)) EXCEPT !.d = run.d + 1]
    <3>1. run.pc = "dataset"
      BY <1>6 DEF WriteDatasetFile
    <3>2. run.d \in 0..4 /\ AfterDatasetFile(run.d + 1) \in Active
      BY <3>1 DEF Position, AfterDatasetFile
    <3>3. /\ run' \in Run /\ run'.d = run.d + 1 /\ run'.pc = AfterDatasetFile(run.d + 1)
          /\ run'.k = First(AfterDatasetFile(run.d + 1)) /\ run'.n = run.n
          /\ run'.cal = run.cal /\ run'.eva = run.eva /\ run'.attempt = run.attempt
      BY <2>1, <3>2, Entering DEF Run
    <3> QED
      BY <1>6, <3>1, <3>3 DEF Steps
  <2> QED
    BY <1>6, <1>s, <2>1 DEF WriteDatasetFile
<1>7. CASE ValidateSample
  <2>1. /\ run.pc \in {"validateCal", "validateUnlabeled", "validateEva"}
        /\ NextSample(run.pc, IF run.pc = "validateCal" THEN "validateUnlabeled" ELSE "write")
    BY <1>7 DEF ValidateSample
  <2>2. IF run.pc = "validateCal" THEN run.k \in Calibration ELSE run.k \in Evaluation
    BY <2>1 DEF Position
  <2>3. run.k + 1 \in Images
    BY <2>1, <2>2, <1>m DEF Images, Calibration, Evaluation
  <2> DEFINE after == IF run.pc = "validateCal" THEN "validateUnlabeled" ELSE "write"
  <2>4. run.pc \in Active /\ after \in Active /\ NextSample(run.pc, after)
    BY <2>1 DEF Active
  <2> HIDE DEF after
  <2>5. /\ run' \in Run /\ run'.n = run.n /\ run'.d = run.d /\ run'.attempt = run.attempt
        /\ run'.cal = run.cal /\ run'.eva = run.eva
        /\ Round(run.pc, after, Stop(run.pc))
    BY SMTT(60), <1>r, <2>3, <2>4, Rounding
  <2>6. Stop(run.pc) = IF run.pc = "validateCal" THEN run.cal ELSE Total
    BY DEF Stop, Total
  <2>7. CASE run.pc = "validateCal"
    <3>1. Round("validateCal", "validateUnlabeled", run.cal)
      BY <2>5, <2>6, <2>7 DEF after
    <3> QED
      BY <1>7, <2>5, <2>7, <3>1 DEF Steps
  <2>8. CASE run.pc # "validateCal"
    <3>1. Round(run.pc, "write", Total) /\ run.pc \in {"validateUnlabeled", "validateEva"}
      BY <2>1, <2>5, <2>6, <2>8 DEF after
    <3> QED
      BY <1>7, <2>5, <3>1 DEF Steps
  <2> QED
    BY <2>7, <2>8
<1>8. CASE VerifySource
  BY <1>8, Entering DEF VerifySource, Steps
<1>9. CASE OpenSource
  <2>1. \/ run.pc = "openLabel" /\ run' = Enter("label")
        \/ run.pc = "openFp32" /\ run' = Enter("runFp32")
        \/ run.pc = "prepare" /\ run' = Enter("calibrate")
    BY <1>9 DEF OpenSource
  <2> QED
    BY <1>9, <2>1, Entering DEF Steps, First
<1>10. CASE LabelSample
  <2>1. run.pc = "label" /\ NextSample("label", "dataset")
    BY <1>10 DEF LabelSample
  <2>2. run.k \in Evaluation
    BY <2>1 DEF Position
  <2>3. run.k + 1 \in Images
    BY <2>1, <2>2, <1>m DEF Images, Evaluation
  <2> QED
    <3>1. "dataset" \in Active /\ "write" \in Active /\ "draw" \in Active /\ run.pc \in Active
      BY <2>1
    <3>2. /\ run' \in Run /\ run'.attempt = run.attempt
          /\ run'.n = run.n /\ run'.d = run.d
          /\ run'.cal = run.cal /\ run'.eva = run.eva
          /\ Round("label", "dataset", Stop(run.pc))
      BY <1>r, <2>1, <2>3, <3>1, Rounding
    <3>3. Stop(run.pc) = Total
      BY <2>1 DEF Stop, Total
    <3> QED
      BY <1>10, <2>1, <3>2, <3>3 DEF Steps
<1>11. CASE RequireNoOverlap
  BY <1>11, Entering DEF RequireNoOverlap, Steps
<1>12. CASE GetNext
  <2>1. run.pc = "calibrate" /\ run.k < run.cal /\ run' = [run EXCEPT !.k = @ + 1]
    BY <1>12 DEF GetNext
  <2>2. run.k + 1 \in Images
    BY <2>1, <1>m DEF Position, Images
  <2> QED
    BY <1>12, <2>1, <2>2 DEF Steps, Run
<1>13. CASE Rewind
  <2>1. /\ run.pc = "calibrate" /\ run.pass < Passes
        /\ run' = [run EXCEPT !.pass = @ + 1, !.k = 0]
    BY <1>13 DEF Rewind
  <2>2. run.pass + 1 \in 1..Passes /\ 0 \in Images
    BY <2>1, PilotAssumption DEF PilotAssumption, Run, Images
  <2>3. /\ run' \in Run /\ run'.pc = run.pc /\ run'.n = run.n /\ run'.d = run.d
        /\ run'.cal = run.cal /\ run'.eva = run.eva /\ run'.k = 0
        /\ run'.attempt = run.attempt
    BY <2>1, <2>2 DEF Run
  <2> QED
    BY <1>13, <2>1, <2>3 DEF Steps
<1>14. CASE EndCalibration
  BY <1>14, Entering DEF EndCalibration, Steps
<1>15. CASE PublishModel
  <2>1. run.pc = "publish" /\ (run' = Enter("write") \/ Stopped("failed"))
    BY <1>15 DEF PublishModel
  <2> QED
    BY <1>15, <1>s, <2>1, Entering DEF Steps
<1>16. CASE VerifyInt8
  BY <1>16, Entering DEF VerifyInt8, Steps
<1>17. CASE OpenInt8
  BY <1>17, Entering DEF OpenInt8, Steps, First
<1>18. CASE RunSample
  <2>1. run.pc \in {"runFp32", "runInt8"} /\ NextSample(run.pc, "write")
    BY <1>18 DEF RunSample
  <2>2. run.k \in Evaluation
    BY <2>1 DEF Position
  <2>3. run.k + 1 \in Images
    BY <2>1, <2>2, <1>m DEF Images, Evaluation
  <2> QED
    <3>1. "dataset" \in Active /\ "write" \in Active /\ "draw" \in Active /\ run.pc \in Active
      BY <2>1
    <3>2. /\ run' \in Run /\ run'.attempt = run.attempt
          /\ run'.n = run.n /\ run'.d = run.d
          /\ run'.cal = run.cal /\ run'.eva = run.eva
          /\ Round(run.pc, "write", Stop(run.pc))
      BY <1>r, <2>1, <2>3, <3>1, Rounding
    <3>3. Stop(run.pc) = Total
      BY <2>1 DEF Stop, Total
    <3> QED
      BY <1>18, <2>1, <3>2, <3>3 DEF Steps
<1>19. CASE CompareEvaluations
  BY <1>19, Entering DEF CompareEvaluations, Steps
<1> QED
  BY <1>1, <1>2, <1>3, <1>4, <1>5, <1>6, <1>7, <1>8, <1>9, <1>10, <1>11, <1>12,
     <1>13, <1>14, <1>15, <1>16, <1>17, <1>18, <1>19 DEF Stage

LEMMA PositionKept ==
    ASSUME Placed, Stage
    PROVE  Position'
<1>r. run \in Run /\ Position /\ Steps
  BY Moves DEF Placed, TypeOK
<1>a. run.pc \in Active => run.cal \in Nat \ {0} /\ run.eva \in Nat \ {0}
  BY Sizes DEF Placed
<1>k. run.k \in Nat /\ run.n \in 0..17 /\ run.d \in 0..5
  BY <1>r, PilotAssumption DEF Run, Images, PilotAssumption
<1> QED
  BY <1>r, <1>a, <1>k DEF Steps, Position, Round, Total, First, Active, Over,
     AfterRecord, AfterDatasetFile, Samples, Calibration, Evaluation

-----------------------------------------------------------------------------
(* What a stage leaves alone                                               *)

LEMMA Frames ==
    ASSUME Stage
    PROVE  /\ UNCHANGED <<source, meddling>>
           /\ UNCHANGED image \/ DrawImage
           /\ UNCHANGED int8 \/ PublishModel
           /\ UNCHANGED disk \/ CreateOutput \/ WriteRecord \/ WriteDatasetFile
           /\ \/ UNCHANGED <<data, answer>>
              \/ (WriteRecord \/ WriteDatasetFile \/ PublishModel) /\ Stopped("failed")
              \/ DigestImage \/ OpenSource \/ LabelSample \/ GetNext \/ Rewind
              \/ PublishModel \/ OpenInt8 \/ RunSample \/ CompareEvaluations
           /\ \/ UNCHANGED answer
              \/ (WriteRecord \/ WriteDatasetFile \/ PublishModel) /\ Stopped("failed")
              \/ LabelSample \/ RunSample
<1> USE DEF World, Control
<1>1. CASE CreateOutput
  BY <1>1 DEF CreateOutput
<1>2. CASE InspectSource
  BY <1>2 DEF InspectSource
<1>3. CASE WriteRecord
  BY <1>3 DEF WriteRecord
<1>4. CASE DrawImage
  BY <1>4 DEF DrawImage
<1>5. CASE DigestImage
  BY <1>5 DEF DigestImage
<1>6. CASE WriteDatasetFile
  BY <1>6 DEF WriteDatasetFile
<1>7. CASE ValidateSample
  BY <1>7 DEF ValidateSample
<1>8. CASE VerifySource
  BY <1>8 DEF VerifySource
<1>9. CASE OpenSource
  BY <1>9 DEF OpenSource
<1>10. CASE LabelSample
  BY <1>10 DEF LabelSample
<1>11. CASE RequireNoOverlap
  BY <1>11 DEF RequireNoOverlap
<1>12. CASE GetNext
  BY <1>12 DEF GetNext
<1>13. CASE Rewind
  BY <1>13 DEF Rewind
<1>14. CASE EndCalibration
  BY <1>14 DEF EndCalibration
<1>15. CASE PublishModel
  BY <1>15 DEF PublishModel
<1>16. CASE VerifyInt8
  BY <1>16 DEF VerifyInt8
<1>17. CASE OpenInt8
  BY <1>17 DEF OpenInt8
<1>18. CASE RunSample
  BY <1>18 DEF RunSample
<1>19. CASE CompareEvaluations
  BY <1>19 DEF CompareEvaluations
<1> QED
  BY <1>1, <1>2, <1>3, <1>4, <1>5, <1>6, <1>7, <1>8, <1>9, <1>10, <1>11, <1>12, <1>13, <1>14, <1>15, <1>16, <1>17, <1>18, <1>19 DEF Stage

LEMMA PlacedStage ==
    ASSUME Placed, Stage
    PROVE  Placed'
<1>1. run' \in Run /\ Position'
  BY Moves, PositionKept
<1>2. source' = source /\ meddling' = meddling
  BY Frames
<1>3. Period \in Nat \ {0} /\ None \notin Nat /\ None # <<>>
  BY PilotAssumption DEF PilotAssumption
<1>t. run \in Run /\ Position /\ data \in Data
  BY DEF Placed, TypeOK
<1>a. run.pc \in Active => /\ Samples \subseteq Images /\ Calibration \subseteq Samples
                          /\ Evaluation \subseteq Samples
  BY Sizes DEF Placed
<1>4. image' \in [Images -> Contents \cup {None}]
  <2>1. CASE DrawImage
    <3>1. Pattern(run.k) \in Contents
      BY <1>3, <1>t DEF Pattern, Contents, Run, Images
    <3> QED
      BY <2>1, <3>1 DEF DrawImage, Placed, TypeOK
  <2> QED
    BY <2>1, Frames DEF Placed, TypeOK
<1>5. int8' \in {"none", "small", "large", "damaged"}
  BY Frames DEF PublishModel, Placed, TypeOK
<1>6. disk' \in [owner: 0..Attempts, dataset: SUBSET (1..5), records: SUBSET Records]
  <2>1. CASE CreateOutput
    <3>1. run.attempt \in 0..Attempts
      BY <1>t, PilotAssumption DEF Run, PilotAssumption
    <3>2. disk' = disk \/ disk' = [disk EXCEPT !.owner = run.attempt]
      BY <2>1 DEF CreateOutput
    <3> QED
      BY <3>1, <3>2 DEF Placed, TypeOK
  <2>2. CASE WriteRecord
    <3>1. run.n + 1 \in Records
      BY <2>2, <1>t DEF WriteRecord, At, Position, Records
    <3> QED
      BY <2>2, <3>1 DEF WriteRecord, Placed, TypeOK
  <2>3. CASE WriteDatasetFile
    <3>1. run.d + 1 \in 1..5
      BY <2>3, <1>t DEF WriteDatasetFile, At, Position
    <3> QED
      BY <2>3, <3>1 DEF WriteDatasetFile, Placed, TypeOK
  <2> QED
    BY <2>1, <2>2, <2>3, Frames DEF Placed, TypeOK
<1>7. answer' \in [{"fp32", "int8"} -> [Contents -> Rankings \cup {None}]]
  <2>1. ASSUME NEW c \in Contents, NEW o \in Answers(c), Remember(c, o)
        PROVE  answer' \in [{"fp32", "int8"} -> [Contents -> Rankings \cup {None}]]
    BY <2>1 DEF Answers, Remember, Placed, TypeOK
  <2>2. CASE LabelSample
    <3>1. run.k \in Images
      BY <1>t DEF Run
    <3>2. image[run.k] \in Contents
      BY <2>2, <3>1 DEF LabelSample, Placed, TypeOK
    <3> QED
      BY <2>1, <2>2, <3>2 DEF LabelSample
  <2>3. CASE RunSample
    <3>1. run.k \in Images
      BY <1>t DEF Run
    <3>2. image[run.k] \in Contents \cup {None}
      BY <3>1 DEF Placed, TypeOK
    <3>3. UNCHANGED answer \/ \E o \in Answers(image[run.k]) :
                                  image[run.k] # None /\ Remember(image[run.k], o)
      BY <2>3 DEF RunSample
    <3> QED
      BY <2>1, <3>2, <3>3 DEF Placed, TypeOK
  <2> QED
    BY <2>2, <2>3, Frames, Emptiness DEF Stopped, Placed, TypeOK
<1>8. data' \in Data
  <2>k. run.k \in Images /\ image[run.k] \in Contents \cup {None}
    BY <1>t DEF Run, Placed, TypeOK
  <2>s. source \in Models /\ "int8" \in Models /\ "damaged" \in Models
    BY DEF Placed, TypeOK, Models
  <2>o. ASSUME NEW c \in Contents, NEW o \in Answers(c)
        PROVE  o \in Rankings /\ o \in Seq(Nat) /\ o # <<>>
    <3>1. o \in Rankings
      BY DEF Answers, Placed, TypeOK
    <3> QED
      BY <3>1, PilotAssumption DEF PilotAssumption
  <2>1. CASE DigestImage
    BY <2>1, <1>t, <2>k DEF DigestImage, Data
  <2>2. CASE OpenSource
    BY <2>2, <1>t, <2>s DEF OpenSource, Data
  <2>3. CASE LabelSample
    <3>1. PICK o \in Answers(image[run.k]) :
            data' = [data EXCEPT !.label[run.k] = o[1], !.labelled[run.k] = image[run.k]]
      BY <2>3 DEF LabelSample
    <3>2. image[run.k] \in Contents
      BY <2>3, <2>k DEF LabelSample
    <3>3. o[1] \in Nat
      BY <2>o, <3>2
    <3> QED
      BY <3>1, <3>2, <3>3, <1>t, <2>k DEF Data
  <2>f. ASSUME NEW q \in Seq(Contents), data' = [data EXCEPT !.fed = q]
        PROVE  data' \in Data
    BY <2>f, <1>t DEF Data
  <2>4. CASE GetNext
    <3>1. image[run.k] \in Contents /\ data.fed \in Seq(Contents)
      BY <2>4, <2>k, <1>t DEF GetNext, Data
    <3>2. Append(data.fed, image[run.k]) \in Seq(Contents)
      BY <3>1
    <3>3. data' = [data EXCEPT !.fed = Append(@, image[run.k])]
      BY <2>4 DEF GetNext
    <3> QED
      BY <3>2, <3>3, <2>f
  <2>5. CASE Rewind
    <3>1. <<>> \in Seq(Contents)
      OBVIOUS
    <3> QED
      BY <2>5, <3>1, <2>f DEF Rewind
  <2>6. CASE PublishModel
    BY <2>6, <1>t, Emptiness DEF PublishModel, Stopped, Data
  <2>7. CASE OpenInt8
    BY <2>7, <1>t, <2>s DEF OpenInt8, Data
  <2>8. CASE RunSample
    <3>1. run.pc \in {"runFp32", "runInt8"}
      BY <2>8 DEF RunSample
    <3>2. PICK o \in Outcomes : data' = [data EXCEPT !.outcome[run.pc][run.k] = o]
      BY <2>8, <2>k, <2>o DEF RunSample, Outcomes
    <3> QED
      BY <3>1, <3>2, <1>t, <2>k DEF Data
  <2>9. CASE CompareEvaluations
    BY <2>9, <1>t DEF CompareEvaluations, Overall, Data
  <2> QED
    BY <2>1, <2>2, <2>3, <2>4, <2>5, <2>6, <2>7, <2>8, <2>9, <1>t, Frames, Emptiness
       DEF Stopped
<1> QED
  <2>1. TypeOK'
    BY <1>1, <1>2, <1>4, <1>5, <1>6, <1>7, <1>8 DEF Placed, TypeOK
  <2>2. Counted'
    BY <1>2 DEF Placed, Counted, Changed, Swaps
  <2> QED
    BY <1>1, <2>1, <2>2 DEF Placed

Others ==
    \/ \E i \in Images, c \in Contents \cup {None} : ChangeImage(i, c)
    \/ ChangeSource \/ DamageInt8

\* What others can do.
LEMMA Meddlings ==
    ASSUME Placed, Others
    PROVE  /\ UNCHANGED <<disk, run, data, answer>>
           /\ run.pc \in Active \cup {"start"} /\ run.n < 14
           /\ meddling.all \in 0..(MaxChanges - 1) /\ meddling'.all = meddling.all + 1
           /\ \/ /\ UNCHANGED <<source, int8>> /\ Swaps' = Swaps
                 /\ \E i \in Images, c \in Contents \cup {None} :
                       /\ image' = [image EXCEPT ![i] = c] /\ image[i] # None
                       /\ meddling' = [meddling EXCEPT !.all = @ + 1,
                            !.image[i] = IF data.digest[i] = None THEN @ ELSE @ + 1]
              \/ /\ UNCHANGED <<image, int8>>
                 /\ source' \in {"fp32", "other"}
                 /\ meddling' = [meddling EXCEPT !.all = @ + 1, !.source = @ + 1]
              \/ /\ UNCHANGED <<image, source>> /\ Swaps' = Swaps
                 /\ int8 # "none" /\ int8' = "damaged"
                 /\ meddling' = [meddling EXCEPT !.all = @ + 1]
<1>1. meddling \in [all: 0..MaxChanges, source: 0..MaxChanges, image: [Images -> 0..MaxChanges]]
      /\ MaxChanges \in Nat
  BY PilotAssumption DEF Placed, TypeOK, PilotAssumption
<1>2. ASSUME NEW i \in Images, NEW c \in Contents \cup {None}, ChangeImage(i, c)
      PROVE  /\ UNCHANGED <<source, int8, disk, run, data, answer>> /\ Swaps' = Swaps
             /\ meddling'.all = meddling.all + 1 /\ Meddled
             /\ image' = [image EXCEPT ![i] = c] /\ image[i] # None
             /\ meddling' = [meddling EXCEPT !.all = @ + 1,
                  !.image[i] = IF data.digest[i] = None THEN @ ELSE @ + 1]
  BY <1>1, <1>2 DEF ChangeImage, Swaps
<1>3. ASSUME ChangeSource
      PROVE  /\ UNCHANGED <<image, int8, disk, run, data, answer>>
             /\ meddling'.all = meddling.all + 1 /\ Meddled
             /\ source' \in {"fp32", "other"}
             /\ meddling' = [meddling EXCEPT !.all = @ + 1, !.source = @ + 1]
  BY <1>1, <1>3 DEF ChangeSource
<1>4. ASSUME DamageInt8
      PROVE  /\ UNCHANGED <<image, source, disk, run, data, answer>> /\ Swaps' = Swaps
             /\ meddling'.all = meddling.all + 1 /\ Meddled
             /\ int8 # "none" /\ int8' = "damaged"
             /\ meddling' = [meddling EXCEPT !.all = @ + 1]
  BY <1>1, <1>4 DEF DamageInt8, Swaps
<1>5. Meddled => /\ run.pc \in Active \cup {"start"} /\ run.n < 14
                 /\ meddling.all \in 0..(MaxChanges - 1)
  BY <1>1 DEF Meddled
<1> QED
  BY <1>2, <1>3, <1>4, <1>5 DEF Others

\* Who changes a file that a pilot relies on is counted.
LEMMA Counting ==
    ASSUME Placed, Others
    PROVE  /\ Swaps \in Nat /\ Swaps' \in Nat /\ Swaps' >= Swaps
           /\ source' # source => Swaps' = Swaps + 1
           /\ \A i \in Images :
                 /\ Changed(i) \in Nat /\ Changed(i)' \in Nat /\ Changed(i)' >= Changed(i)
                 /\ image'[i] # image[i] /\ data.digest[i] # None =>
                       Changed(i)' = Changed(i) + 1
           /\ meddling'.all # 0
<1>1. /\ meddling \in [all: 0..MaxChanges, source: 0..MaxChanges, image: [Images -> 0..MaxChanges]]
      /\ MaxChanges \in Nat /\ image \in [Images -> Contents \cup {None}]
  BY PilotAssumption DEF Placed, TypeOK, PilotAssumption
<1>2. meddling'.all # 0
  <2>1. meddling'.all = meddling.all + 1
    BY Meddlings
  <2>2. meddling.all \in 0..MaxChanges
    BY <1>1
  <2> QED
    BY <1>1, <2>1, <2>2
<1> DEFINE Goal == /\ Swaps \in Nat /\ Swaps' \in Nat /\ Swaps' >= Swaps
                   /\ source' # source => Swaps' = Swaps + 1
                   /\ \A i \in Images :
                         /\ Changed(i) \in Nat /\ Changed(i)' \in Nat
                         /\ Changed(i)' >= Changed(i)
                         /\ image'[i] # image[i] /\ data.digest[i] # None =>
                               Changed(i)' = Changed(i) + 1
<1>3. ASSUME NEW j \in Images, NEW c \in Contents \cup {None},
             UNCHANGED <<source, int8>>, Swaps' = Swaps, image' = [image EXCEPT ![j] = c],
             meddling' = [meddling EXCEPT !.all = @ + 1,
                  !.image[j] = IF data.digest[j] = None THEN @ ELSE @ + 1]
      PROVE  Goal
  <2>1. ASSUME NEW i \in Images
        PROVE  /\ Changed(i) \in Nat
               /\ Changed(i)' = IF i = j /\ data.digest[i] # None THEN Changed(i) + 1
                                ELSE Changed(i)
    BY <1>1, <1>3 DEF Changed
  <2>2. \A i \in Images : i # j => image'[i] = image[i]
    BY <1>1, <1>3
  <2>3. Swaps \in Nat /\ Swaps' = Swaps /\ source' = source
    BY <1>1, <1>3 DEF Swaps
  <2> QED
    BY <2>1, <2>2, <2>3
<1>4. ASSUME UNCHANGED image,
             meddling' = [meddling EXCEPT !.all = @ + 1, !.source = @ + 1]
      PROVE  Goal
  <2>1. Swaps \in Nat /\ Swaps' = Swaps + 1
    BY <1>1, <1>4 DEF Swaps
  <2>2. \A i \in Images : Changed(i) \in Nat /\ Changed(i)' = Changed(i)
    BY <1>1, <1>4 DEF Changed
  <2> QED
    BY <1>4, <2>1, <2>2
<1>5. ASSUME UNCHANGED <<image, source>>,
             meddling' = [meddling EXCEPT !.all = @ + 1]
      PROVE  Goal
  <2>1. Swaps \in Nat /\ Swaps' = Swaps
    BY <1>1, <1>5 DEF Swaps
  <2>2. \A i \in Images : Changed(i) \in Nat /\ Changed(i)' = Changed(i)
    BY <1>1, <1>5 DEF Changed
  <2> QED
    BY <1>5, <2>1, <2>2
<1>6. Goal
  <2> HIDE DEF Goal
  <2>1. CASE /\ UNCHANGED <<source, int8>> /\ Swaps' = Swaps
             /\ \E i \in Images, c \in Contents \cup {None} :
                   /\ image' = [image EXCEPT ![i] = c] /\ image[i] # None
                   /\ meddling' = [meddling EXCEPT !.all = @ + 1,
                        !.image[i] = IF data.digest[i] = None THEN @ ELSE @ + 1]
    BY <2>1, <1>3
  <2>2. CASE /\ UNCHANGED <<image, int8>>
             /\ meddling' = [meddling EXCEPT !.all = @ + 1, !.source = @ + 1]
    BY <2>2, <1>4
  <2>3. CASE /\ UNCHANGED <<image, source>>
             /\ meddling' = [meddling EXCEPT !.all = @ + 1]
    BY <2>3, <1>5
  <2> QED
    BY <2>1, <2>2, <2>3, Meddlings
<1> QED
  BY <1>2, <1>6

\* Where a pilot is when another one starts, or when it fails.
LEMMA Restarts ==
    ASSUME Placed, Fail \/ StartAgain
    PROVE  /\ UNCHANGED <<image, source, int8, meddling, disk>>
           /\ run' \in Run /\ run'.pc \in {"failed", "start"} /\ run'.n = 0 /\ run'.d = 0
           /\ data' = NoData /\ answer' = NoAnswers
<1>1. CASE Fail
  BY <1>1, Stopping DEF Fail, World, Placed
<1>2. CASE StartAgain
  <2>1. run.attempt + 1 \in 1..Attempts
    BY <1>2, PilotAssumption DEF PilotAssumption, StartAgain, Placed, TypeOK, Run
  <2> QED
    BY <1>2, <2>1, Freshness DEF StartAgain, World
<1> QED
  BY <1>1, <1>2

LEMMA InitPlaced == Init => Placed
<1> SUFFICES ASSUME Init PROVE Placed
  OBVIOUS
<1>1. Period \in Nat /\ Attempts \in Nat \ {0} /\ MaxChanges \in Nat
  BY PilotAssumption DEF PilotAssumption
<1>2. run \in Run /\ run.pc = "start" /\ run.n = 0 /\ run.d = 0
  <2>1. 1 \in 1..Attempts
    BY <1>1
  <2> QED
    BY <2>1, Freshness DEF Init
<1>3. TypeOK
  <2>1. /\ disk \in [owner: 0..Attempts, dataset: SUBSET (1..5), records: SUBSET Records]
        /\ meddling \in [all: 0..MaxChanges, source: 0..MaxChanges,
                         image: [Images -> 0..MaxChanges]]
    BY <1>1 DEF Init
  <2>2. image \in [Images -> Contents \cup {None}]
    BY DEF Init
  <2>3. int8 = "none" /\ source \in {"fp32", "other"} /\ data = NoData /\ answer = NoAnswers
    BY DEF Init
  <2> QED
    BY <1>2, <2>1, <2>2, <2>3, Emptiness DEF TypeOK
<1>4. Position
  BY <1>2 DEF Position, Active
<1>5. Counted
  BY <1>1 DEF Init, Counted, Swaps, Changed
<1> QED
  BY <1>3, <1>4, <1>5 DEF Placed

LEMMA PlacedNext ==
    ASSUME Placed, [Next]_vars
    PROVE  Placed'
<1>1. CASE Stage
  BY <1>1, PlacedStage
<1>2. CASE Fail \/ StartAgain
  <2>1. TypeOK'
    BY <1>2, Restarts, Emptiness DEF Placed, TypeOK
  <2>2. Position'
    BY <1>2, Restarts DEF Position, Active
  <2>3. Counted'
    BY <1>2, Restarts DEF Placed, Counted, Changed, Swaps
  <2> QED
    BY <2>1, <2>2, <2>3 DEF Placed
<1>3. CASE Others
  <2>1. /\ image \in [Images -> Contents \cup {None}] /\ MaxChanges \in Nat
        /\ meddling \in [all: 0..MaxChanges, source: 0..MaxChanges,
                         image: [Images -> 0..MaxChanges]]
        /\ \A i \in Images : meddling.image[i] <= meddling.all
        /\ meddling.source <= meddling.all
    BY PilotAssumption DEF PilotAssumption, Placed, TypeOK, Counted, Swaps, Changed
  <2>2. /\ UNCHANGED <<disk, run, data, answer>>
        /\ meddling.all \in 0..(MaxChanges - 1) /\ meddling'.all = meddling.all + 1
    BY <1>3, Meddlings
  <2>3. TypeOK' /\ Counted'
    <3>1. ASSUME NEW i \in Images, NEW c \in Contents \cup {None},
                 UNCHANGED <<source, int8>>, image' = [image EXCEPT ![i] = c],
                 meddling' = [meddling EXCEPT !.all = @ + 1,
                      !.image[i] = IF data.digest[i] = None THEN @ ELSE @ + 1]
          PROVE  TypeOK' /\ Counted'
      <4>1. image' \in [Images -> Contents \cup {None}]
        BY <2>1, <3>1
      <4>2. meddling' \in [all: 0..MaxChanges, source: 0..MaxChanges,
                           image: [Images -> 0..MaxChanges]]
        <5>1. /\ meddling.all + 1 \in 0..MaxChanges
              /\ \A j \in Images : meddling.image[j] + 1 \in 0..MaxChanges
          BY <2>1, <2>2
        <5> QED
          BY <2>1, <3>1, <5>1
      <4>3. Counted'
        BY <2>1, <2>2, <3>1 DEF Counted, Swaps, Changed
      <4> QED
        BY <2>2, <3>1, <4>1, <4>2, <4>3 DEF Placed, TypeOK
    <3>2. ASSUME UNCHANGED <<image, int8>>, source' \in {"fp32", "other"},
                 meddling' = [meddling EXCEPT !.all = @ + 1, !.source = @ + 1]
          PROVE  TypeOK' /\ Counted'
      <4>1. meddling' \in [all: 0..MaxChanges, source: 0..MaxChanges,
                           image: [Images -> 0..MaxChanges]]
        <5>1. meddling.all + 1 \in 0..MaxChanges /\ meddling.source + 1 \in 0..MaxChanges
          BY <2>1, <2>2
        <5> QED
          BY <2>1, <3>2, <5>1
      <4>2. Counted'
        BY <2>1, <2>2, <3>2 DEF Counted, Swaps, Changed
      <4> QED
        BY <2>2, <3>2, <4>1, <4>2 DEF Placed, TypeOK
    <3>3. ASSUME UNCHANGED <<image, source>>, int8' = "damaged",
                 meddling' = [meddling EXCEPT !.all = @ + 1]
          PROVE  TypeOK' /\ Counted'
      <4>1. meddling' \in [all: 0..MaxChanges, source: 0..MaxChanges,
                           image: [Images -> 0..MaxChanges]]
        BY <2>1, <2>2, <3>3
      <4>2. Counted'
        BY <2>1, <2>2, <3>3 DEF Counted, Swaps, Changed
      <4> QED
        BY <2>2, <3>3, <4>1, <4>2 DEF Placed, TypeOK
    <3> QED
      BY <1>3, <3>1, <3>2, <3>3, Meddlings
  <2>4. Position'
    BY <2>2 DEF Placed, Position, Samples, Calibration, Evaluation
  <2> QED
    BY <2>3, <2>4 DEF Placed
<1>4. CASE UNCHANGED vars
  BY <1>4 DEF vars, Placed, TypeOK, Counted, Swaps, Changed, Position, Samples, Calibration, Evaluation
<1> QED
  BY <1>1, <1>2, <1>3, <1>4 DEF Next, Others

-----------------------------------------------------------------------------
(* What is behind a pilot changes only with the stage that does it         *)

LEMMA Growth ==
    ASSUME Placed, Stage
    PROVE  /\ Drawn' => Drawn \/ DigestImage
           /\ Opened' => Opened \/ (OpenSource /\ run.pc = "openLabel")
           /\ Separate' => Separate \/ RequireNoOverlap
           /\ SourceVerified' => SourceVerified \/ (VerifySource /\ run.pc = "verifySource")
           /\ Prepared' => Prepared \/ (OpenSource /\ run.pc = "prepare")
           /\ Calibrated' => Calibrated \/ EndCalibration
           /\ Published' => Published \/ (PublishModel /\ run'.pc = "write")
           /\ Fp32Verified' => Fp32Verified \/ (VerifySource /\ run.pc = "verifyFp32")
           /\ Compared' => Compared \/ CompareEvaluations
<1>r. run \in Run /\ Position /\ Steps /\ run' \in Run
  BY Moves DEF Placed, TypeOK
<1>k. run.k \in Nat /\ run.n \in 0..17 /\ run.d \in 0..5
  BY <1>r, PilotAssumption DEF Run, Images, PilotAssumption
<1> USE <1>r, <1>k DEF Steps, Position, Round, Past, AfterRecord, AfterDatasetFile
<1>1. Drawn' => Drawn \/ DigestImage
  BY DEF Drawn
<1>2. Opened' => Opened \/ (OpenSource /\ run.pc = "openLabel")
  BY DEF Opened
<1>3. Separate' => Separate \/ RequireNoOverlap
  BY DEF Separate
<1>4. SourceVerified' => SourceVerified \/ (VerifySource /\ run.pc = "verifySource")
  BY DEF SourceVerified
<1>5. Prepared' => Prepared \/ (OpenSource /\ run.pc = "prepare")
  BY DEF Prepared
<1>6. Calibrated' => Calibrated \/ EndCalibration
  BY DEF Calibrated
<1>7. Published' => Published \/ (PublishModel /\ run'.pc = "write")
  BY DEF Published
<1>8. Fp32Verified' => Fp32Verified \/ (VerifySource /\ run.pc = "verifyFp32")
  BY DEF Fp32Verified
<1>9. Compared' => Compared \/ CompareEvaluations
  BY DEF Compared
<1> QED
  BY <1>1, <1>2, <1>3, <1>4, <1>5, <1>6, <1>7, <1>8, <1>9

\* The samples that are done, likewise; those of a loop one by one.
LEMMA DoneGrowth ==
    ASSUME Placed, Stage
    PROVE  /\ \A i \in Done("label", Labelled)' :
                 i \in Done("label", Labelled) \/ (LabelSample /\ i = run.k)
           /\ \A i \in Done("validateEva", Revalidated)' :
                 \/ i \in Done("validateEva", Revalidated)
                 \/ ValidateSample /\ run.pc = "validateEva" /\ i = run.k
           /\ \A i \in Done("runFp32", Fp32Done)' :
                 \/ i \in Done("runFp32", Fp32Done)
                 \/ RunSample /\ run.pc = "runFp32" /\ i = run.k
           /\ \A i \in Done("runInt8", Int8Done)' :
                 \/ i \in Done("runInt8", Int8Done)
                 \/ RunSample /\ run.pc = "runInt8" /\ i = run.k
<1>r. run \in Run /\ Position /\ Steps /\ run' \in Run
  BY Moves DEF Placed, TypeOK
<1>a. run.pc \in Active => run.cal \in Nat \ {0} /\ run.eva \in Nat \ {0}
  BY Sizes DEF Placed
<1>k. run.k \in Nat /\ run.n \in 0..17 /\ run.d \in 0..5
  BY <1>r, PilotAssumption DEF Run, Images, PilotAssumption
<1> USE <1>r, <1>a, <1>k DEF Steps, Position, Round, Past, AfterRecord, AfterDatasetFile,
        Done, Evaluation, Total, First, Active
<1>1. \A i \in Done("label", Labelled)' :
        i \in Done("label", Labelled) \/ (LabelSample /\ i = run.k)
  BY DEF Labelled
<1>2. \A i \in Done("validateEva", Revalidated)' :
        \/ i \in Done("validateEva", Revalidated)
        \/ ValidateSample /\ run.pc = "validateEva" /\ i = run.k
  BY DEF Revalidated
<1>3. \A i \in Done("runFp32", Fp32Done)' :
        \/ i \in Done("runFp32", Fp32Done)
        \/ RunSample /\ run.pc = "runFp32" /\ i = run.k
  BY DEF Fp32Done
<1>4. \A i \in Done("runInt8", Int8Done)' :
        \/ i \in Done("runInt8", Int8Done)
        \/ RunSample /\ run.pc = "runInt8" /\ i = run.k
  BY DEF Int8Done
<1> QED
  BY <1>1, <1>2, <1>3, <1>4

-----------------------------------------------------------------------------
(* What is on disk                                                         *)

LEMMA Int8Kept ==
    ASSUME Placed, Kept, Stage
    PROVE  /\ int8 # "none" => int8' # "none"
           /\ Published' => int8' # "none"
<1>1. int8 # "none" => int8' # "none"
  BY Frames DEF PublishModel
<1>2. PublishModel => int8' # "none"
  BY DEF PublishModel
<1> QED
  BY <1>1, <1>2, Growth DEF Kept

LEMMA KeptStage ==
    ASSUME Placed, Kept, Stage
    PROVE  Kept'
<1>r. run \in Run /\ Position /\ Steps /\ run' \in Run
  BY Moves DEF Placed, TypeOK
<1>d. disk \in [owner: 0..Attempts, dataset: SUBSET (1..5), records: SUBSET Records]
  BY DEF Placed, TypeOK
<1>n. run.n \in 0..17 /\ run.d \in 0..5 /\ run.attempt \in 1..Attempts /\ Attempts \in Nat
  BY <1>r, PilotAssumption DEF Run, PilotAssumption
<1>1. CASE WriteRecord
  <2>1. run.pc = "write" /\ disk' = [disk EXCEPT !.records = @ \cup {run.n + 1}]
    BY <1>1 DEF WriteRecord, At
  <2>r. \/ run'.pc \in {"failed", "refused", "uncreated"}
        \/ run'.n = run.n + 1 /\ run'.d = run.d /\ run'.attempt = run.attempt
    BY <2>1, <1>r DEF Steps
  <2>2. disk = [owner |-> run.attempt, dataset |-> 1..run.d, records |-> 1..run.n]
    BY <2>1 DEF Kept, Active
  <2>3. disk' = [owner |-> run.attempt, dataset |-> 1..run.d, records |-> 1..(run.n + 1)]
    <3>1. 1..run.n \cup {run.n + 1} = 1..(run.n + 1)
      BY <1>n
    <3> QED
      BY <2>1, <2>2, <3>1
  <2>4. run.n + 1 >= 4 => run.d >= 3
    BY <2>1, <1>r DEF Position
  <2>5. run.n + 1 >= 8 => run.d = 5
    BY <2>1, <1>r DEF Position
  <2>6. run.n + 1 >= 12 => int8' # "none"
    <3>1. run.n + 1 >= 12 => Published
      BY <2>1, <1>n DEF Published, Past
    <3>2. Published => int8 # "none"
      BY DEF Kept
    <3> QED
      BY <3>1, <3>2, Int8Kept
  <2>7. PrefixOnDisk'
    <3> SUFFICES ASSUME NEW j \in 1..(run.n + 1)
                 PROVE  /\ 1..(j - 1) \subseteq 1..(run.n + 1)
                        /\ j >= 4 => 1..3 \subseteq 1..run.d
                        /\ j >= 8 => 1..run.d = 1..5
                        /\ j >= 12 => int8' # "none"
      BY <2>3 DEF PrefixOnDisk
    <3>1. j \in Nat /\ j <= run.n + 1 /\ 1..(j - 1) \subseteq 1..(run.n + 1)
      BY <1>n
    <3>2. j >= 4 => 1..3 \subseteq 1..run.d
      BY <3>1, <2>4, <1>n
    <3>3. j >= 8 => 1..run.d = 1..5
      BY <3>1, <2>5, <1>n
    <3>4. j >= 12 => int8' # "none"
      BY <3>1, <2>6, <1>n
    <3> QED
      BY <3>1, <3>2, <3>3, <3>4
  <2>8. disk'.owner # 0
    BY <2>3, <1>n
  <2>9. run'.pc \in Active \cup {"completed"} =>
          disk' = [owner |-> run'.attempt, dataset |-> 1..run'.d, records |-> 1..run'.n]
    BY <2>r, <2>3 DEF Active
  <2> QED
    BY <2>7, <2>8, <2>9, Int8Kept DEF Kept
<1>2. CASE WriteDatasetFile
  <2>1. run.pc = "dataset" /\ disk' = [disk EXCEPT !.dataset = @ \cup {run.d + 1}]
    BY <1>2 DEF WriteDatasetFile, At
  <2>r. \/ run'.pc \in {"failed", "refused", "uncreated"}
        \/ run'.d = run.d + 1 /\ run'.n = run.n /\ run'.attempt = run.attempt
    BY <2>1, <1>r DEF Steps
  <2>2. disk = [owner |-> run.attempt, dataset |-> 1..run.d, records |-> 1..run.n]
    BY <2>1 DEF Kept, Active
  <2>3. disk' = [owner |-> run.attempt, dataset |-> 1..(run.d + 1), records |-> 1..run.n]
    <3>1. 1..run.d \cup {run.d + 1} = 1..(run.d + 1)
      BY <1>n
    <3> QED
      BY <2>1, <2>2, <3>1
  <2>4. \/ run.n = 3 /\ run.d \in 0..2
        \/ run.n = 7 /\ run.d \in 3..4
    BY <2>1, <1>r DEF Position
  <2>5. PrefixOnDisk'
    BY <2>3, <2>4, <1>n DEF PrefixOnDisk
  <2>6. disk'.owner # 0
    BY <2>3, <1>n
  <2>7. run'.pc \in Active \cup {"completed"} =>
          disk' = [owner |-> run'.attempt, dataset |-> 1..run'.d, records |-> 1..run'.n]
    BY <2>r, <2>3 DEF Active
  <2> QED
    BY <2>5, <2>6, <2>7, Int8Kept DEF Kept
<1>3. CASE CreateOutput
  <2>1. UNCHANGED int8
    BY <1>3 DEF CreateOutput, World
  <2>2. \/ UNCHANGED disk /\ run'.pc \notin Active \cup {"completed"}
        \/ /\ disk.owner = 0 /\ disk' = [disk EXCEPT !.owner = run.attempt]
           /\ run'.pc \in Active \cup {"completed"} =>
                 run'.n = 0 /\ run'.d = 0 /\ run'.attempt = run.attempt
    <3>1. run.pc = "start"
      BY <1>3 DEF CreateOutput, At
    <3>2. \/ run'.pc \in {"failed", "refused", "uncreated"}
          \/ run'.n = 0 /\ run'.d = 0 /\ run'.attempt = run.attempt
      BY <3>1, <1>r DEF Steps
    <3>3. \/ UNCHANGED disk /\ (run' = Enter("refused") \/ run' = Enter("uncreated"))
          \/ disk.owner = 0 /\ disk' = [disk EXCEPT !.owner = run.attempt]
      BY <1>3 DEF CreateOutput, Goto
    <3> QED
      BY <3>2, <3>3, <1>r, Entering DEF Active, Over
  <2>3. CASE UNCHANGED disk /\ run'.pc \notin Active \cup {"completed"}
    BY <2>1, <2>3, Int8Kept DEF Kept, PrefixOnDisk
  <2>4. CASE /\ disk.owner = 0 /\ disk' = [disk EXCEPT !.owner = run.attempt]
             /\ run'.pc \in Active \cup {"completed"} =>
                    run'.n = 0 /\ run'.d = 0 /\ run'.attempt = run.attempt
    <3>1. disk.records = {} /\ disk.dataset = {}
      BY <2>4 DEF Kept
    <3>2. disk' = [owner |-> run.attempt, dataset |-> {}, records |-> {}]
      BY <2>4, <3>1, <1>d
    <3>3. 1..0 = {}
      OBVIOUS
    <3> QED
      BY <2>4, <3>2, <3>3, <1>n, Int8Kept DEF Kept, PrefixOnDisk
  <2> QED
    BY <2>2, <2>3, <2>4
<1>4. CASE ~ WriteRecord /\ ~ WriteDatasetFile /\ ~ CreateOutput
  <2>1. UNCHANGED disk
    BY <1>4, Frames
  <2>2. run'.pc \in Active \cup {"completed"} =>
          /\ run.pc \in Active
          /\ run'.n = run.n /\ run'.d = run.d /\ run'.attempt = run.attempt
    BY <1>4, <1>r DEF Steps, Active
  <2>3. PrefixOnDisk'
    BY <2>1, Int8Kept DEF Kept, PrefixOnDisk
  <2> QED
    BY <2>1, <2>2, <2>3, Int8Kept DEF Kept
<1> QED
  BY <1>1, <1>2, <1>3, <1>4

LEMMA KeptNext ==
    ASSUME Placed, Kept, [Next]_vars
    PROVE  Kept'
<1>1. CASE Stage
  BY <1>1, KeptStage
<1>2. CASE Fail \/ StartAgain
  BY <1>2, Restarts DEF Kept, PrefixOnDisk, Active, Published, Past
<1>3. CASE Others
  <2>1. UNCHANGED <<disk, run>> /\ (int8 # "none" => int8' # "none")
    BY <1>3, Meddlings
  <2> QED
    BY <2>1 DEF Kept, PrefixOnDisk, Published, Past
<1>4. CASE UNCHANGED vars
  BY <1>4 DEF vars, Kept, PrefixOnDisk, Published, Past
<1> QED
  BY <1>1, <1>2, <1>3, <1>4 DEF Next, Others

-----------------------------------------------------------------------------
(* The digests of the images                                               *)

LEMMA DigestedStage ==
    ASSUME Placed, Digested, Stage
    PROVE  Digested'
<1>r. run \in Run /\ Position /\ Steps /\ run' \in Run
  BY Moves DEF Placed, TypeOK
<1>a. run.pc \in Active => /\ run.cal \in Nat \ {0} /\ run.eva \in Nat \ {0}
                          /\ Samples \subseteq Images
  BY Sizes DEF Placed
<1>k. run.k \in Nat /\ run.n \in 0..17 /\ run.d \in 0..5 /\ run.k \in Images
  BY <1>r, PilotAssumption DEF Run, Images, PilotAssumption
<1>t. data \in Data /\ image \in [Images -> Contents \cup {None}]
  BY DEF Placed, TypeOK
<1>m. UNCHANGED meddling
  BY Frames
<1>1. CASE DigestImage
  <2>1. /\ run.pc = "digest" /\ image[run.k] # None /\ UNCHANGED image
        /\ data' = [data EXCEPT !.digest[run.k] = image[run.k]]
    BY <1>1 DEF DigestImage, At, World
  <2>2. /\ data'.digest[run.k] = image[run.k]
        /\ \A i \in Images \ {run.k} : data'.digest[i] = data.digest[i]
    BY <2>1, <1>t, <1>k DEF Data
  <2>3. \A i \in Images : Changed(i)' = 0 /\ data'.digest[i] # None => image'[i] = data'.digest[i]
    BY <2>1, <2>2, <1>m DEF Digested, Changed
  <2>4. run.k \in Samples /\ run.n = 3
    BY <2>1, <1>r DEF Position
  <2>5. \A i \in 0..run.k : data'.digest[i] # None
    <3>1. 0..run.k \subseteq Images
      BY <2>1, <2>4, <1>a, <1>k DEF Active, Samples
    <3>2. \A i \in 0..(run.k - 1) : data.digest[i] # None
      BY <2>1 DEF Digested
    <3> QED
      BY <2>1, <2>2, <3>1, <3>2, <1>k
  <2>6. \/ run'.pc \in {"failed", "refused", "uncreated"} /\ run'.n = 0
        \/ /\ run'.n = 3 /\ run'.cal = run.cal /\ run'.eva = run.eva
           /\ Round("draw", "dataset", Total)
    BY <2>1, <2>4, <1>1, <1>r DEF Steps
  <2>7. run'.pc \in {"draw", "digest"} => \A i \in 0..(run'.k - 1) : data'.digest[i] # None
    BY <2>5, <2>6, <1>k DEF Round
  <2>8. Drawn' => Samples' = 0..run.k
    BY <2>1, <2>6, <1>a, <1>k DEF Drawn, Past, Round, Total, Samples, Active
  <2> QED
    BY <2>3, <2>5, <2>7, <2>8 DEF Digested
<1>2. CASE DrawImage
  <2>1. /\ run.pc = "draw" /\ image[run.k] = None /\ UNCHANGED data
        /\ image' = [image EXCEPT ![run.k] = Pattern(run.k)]
        /\ run'.pc = "digest" /\ run'.k = run.k /\ run'.n = run.n
    BY <1>2 DEF DrawImage, At
  <2>2. \A i \in Images : Changed(i) = 0 /\ data.digest[i] # None => image[i] = data.digest[i]
    BY DEF Digested
  <2>3. \A i \in 0..(run.k - 1) : data.digest[i] # None
    BY <2>1 DEF Digested
  <2>4. run.n = 3
    BY <2>1, <1>r DEF Position
  <2>5. ~ Drawn'
    BY <2>1, <2>4 DEF Drawn, Past
  <2>6. \A i \in Images : Changed(i)' = 0 /\ data'.digest[i] # None => image'[i] = data'.digest[i]
    BY <2>1, <2>2, <1>m, <1>t, <1>k DEF Changed
  <2> QED
    BY <2>1, <2>3, <2>5, <2>6 DEF Digested
<1>3. CASE ~ DigestImage /\ ~ DrawImage
  <2>1. UNCHANGED image /\ (Drawn' => Drawn)
    BY <1>3, Frames, Growth
  <2>2. data'.digest = data.digest \/ (Stopped("failed") /\ data' = NoData /\ run'.pc = "failed" /\ run'.n = 0)
    <3>1. Stopped("failed") => data' = NoData /\ run'.pc = "failed" /\ run'.n = 0
      BY Stopping DEF Placed
    <3> QED
      BY <1>3, <1>t, <3>1, Frames DEF Data, OpenSource, LabelSample, GetNext, Rewind,
         PublishModel, OpenInt8, RunSample, CompareEvaluations
  <2>3. CASE data'.digest = data.digest
    <3>1. Drawn' => Samples' = Samples
      <4>1. Drawn' => run'.cal = run.cal /\ run'.eva = run.eva
        BY <1>r DEF Drawn, Past, Steps
      <4> QED
        BY <4>1 DEF Samples
    <3>2. run'.pc \in {"draw", "digest"} => run'.k = 0
      BY <1>3, <1>r, <1>k DEF Steps, Round, AfterRecord, AfterDatasetFile, First, Position
    <3>3. 0..(0 - 1) = {}
      OBVIOUS
    <3> QED
      BY <2>1, <2>3, <3>1, <3>2, <3>3, <1>m DEF Digested, Changed
  <2>4. CASE data' = NoData /\ run'.pc = "failed" /\ run'.n = 0
    BY <2>4 DEF NoData, Digested, Drawn, Past
  <2> QED
    BY <2>2, <2>3, <2>4
<1> QED
  BY <1>1, <1>2, <1>3

LEMMA DigestedNext ==
    ASSUME Placed, Digested, [Next]_vars
    PROVE  Digested'
<1>1. CASE Stage
  BY <1>1, DigestedStage
<1>2. CASE Fail \/ StartAgain
  BY <1>2, Restarts DEF Digested, NoData, Drawn, Past
<1>3. CASE Others
  <2>1. UNCHANGED <<run, data>>
    BY <1>3, Meddlings
  <2>3. ASSUME NEW i \in Images, Changed(i)' = 0, data.digest[i] # None
        PROVE  Changed(i) = 0 /\ image'[i] = image[i]
    BY <1>3, <2>3, Counting
  <2> QED
    BY <2>1, <2>3 DEF Digested, Drawn, Past, Samples
<1>4. CASE UNCHANGED vars
  BY <1>4 DEF vars, Digested, Changed, Drawn, Past, Samples
<1> QED
  BY <1>1, <1>2, <1>3, <1>4 DEF Next, Others

-----------------------------------------------------------------------------
(* The source model                                                        *)

\* Which stage changes what the pilot holds.
LEMMA DataFrames ==
    ASSUME Placed, Stage
    PROVE  \/ run'.pc = "failed" /\ run'.n = 0 /\ data' = NoData
           \/ /\ data'.digest = data.digest \/ DigestImage
              /\ (data'.label = data.label /\ data'.labelled = data.labelled) \/ LabelSample
              /\ data'.session = data.session \/ OpenSource \/ OpenInt8
              /\ data'.labeller = data.labeller \/ (OpenSource /\ run.pc = "openLabel")
              /\ data'.base = data.base \/ (OpenSource /\ run.pc = "prepare")
              /\ data'.fed = data.fed \/ GetNext \/ Rewind
              /\ data'.small = data.small \/ PublishModel
              /\ data'.passed = data.passed \/ CompareEvaluations
              /\ data'.outcome = data.outcome \/ RunSample
<1>1. Stopped("failed") => data' = NoData /\ run'.pc = "failed" /\ run'.n = 0
  BY Stopping DEF Placed
<1>2. data \in Data
  BY DEF Placed, TypeOK
<1>3. CASE DigestImage
  BY <1>2, <1>3 DEF DigestImage, Data
<1>4. CASE OpenSource
  BY <1>2, <1>4 DEF OpenSource, Data, At
<1>5. CASE LabelSample
  BY <1>2, <1>5 DEF LabelSample, Data
<1>6. CASE GetNext
  BY <1>2, <1>6 DEF GetNext, Data
<1>7. CASE Rewind
  BY <1>2, <1>7 DEF Rewind, Data
<1>8. CASE PublishModel
  BY <1>1, <1>2, <1>8 DEF PublishModel, Data
<1>9. CASE OpenInt8
  BY <1>2, <1>9 DEF OpenInt8, Data
<1>10. CASE RunSample
  BY <1>2, <1>10 DEF RunSample, Data
<1>11. CASE CompareEvaluations
  BY <1>2, <1>11 DEF CompareEvaluations, Data
<1> QED
  BY <1>1, <1>3, <1>4, <1>5, <1>6, <1>7, <1>8, <1>9, <1>10, <1>11, Frames

LEMMA SourceStage ==
    ASSUME Placed, SourceKept, Stage
    PROVE  SourceKept'
<1>r. run \in Run /\ Position /\ Steps /\ run' \in Run
  BY Moves DEF Placed, TypeOK
<1>k. run.n \in 0..17
  BY <1>r DEF Run
<1>f. UNCHANGED source /\ Swaps' = Swaps
  BY Frames DEF Swaps
<1>1. run'.pc \in Active \ {"inspect"} /\ Swaps' = 0 => source' = "fp32"
  <2>1. run'.pc \in Active \ {"inspect"} =>
          run.pc \in Active \ {"inspect"} \/ InspectSource
    BY <1>r DEF Steps, Active
  <2> QED
    BY <2>1, <1>f DEF SourceKept, InspectSource
<1>2. ASSUME Swaps < 2, Opened'
      PROVE  data'.labeller \in {"fp32", source}
  <2>1. CASE OpenSource /\ run.pc = "openLabel"
    <3>1. data' = [data EXCEPT !.session = source, !.labeller = source]
      BY <2>1 DEF OpenSource, At
    <3> QED
      BY <3>1 DEF Placed, TypeOK, Data
  <2>2. CASE ~ (OpenSource /\ run.pc = "openLabel")
    <3>1. Opened /\ run'.n # 0
      BY <1>2, <2>2, <1>r, Growth DEF Opened, Past
    <3> QED
      BY <1>2, <2>2, <3>1, DataFrames DEF SourceKept
  <2> QED
    BY <2>1, <2>2
<1>3. ASSUME Swaps < 2, SourceVerified'
      PROVE  data'.labeller = "fp32"
  <2>1. data.labeller = "fp32"
    <3>1. CASE VerifySource /\ run.pc = "verifySource"
      <4>1. Opened
        BY <3>1, <1>r DEF Position, Opened, Past
      <4>2. source = "fp32"
        BY <3>1 DEF VerifySource
      <4> QED
        BY <1>3, <4>1, <4>2 DEF SourceKept
    <3>2. CASE SourceVerified
      BY <1>3, <3>2 DEF SourceKept
    <3> QED
      BY <1>3, <3>1, <3>2, Growth
  <2>2. run'.n >= 11
    BY <1>3, <1>r DEF SourceVerified, Past, Run
  <2>3. run.pc # "openLabel"
    <3>1. run.pc = "openLabel" => run'.n = run.n \/ run'.n = 0
      BY <1>r, <1>k DEF Steps
    <3> QED
      BY <2>2, <3>1, <1>r, <1>k DEF Position
  <2> QED
    BY <2>1, <2>2, <2>3, DataFrames
<1>4. ASSUME Swaps < 2, Prepared'
      PROVE  data'.base \in {"fp32", source}
  <2>1. CASE OpenSource /\ run.pc = "prepare"
    <3>1. data' = [data EXCEPT !.base = source]
      BY <2>1 DEF OpenSource, At
    <3> QED
      BY <3>1 DEF Placed, TypeOK, Data
  <2>2. CASE ~ (OpenSource /\ run.pc = "prepare")
    <3>1. Prepared /\ run'.n # 0
      BY <1>4, <2>2, <1>r, Growth DEF Prepared, Past
    <3> QED
      BY <1>4, <2>2, <3>1, DataFrames DEF SourceKept
  <2> QED
    BY <2>1, <2>2
<1>5. ASSUME Swaps < 2, Fp32Verified'
      PROVE  data'.base = "fp32"
  <2>1. data.base = "fp32"
    <3>1. CASE VerifySource /\ run.pc = "verifyFp32"
      <4>1. Prepared
        BY <3>1, <1>r DEF Position, Prepared, Past
      <4>2. source = "fp32"
        BY <3>1 DEF VerifySource
      <4> QED
        BY <1>5, <4>1, <4>2 DEF SourceKept
    <3>2. CASE Fp32Verified
      BY <1>5, <3>2 DEF SourceKept
    <3> QED
      BY <1>5, <3>1, <3>2, Growth
  <2>2. run'.n >= 12
    BY <1>5, <1>r DEF Fp32Verified, Past, Run
  <2>3. run.pc # "prepare"
    <3>1. run.pc = "prepare" => run'.n = run.n \/ run'.n = 0
      BY <1>r, <1>k DEF Steps
    <3> QED
      BY <2>2, <3>1, <1>r, <1>k DEF Position
  <2> QED
    BY <2>1, <2>2, <2>3, DataFrames
<1> QED
  BY <1>f, <1>1, <1>2, <1>3, <1>4, <1>5 DEF SourceKept

LEMMA SourceNext ==
    ASSUME Placed, SourceKept, [Next]_vars
    PROVE  SourceKept'
<1>1. CASE Stage
  BY <1>1, SourceStage
<1>2. CASE Fail \/ StartAgain
  BY <1>2, Restarts DEF SourceKept, Active, Opened, SourceVerified, Prepared, Fp32Verified, Past
<1>3. CASE Others
  <2>1. UNCHANGED <<run, data>> /\ run.pc \in Active \cup {"start"}
    BY <1>3, Meddlings
  <2>2. /\ Swaps \in Nat /\ Swaps' \in Nat /\ Swaps' >= Swaps
        /\ source' # source => Swaps' = Swaps + 1
    BY <1>3, Counting
  <2>3. Opened \/ Prepared => run.pc \in Active \ {"inspect"}
    BY <2>1 DEF Opened, Prepared, Past, Placed, Position
  <2>4. Swaps' = 0 => Swaps = 0 /\ source' = source
    BY <2>2
  <2>5. Swaps' < 2 => Swaps < 2 /\ (source' = source \/ Swaps = 0)
    BY <2>2
  <2> QED
    BY <2>1, <2>3, <2>4, <2>5
       DEF SourceKept, Opened, SourceVerified, Prepared, Fp32Verified, Past
<1>4. CASE UNCHANGED vars
  BY <1>4 DEF vars, SourceKept, Swaps, Opened, SourceVerified, Prepared, Fp32Verified, Past
<1> QED
  BY <1>1, <1>2, <1>3, <1>4 DEF Next, Others

-----------------------------------------------------------------------------
(* The labels                                                              *)

LEMMA LabelsStage ==
    ASSUME Placed, Digested, LabelsKept, Stage
    PROVE  LabelsKept'
<1>r. run \in Run /\ Position /\ Steps /\ run' \in Run
  BY Moves DEF Placed, TypeOK
<1>k. run.n \in 0..17 /\ run.k \in Images
  BY <1>r DEF Run
<1>t. data \in Data
  BY DEF Placed, TypeOK
<1>a. run.pc \in Active => Evaluation \subseteq Samples /\ Samples \subseteq Images
  BY Sizes DEF Placed
<1>m. UNCHANGED meddling
  BY Frames
<1> DEFINE Early == Done("label", Labelled)' = {} /\ Done("validateEva", Revalidated)' = {}
<1>e. DigestImage \/ DrawImage \/ (run'.pc = "failed" /\ run'.n = 0) => Early
  <2>1. DigestImage \/ DrawImage => run.pc \in {"draw", "digest"} /\ run.n = 3
    BY <1>r DEF DigestImage, DrawImage, At, Position
  <2>2. run.pc \in {"draw", "digest"} /\ run.n = 3 =>
          /\ run'.n = 3 \/ run'.n = 0
          /\ run'.pc \in {"failed", "refused", "uncreated", "draw", "digest", "dataset"}
    BY <1>r, <1>k DEF Steps, Round
  <2> QED
    BY <2>1, <2>2 DEF Done, Labelled, Revalidated, Past
<1>1. CASE Early
  BY <1>1 DEF LabelsKept
<1>2. CASE ~ Early
  <2>1. UNCHANGED image /\ data'.digest = data.digest
    BY <1>2, <1>e, Frames, DataFrames
  <2>2. data'.labelled = data.labelled \/ LabelSample
    BY <1>2, <1>e, DataFrames
  <2>3. LabelSample => /\ run.pc = "label" /\ run.n = 7 /\ run.k \in Images
                       /\ data'.labelled = [data.labelled EXCEPT ![run.k] = image[run.k]]
    BY <1>k, <1>t, <1>r DEF LabelSample, At, Data, Position
  <2>4. ASSUME NEW i \in Done("label", Labelled)', Changed(i)' < 2
        PROVE  data'.labelled[i] \in {data'.digest[i], image'[i]}
    <3>1. CASE LabelSample /\ i = run.k
      BY <2>1, <2>3, <3>1, <1>t DEF Data
    <3>2. CASE ~ (LabelSample /\ i = run.k)
      <4>1. i \in Done("label", Labelled)
        BY <2>4, <3>2, DoneGrowth
      <4>2. data.labelled[i] \in {data.digest[i], image[i]}
        BY <2>4, <4>1, <1>m DEF LabelsKept, Changed
      <4>3. data'.labelled[i] = data.labelled[i]
        <5>1. CASE LabelSample
          <6>1. i \in run.cal..(run.k - 1) /\ i # run.k
            BY <2>3, <3>2, <4>1, <5>1 DEF Done
          <6>2. run.k \in Samples /\ run.cal \in Nat
            BY <2>3, <5>1, <1>r, <1>a, Sizes DEF Position, Active, Placed
          <6>3. i \in Images
            BY <6>1, <6>2, <1>k, PilotAssumption DEF Images, PilotAssumption
          <6> QED
            BY <2>3, <5>1, <6>1, <6>3, <1>t DEF Data
        <5> QED
          BY <2>2, <5>1
      <4> QED
        BY <2>1, <4>2, <4>3
    <3> QED
      BY <3>1, <3>2
  <2>5. ASSUME NEW i \in Done("validateEva", Revalidated)', Changed(i)' < 2
        PROVE  data'.labelled[i] = data'.digest[i]
    <3>1. CASE ValidateSample /\ run.pc = "validateEva" /\ i = run.k
      <4>1. i \in Evaluation /\ run.n = 7 /\ image[i] = data.digest[i]
        BY <3>1, <1>r DEF Position, ValidateSample
      <4>2. i \in Done("label", Labelled)
        BY <3>1, <4>1 DEF Done, Labelled, Past
      <4>3. data.labelled[i] = data.digest[i]
        BY <2>5, <4>1, <4>2, <1>m DEF LabelsKept, Changed
      <4> QED
        BY <2>1, <2>2, <2>3, <3>1, <4>3
    <3>2. CASE ~ (ValidateSample /\ run.pc = "validateEva" /\ i = run.k)
      <4>1. i \in Done("validateEva", Revalidated)
        BY <2>5, <3>2, DoneGrowth
      <4>2. data.labelled[i] = data.digest[i]
        BY <2>5, <4>1, <1>m DEF LabelsKept, Changed
      <4>3. ~ LabelSample
        BY <2>3, <4>1 DEF Done, Revalidated, Past
      <4> QED
        BY <2>1, <2>2, <4>2, <4>3
    <3> QED
      BY <3>1, <3>2
  <2> QED
    BY <2>4, <2>5 DEF LabelsKept
<1> QED
  BY <1>1, <1>2

LEMMA LabelsNext ==
    ASSUME Placed, Digested, LabelsKept, [Next]_vars
    PROVE  LabelsKept'
<1>1. CASE Stage
  BY <1>1, LabelsStage
<1>2. CASE Fail \/ StartAgain
  BY <1>2, Restarts DEF LabelsKept, Done, Labelled, Revalidated, Past
<1>3. CASE Others
  <2>1. UNCHANGED <<run, data>> /\ run.pc \in Active \cup {"start"}
    BY <1>3, Meddlings
  <2>2. ASSUME NEW i \in Done("label", Labelled)
        PROVE  i \in Images /\ data.digest[i] # None
    <3>1. run.pc \in Active /\ run.n >= 7 /\ Drawn
      BY <2>1 DEF Done, Labelled, Past, Drawn, Placed, Position, TypeOK, Run
    <3>2. run.pc = "label" => run.k \in Evaluation
      BY DEF Placed, Position
    <3>3. /\ run.cal \in Nat \ {0} /\ run.eva \in Nat \ {0}
          /\ Evaluation \subseteq Samples /\ Samples \subseteq Images
      BY <3>1, Sizes DEF Placed
    <3>4. i \in Evaluation
      BY <3>2, <3>3 DEF Done, Evaluation
    <3> QED
      BY <3>1, <3>3, <3>4 DEF Digested
  <2>3. ASSUME NEW i \in Done("label", Labelled), Changed(i)' < 2
        PROVE  data.labelled[i] \in {data.digest[i], image'[i]}
    <3>1. i \in Images /\ data.digest[i] # None
      BY <2>2
    <3>2. /\ Changed(i) \in Nat /\ Changed(i)' \in Nat /\ Changed(i)' >= Changed(i)
          /\ image'[i] # image[i] => Changed(i)' = Changed(i) + 1
      BY <1>3, <3>1, Counting
    <3>3. Changed(i) < 2 /\ (image'[i] = image[i] \/ Changed(i) = 0)
      BY <2>3, <3>2
    <3>4. Changed(i) = 0 => image[i] = data.digest[i]
      BY <3>1 DEF Digested
    <3> QED
      BY <3>3, <3>4 DEF LabelsKept
  <2>4. ASSUME NEW i \in Done("validateEva", Revalidated), Changed(i)' < 2
        PROVE  data.labelled[i] = data.digest[i]
    <3>1. i \in Done("label", Labelled)
      <4>1. run.pc = "validateEva" => run.n = 7 /\ run.k \in Evaluation
        BY DEF Placed, Position
      <4>2. Revalidated => Labelled
        BY DEF Labelled, Revalidated, Past
      <4>3. run.pc = "validateEva" =>
              run.cal \in Nat \ {0} /\ run.eva \in Nat \ {0}
        BY Sizes DEF Placed, Active
      <4>4. run.pc = "label" => ~ Revalidated
        BY DEF Revalidated, Past, Placed, Position
      <4> QED
        BY <4>1, <4>2, <4>3, <4>4 DEF Done, Labelled, Past, Evaluation
    <3>2. Changed(i) < 2
      BY <1>3, <2>2, <2>4, <3>1, Counting
    <3> QED
      BY <2>4, <3>2 DEF LabelsKept
  <2>5. /\ Done("label", Labelled)' = Done("label", Labelled)
        /\ Done("validateEva", Revalidated)' = Done("validateEva", Revalidated)
    BY <2>1 DEF Done, Labelled, Revalidated, Past, Evaluation
  <2> QED
    BY <2>1, <2>3, <2>4, <2>5 DEF LabelsKept
<1>4. CASE UNCHANGED vars
  BY <1>4 DEF vars, LabelsKept, Changed, Done, Labelled, Revalidated, Past, Evaluation
<1> QED
  BY <1>1, <1>2, <1>3, <1>4 DEF Next, Others

-----------------------------------------------------------------------------
(* What the calibrator gets                                                *)

LEMMA FedStage ==
    ASSUME Placed, Digested, Fed, Stage
    PROVE  Fed'
<1>r. run \in Run /\ Position /\ Steps /\ run' \in Run
  BY Moves DEF Placed, TypeOK
<1>k. run.n \in 0..17 /\ run.k \in Images /\ run.k \in Nat /\ run.cal \in Nat
  BY <1>r, PilotAssumption DEF Run, Images, PilotAssumption
<1>t. data \in Data /\ data.fed \in Seq(Contents) /\ Len(data.fed) \in Nat
  BY DEF Placed, TypeOK, Data
<1>m. UNCHANGED meddling
  BY Frames
<1>1. CASE GetNext
  <2>1. /\ run.pc = "calibrate" /\ run.k < run.cal /\ image[run.k] # None
        /\ run' = [run EXCEPT !.k = @ + 1]
        /\ data' = [data EXCEPT !.fed = Append(@, image[run.k])] /\ UNCHANGED image
    BY <1>1 DEF GetNext, At, World
  <2>2. /\ run'.pc = "calibrate" /\ run'.k = run.k + 1 /\ run'.n = run.n
        /\ data'.fed = Append(data.fed, image[run.k]) /\ data'.digest = data.digest
    BY <2>1, <1>r, <1>t DEF Run, Data
  <2>3. Len(data.fed) = run.k /\ run.n = 11
    BY <2>1, <1>r DEF Fed, Position
  <2>4. image[run.k] \in Contents
    BY <2>1, <1>k DEF Placed, TypeOK
  <2>5. /\ Len(data'.fed) = run.k + 1 /\ data'.fed[run.k + 1] = image[run.k]
        /\ \A i \in 1..run.k : data'.fed[i] = data.fed[i]
    BY <2>2, <2>3, <2>4, <1>t
  <2>6. Changed(run.k) = 0 => image[run.k] = data.digest[run.k]
    <3>1. Drawn
      BY <2>3 DEF Drawn, Past
    <3>2. run.k \in Samples
      BY <2>1, <1>k, Sizes DEF Samples, Placed, Active
    <3> QED
      BY <3>1, <3>2, <1>k DEF Digested
  <2>7. ASSUME NEW i \in 1..(run.k + 1), Changed(i - 1)' = 0
        PROVE  data'.fed[i] = data'.digest[i - 1]
    <3>1. CASE i = run.k + 1
      BY <3>1, <2>2, <2>5, <2>6, <2>7, <1>m, <1>k DEF Changed
    <3>2. CASE i \in 1..run.k
      BY <3>2, <2>1, <2>2, <2>3, <2>5, <2>7, <1>m DEF Fed, Changed
    <3> QED
      BY <3>1, <3>2, <1>k
  <2>8. ~ Calibrated' /\ Prepared'
    BY <2>2, <2>3 DEF Calibrated, Prepared, Past
  <2> QED
    BY <2>2, <2>5, <2>7, <2>8 DEF Fed
<1>2. CASE Rewind
  <2>1. run.pc = "calibrate" /\ data'.fed = <<>>
    BY <1>2, <1>t DEF Rewind, At, Data
  <2>2. \/ run'.pc \in {"failed", "refused", "uncreated"} /\ run'.n = 0
        \/ run'.pc = "calibrate" /\ run'.k = 0 /\ run'.n = 11
    BY <1>2, <2>1, <1>r DEF Steps, Position, Rewind, Run
  <2>3. Len(data'.fed) = 0 /\ 1..0 = {}
    BY <2>1
  <2> QED
    BY <2>1, <2>2, <2>3 DEF Fed, Calibrated, Prepared, Past
<1>3. CASE run'.pc = "failed" /\ run'.n = 0 /\ data' = NoData
  BY <1>3 DEF Fed, Calibrated, Prepared, Past, NoData
<1>4. CASE ~ GetNext /\ ~ Rewind /\ ~ (run'.pc = "failed" /\ run'.n = 0 /\ data' = NoData)
  <2>1. data'.fed = data.fed /\ (data'.digest = data.digest \/ DigestImage)
    BY <1>4, DataFrames
  <2>2. DigestImage => ~ Prepared' /\ run'.pc # "calibrate"
    <3>1. DigestImage => run.pc = "digest" /\ run.n = 3
      BY <1>r DEF DigestImage, At, Position
    <3>2. run.pc = "digest" /\ run.n = 3 =>
            /\ run'.n = 3 \/ run'.n = 0
            /\ run'.pc \in {"failed", "refused", "uncreated", "draw", "digest", "dataset"}
      BY <1>r, <1>k DEF Steps, Round
    <3> QED
      BY <3>1, <3>2 DEF Prepared, Past
  <2>3. run'.pc = "calibrate" => run'.k = 0 /\ run'.n = 11 /\ ~ Prepared
    BY <1>4, <1>r, <1>k
       DEF Steps, Round, AfterRecord, AfterDatasetFile, Position, Prepared, Past
  <2>4. ~ Prepared' => ~ Prepared
    BY <1>4, <1>r, <1>k
       DEF Steps, Round, AfterRecord, AfterDatasetFile, Position, Prepared, Past
  <2>5. EndCalibration => run.pc = "calibrate" /\ run.k = run.cal
    BY DEF EndCalibration, At
  <2>6. Calibrated' => /\ Calibrated \/ (run.pc = "calibrate" /\ run.k = run.cal)
                       /\ run'.cal = run.cal
    <3>1. Calibrated' => run'.cal = run.cal
      BY <1>r, <1>k DEF Calibrated, Past, Steps
    <3> QED
      BY <2>5, <3>1, Growth
  <2>7. data.fed = <<>> => Len(data.fed) = 0 /\ 1..Len(data.fed) = {}
    OBVIOUS
  <2>8. data'.fed = data.fed /\ (~ Prepared' \/ data'.digest = data.digest)
    BY <2>1, <2>2
  <2>9. Calibrated' => Prepared'
    BY DEF Calibrated, Prepared, Past
  <2>10. ~ Prepared' => data'.fed = <<>>
    BY <2>1, <2>4 DEF Fed
  <2>11. run'.pc = "calibrate" =>
           /\ Len(data'.fed) = run'.k
           /\ \A i \in 1..Len(data'.fed) : Changed(i - 1)' = 0 => data'.fed[i] = data'.digest[i - 1]
    BY <2>1, <2>3, <2>7 DEF Fed
  <2>12. Calibrated' =>
           /\ Len(data'.fed) = run'.cal
           /\ \A i \in 1..Len(data'.fed) : Changed(i - 1)' = 0 => data'.fed[i] = data'.digest[i - 1]
    BY <2>6, <2>8, <2>9, <1>m DEF Fed, Changed
  <2> QED
    BY <2>10, <2>11, <2>12 DEF Fed
<1> QED
  BY <1>1, <1>2, <1>3, <1>4

LEMMA FedNext ==
    ASSUME Placed, Digested, Fed, [Next]_vars
    PROVE  Fed'
<1>1. CASE Stage
  BY <1>1, FedStage
<1>2. CASE Fail \/ StartAgain
  BY <1>2, Restarts DEF Fed, NoData, Calibrated, Prepared, Past
<1>3. CASE Others
  <2>1. UNCHANGED <<run, data>> /\ run.pc \in Active \cup {"start"}
    BY <1>3, Meddlings
  <2>2. ASSUME run.pc = "calibrate" \/ Calibrated,
               NEW i \in 1..Len(data.fed), Changed(i - 1)' = 0
        PROVE  data.fed[i] = data.digest[i - 1]
    <3>1. run.pc \in Active
      BY <2>1, <2>2 DEF Calibrated, Past, Placed, Position, Active
    <3>2. run.cal \in Nat /\ Samples \subseteq Images /\ Calibration \subseteq Samples
      BY <3>1, Sizes DEF Placed
    <3>3. Len(data.fed) \in 0..run.cal
      BY <2>2, <3>2 DEF Fed, Placed, Position
    <3>4. i - 1 \in Calibration
      BY <3>2, <3>3 DEF Calibration
    <3>5. Changed(i - 1) = 0
      BY <1>3, <2>2, <3>2, <3>4, Counting
    <3> QED
      BY <2>2, <3>5 DEF Fed
  <2> QED
    BY <2>1, <2>2 DEF Fed, Calibrated, Prepared, Past
<1>4. CASE UNCHANGED vars
  BY <1>4 DEF vars, Fed, Changed, Calibrated, Prepared, Past
<1> QED
  BY <1>1, <1>2, <1>3, <1>4 DEF Next, Others

-----------------------------------------------------------------------------
(* What the models say                                                     *)

\* A model that gave an answer stays with it, and what it says is remembered.
LEMMA Remembering ==
    ASSUME Placed, NEW c \in Contents, NEW o \in Answers(c), Remember(c, o)
    PROVE  /\ \A m \in {"fp32", "int8"}, b \in Contents :
                 answer[m][b] # None => answer'[m][b] = answer[m][b]
           /\ data.session \in {"fp32", "int8"} => answer'[data.session][c] = o
           /\ o # None /\ o \in Rankings
<1>1. answer \in [{"fp32", "int8"} -> [Contents -> Rankings \cup {None}]]
  BY DEF Placed, TypeOK
<1>2. None \notin Rankings
  BY PilotAssumption DEF PilotAssumption
<1> QED
  BY <1>1, <1>2 DEF Answers, Remember

LEMMA AnswersKept ==
    ASSUME Placed, Stage, ~ (run'.pc = "failed" /\ run'.n = 0)
    PROVE  \A m \in {"fp32", "int8"}, b \in Contents :
              answer[m][b] # None => answer'[m][b] = answer[m][b]
<1>1. run.k \in Images /\ image[run.k] \in Contents \cup {None}
  BY DEF Placed, TypeOK, Run
<1>2. CASE LabelSample
  BY <1>1, <1>2, Remembering DEF LabelSample
<1>3. CASE RunSample
  BY <1>1, <1>3, Remembering DEF RunSample
<1>4. Stopped("failed") => run'.pc = "failed" /\ run'.n = 0
  BY Stopping DEF Placed
<1> QED
  BY <1>2, <1>3, <1>4, Frames

LEMMA SessionStage ==
    ASSUME Placed, SourceKept, Patterns, Answered, Stage
    PROVE  /\ run'.pc \in {"label", "runFp32"} /\ Swaps = 0 => data'.session = "fp32"
           /\ run'.pc = "runInt8" /\ meddling.all = 0 => data'.session = "int8"
<1>r. run \in Run /\ Position /\ Steps /\ run' \in Run
  BY Moves DEF Placed, TypeOK
<1>k. run.n \in 0..17
  BY <1>r DEF Run
<1>t. data \in Data
  BY DEF Placed, TypeOK
<1>1. ASSUME run'.pc \in {"label", "runFp32", "runInt8"}
      PROVE  \/ OpenSource /\ run.pc = "openLabel" /\ run'.pc = "label"
             \/ OpenSource /\ run.pc = "openFp32" /\ run'.pc = "runFp32"
             \/ OpenInt8 /\ run.pc = "openInt8" /\ run'.pc = "runInt8"
             \/ run.pc = run'.pc
  BY <1>1, <1>r, <1>k DEF Steps, Round, AfterRecord, AfterDatasetFile, Position
<1>2. OpenSource /\ run.pc \in {"openLabel", "openFp32"} => data'.session = source
  BY <1>t DEF OpenSource, At, Data
<1>3. OpenInt8 => data'.session = IF int8 = "damaged" THEN int8 ELSE "int8"
  BY <1>t DEF OpenInt8, Data
<1>4. run.pc \in {"openLabel", "openFp32"} /\ Swaps = 0 => source = "fp32"
  BY DEF SourceKept, Active
<1>5. run.pc = run'.pc /\ run.pc \in {"label", "runFp32", "runInt8"} =>
        data'.session = data.session
  BY DataFrames DEF OpenSource, OpenInt8, At
<1> QED
  BY <1>1, <1>2, <1>3, <1>4, <1>5 DEF Answered, Patterns

\* A sample that is labelled has a digest.
LEMMA Found ==
    ASSUME Placed, Digested, NEW i \in Done("label", Labelled), run.pc # "completed"
    PROVE  /\ i \in Images /\ i \in Evaluation
           /\ data.digest[i] # None /\ data.digest[i] \in Contents
<1>1. run.pc \in Active /\ run.n >= 7 /\ Drawn
  BY DEF Done, Labelled, Past, Drawn, Placed, Position, TypeOK, Run, Active, Over
<1>2. run.pc = "label" => run.k \in Evaluation
  BY DEF Placed, Position
<1>3. /\ run.cal \in Nat \ {0} /\ run.eva \in Nat \ {0}
      /\ Evaluation \subseteq Samples /\ Samples \subseteq Images
  BY <1>1, Sizes DEF Placed
<1>4. i \in Evaluation
  BY <1>2, <1>3 DEF Done, Evaluation
<1>5. data.digest[i] # None
  BY <1>1, <1>3, <1>4 DEF Digested
<1> QED
  BY <1>3, <1>4, <1>5 DEF Placed, TypeOK, Data

LEMMA StageActive ==
    ASSUME Placed, Stage
    PROVE  run.pc \in Active \cup {"start"}
BY DEF Stage, CreateOutput, InspectSource, WriteRecord, DrawImage, DigestImage, WriteDatasetFile,
   ValidateSample, VerifySource, OpenSource, LabelSample, RequireNoOverlap, GetNext, Rewind,
   EndCalibration, PublishModel, VerifyInt8, OpenInt8, RunSample, CompareEvaluations, At, Active

LEMMA LabelAnswers ==
    ASSUME Placed, Digested, Answered, Stage, Swaps = 0,
           NEW i \in Done("label", Labelled)', Changed(i) = 0
    PROVE  Says("fp32", i)' # None /\ data'.label[i] = Says("fp32", i)'[1]
<1>r. run \in Run /\ Position /\ Steps /\ run' \in Run
  BY Moves DEF Placed, TypeOK
<1>k. run.n \in 0..17 /\ run.k \in Images
  BY <1>r DEF Run
<1>t. data \in Data /\ image \in [Images -> Contents \cup {None}]
  BY DEF Placed, TypeOK
<1>1. ~ (run'.pc = "failed" /\ run'.n = 0)
  BY DEF Done, Labelled, Past
<1>c. run.pc # "completed"
  BY StageActive DEF Active
<1>2. ~ DigestImage
  <2>1. DigestImage => run.pc = "digest" /\ run.n = 3
    BY <1>r DEF DigestImage, At, Position
  <2>2. run.pc = "digest" /\ run.n = 3 =>
          /\ run'.n = 3 \/ run'.n = 0
          /\ run'.pc \in {"failed", "refused", "uncreated", "draw", "digest", "dataset"}
    BY <1>r, <1>k DEF Steps, Round
  <2> QED
    BY <2>1, <2>2 DEF Done, Labelled, Past
<1>3. data'.digest = data.digest /\ (data'.label = data.label \/ LabelSample)
  BY <1>1, <1>2, DataFrames
<1>4. CASE LabelSample /\ i = run.k
  <2>1. /\ run.pc = "label" /\ run.n = 7 /\ image[run.k] \in Contents
    BY <1>4, <1>r, <1>k, <1>t DEF LabelSample, At, Position
  <2>2. PICK o \in Answers(image[run.k]) :
          /\ Remember(image[run.k], o)
          /\ data' = [data EXCEPT !.label[run.k] = o[1], !.labelled[run.k] = image[run.k]]
    BY <1>4 DEF LabelSample
  <2>3. data'.label[run.k] = o[1]
    BY <2>2, <1>t, <1>k DEF Data
  <2>4. image[run.k] = data.digest[run.k]
    <3>1. Drawn /\ run.k \in Samples
      BY <2>1, <1>r, Sizes DEF Drawn, Past, Position, Placed, Active
    <3> QED
      BY <3>1, <1>4, <1>k DEF Digested
  <2>5. data.session = "fp32"
    BY <2>1 DEF Answered
  <2>6. answer'["fp32"][image[run.k]] = o /\ o # None
    BY <2>1, <2>2, <2>5, Remembering
  <2> QED
    BY <1>3, <1>4, <2>3, <2>4, <2>6 DEF Says
<1>5. CASE ~ (LabelSample /\ i = run.k)
  <2>1. i \in Done("label", Labelled)
    BY <1>5, DoneGrowth
  <2>2. Says("fp32", i) # None /\ data.label[i] = Says("fp32", i)[1]
    BY <2>1 DEF Answered
  <2>3. Says("fp32", i)' = Says("fp32", i)
    <3>1. i \in Images /\ data.digest[i] \in Contents
      BY <2>1, <1>c, Found
    <3> QED
      BY <1>1, <1>3, <2>2, <3>1, AnswersKept DEF Says
  <2>4. data'.label[i] = data.label[i]
    <3>1. CASE data'.label = data.label
      BY <3>1
    <3>2. CASE LabelSample
      <4>1. PICK o \in Answers(image[run.k]) :
              data' = [data EXCEPT !.label[run.k] = o[1], !.labelled[run.k] = image[run.k]]
        BY <3>2 DEF LabelSample
      <4>2. data'.label = [data.label EXCEPT ![run.k] = o[1]]
        BY <4>1, <1>t DEF Data
      <4>3. i \in Images /\ i # run.k
        BY <1>5, <3>2, <2>1, <1>c, Found
      <4> QED
        BY <4>2, <4>3, <1>t DEF Data
    <3> QED
      BY <3>1, <3>2, <1>3
  <2> QED
    BY <2>2, <2>3, <2>4
<1> QED
  BY <1>4, <1>5

\* The sample that RunSample is at.
LEMMA OneOutcome ==
    ASSUME Placed, Digested, Stage, RunSample, Changed(run.k) = 0
    PROVE  /\ run.k \in Evaluation /\ run.k \in Images
           /\ data.digest[run.k] \in Contents
           /\ \/ data'.outcome[run.pc][run.k] = <<>>
              \/ /\ \A m \in {"fp32", "int8"} : data.session = m =>
                       data'.outcome[run.pc][run.k] = answer'[m][data.digest[run.k]]
                 /\ data'.outcome[run.pc][run.k] # None
<1>1. run.pc \in {"runFp32", "runInt8"} /\ run.k \in Evaluation /\ run.k \in Images
  BY DEF RunSample, Placed, Position, TypeOK, Run
<1>2. Drawn /\ run.k \in Samples
  BY <1>1, Sizes DEF Drawn, Past, Placed, Position, Active
<1>3. image[run.k] = data.digest[run.k] /\ data.digest[run.k] # None
  BY <1>1, <1>2 DEF Digested
<1>4. data \in Data /\ data.digest[run.k] \in Contents
  BY <1>1, <1>3 DEF Placed, TypeOK, Data
<1>5. ASSUME NEW o, data' = [data EXCEPT !.outcome[run.pc][run.k] = o]
      PROVE  data'.outcome[run.pc][run.k] = o
  BY <1>1, <1>4, <1>5 DEF Data
<1>6. CASE data' = [data EXCEPT !.outcome[run.pc][run.k] = <<>>]
  BY <1>1, <1>4, <1>5, <1>6
<1>7. CASE \E o \in Answers(image[run.k]) :
              /\ data' = [data EXCEPT !.outcome[run.pc][run.k] = o]
              /\ Remember(image[run.k], o)
  <2>1. PICK o \in Answers(data.digest[run.k]) :
          /\ data' = [data EXCEPT !.outcome[run.pc][run.k] = o]
          /\ Remember(data.digest[run.k], o)
    BY <1>3, <1>7
  <2>2. /\ data.session \in {"fp32", "int8"} => answer'[data.session][data.digest[run.k]] = o
        /\ o # None
    BY <1>4, <2>1, Remembering
  <2> QED
    BY <1>1, <1>4, <1>5, <2>1, <2>2
<1> QED
  BY <1>6, <1>7 DEF RunSample

\* An outcome that is there stays.
LEMMA OutcomesKept ==
    ASSUME Placed, Stage, ~ (run'.pc = "failed" /\ run'.n = 0),
           NEW m \in {"runFp32", "runInt8"}, NEW i \in Images,
           ~ (RunSample /\ run.pc = m /\ i = run.k)
    PROVE  data'.outcome[m][i] = data.outcome[m][i]
<1>1. data \in Data /\ run.k \in Images
  BY DEF Placed, TypeOK, Run
<1>2. CASE RunSample
  <2>1. PICK o : data' = [data EXCEPT !.outcome[run.pc][run.k] = o]
    BY <1>2 DEF RunSample
  <2>2. run.pc \in {"runFp32", "runInt8"}
    BY <1>2 DEF RunSample
  <2> QED
    BY <1>1, <1>2, <2>1, <2>2 DEF Data
<1> QED
  BY <1>2, DataFrames

LEMMA NotDigesting ==
    ASSUME Placed, Stage, run'.n >= 12
    PROVE  data'.digest = data.digest
<1>1. run \in Run /\ Position /\ Steps
  BY Moves DEF Placed, TypeOK
<1>2. DigestImage => run.pc = "digest" /\ run.n = 3
  BY <1>1 DEF DigestImage, At, Position
<1>3. run.pc = "digest" => run'.n = run.n \/ run'.n = 0
  BY <1>1 DEF Steps
<1>4. run'.n # 0 /\ run'.n # 3
  OBVIOUS
<1> QED
  BY <1>2, <1>3, <1>4, DataFrames

\* A sample that was evaluated was labelled before.
LEMMA LabelledFirst ==
    ASSUME Placed, NEW i \in Done("runFp32", Fp32Done) \cup Done("runInt8", Int8Done)
    PROVE  i \in Done("label", Labelled)
<1>1. run \in Run /\ run.n \in 0..17 /\ Position
  BY DEF Placed, TypeOK, Run
<1>2. run.pc # "label" /\ run.n >= 12
  BY <1>1 DEF Done, Fp32Done, Int8Done, Past, Position
<1>3. Labelled
  BY <1>1, <1>2 DEF Labelled, Past
<1>4. i \in Evaluation
  <2>1. CASE run.pc \in {"runFp32", "runInt8"}
    <3>1. run.k \in Evaluation /\ run.cal \in Nat /\ run.eva \in Nat
      BY <1>1, <2>1, Sizes DEF Placed, Position, Active
    <3>2. i \in run.cal..(run.k - 1) \/ i \in Evaluation
      BY <2>1 DEF Done
    <3>3. run.cal..(run.k - 1) \subseteq Evaluation
      BY <3>1 DEF Evaluation
    <3> QED
      BY <3>2, <3>3
  <2>2. CASE run.pc \notin {"runFp32", "runInt8"}
    BY <2>2 DEF Done
  <2> QED
    BY <2>1, <2>2
<1> QED
  BY <1>2, <1>3, <1>4 DEF Done

LEMMA Fp32Answers ==
    ASSUME Placed, Digested, Answered, Stage, Swaps = 0,
           NEW i \in Done("runFp32", Fp32Done)', Changed(i) = 0, Good(Fp32(i)')
    PROVE  Fp32(i)' = Says("fp32", i)'
<1>r. run \in Run /\ Position /\ Steps /\ run' \in Run /\ Position'
  BY Moves, PositionKept DEF Placed, TypeOK
<1>1. run'.n >= 12 /\ ~ (run'.pc = "failed" /\ run'.n = 0) /\ run.pc # "completed"
  BY <1>r, StageActive DEF Done, Fp32Done, Past, Position, Run, Active
<1>2. data'.digest = data.digest
  BY <1>1, NotDigesting
<1>3. CASE RunSample /\ run.pc = "runFp32" /\ i = run.k
  <2>1. data.session = "fp32"
    BY <1>3 DEF Answered
  <2> QED
    BY <1>2, <1>3, <2>1, OneOutcome DEF Says, Fp32, Good
<1>4. CASE ~ (RunSample /\ run.pc = "runFp32" /\ i = run.k)
  <2>1. i \in Done("runFp32", Fp32Done)
    BY <1>4, DoneGrowth
  <2>2. i \in Done("label", Labelled)
    BY <2>1, LabelledFirst
  <2>3. i \in Images /\ data.digest[i] \in Contents
    BY <1>1, <2>2, Found
  <2>4. Fp32(i)' = Fp32(i)
    BY <1>1, <1>4, <2>3, OutcomesKept DEF Fp32
  <2>5. Fp32(i) = Says("fp32", i) /\ Says("fp32", i) # None
    BY <2>1, <2>2, <2>4 DEF Answered
  <2>6. Says("fp32", i)' = Says("fp32", i)
    BY <1>1, <1>2, <2>3, <2>5, AnswersKept DEF Says
  <2> QED
    BY <2>4, <2>5, <2>6
<1> QED
  BY <1>3, <1>4

LEMMA Int8Answers ==
    ASSUME Placed, Digested, Answered, Stage, meddling.all = 0,
           NEW i \in Done("runInt8", Int8Done)', Good(Int8(i)')
    PROVE  Int8(i)' = Says("int8", i)' /\ Says("int8", i)' # None
<1>r. run \in Run /\ Position /\ Steps /\ run' \in Run /\ Position'
  BY Moves, PositionKept DEF Placed, TypeOK
<1>1. run'.n >= 12 /\ ~ (run'.pc = "failed" /\ run'.n = 0) /\ run.pc # "completed"
  BY <1>r, StageActive DEF Done, Int8Done, Past, Position, Run, Active
<1>2. data'.digest = data.digest
  BY <1>1, NotDigesting
<1>3. CASE RunSample /\ run.pc = "runInt8" /\ i = run.k
  <2>1. data.session = "int8"
    BY <1>3 DEF Answered
  <2>2. Changed(run.k) = 0
    <3>1. /\ run.k \in Images /\ meddling.image \in [Images -> 0..MaxChanges]
          /\ meddling.image[run.k] <= 0
      BY DEF Placed, TypeOK, Counted, Changed, Run
    <3> QED
      BY <3>1, PilotAssumption DEF Changed, PilotAssumption
  <2> QED
    BY <1>2, <1>3, <2>1, <2>2, OneOutcome DEF Says, Int8, Good
<1>4. CASE ~ (RunSample /\ run.pc = "runInt8" /\ i = run.k)
  <2>1. i \in Done("runInt8", Int8Done)
    BY <1>4, DoneGrowth
  <2>2. i \in Done("label", Labelled)
    BY <2>1, LabelledFirst
  <2>3. i \in Images /\ data.digest[i] \in Contents
    BY <1>1, <2>2, Found
  <2>4. Int8(i)' = Int8(i)
    BY <1>1, <1>4, <2>3, OutcomesKept DEF Int8
  <2>5. Int8(i) = Says("int8", i) /\ Says("int8", i) # None
    BY <2>1, <2>4 DEF Answered
  <2>6. Says("int8", i)' = Says("int8", i)
    BY <1>1, <1>2, <2>3, <2>5, AnswersKept DEF Says
  <2> QED
    BY <2>4, <2>5, <2>6
<1> QED
  BY <1>3, <1>4

LEMMA AnsweredNext ==
    ASSUME Placed, Digested, SourceKept, Patterns, Answered, [Next]_vars
    PROVE  Answered'
<1>1. CASE Stage
  <2>1. UNCHANGED meddling /\ Swaps' = Swaps /\ \A i : Changed(i)' = Changed(i)
    BY <1>1, Frames DEF Swaps, Changed
  <2> QED
    BY <1>1, <2>1, SessionStage, LabelAnswers, Fp32Answers, Int8Answers DEF Answered
<1>2. CASE Fail \/ StartAgain
  BY <1>2, Restarts DEF Answered, Done, Labelled, Fp32Done, Int8Done, Past
<1>3. CASE Others
  <2>1. UNCHANGED <<run, data, answer>> /\ run.pc \in Active \cup {"start"}
    BY <1>3, Meddlings
  <2>2. /\ Swaps' = 0 => Swaps = 0
        /\ meddling'.all # 0
        /\ \A i \in Images : Changed(i)' = 0 => Changed(i) = 0
    BY <1>3, Counting
  <2>3. \A i \in Done("label", Labelled) : i \in Images
    BY <2>1, Found DEF Active
  <2>4. \A i \in Done("runFp32", Fp32Done) : i \in Images
    BY <2>3, LabelledFirst
  <2> QED
    BY <2>1, <2>2, <2>3, <2>4
       DEF Answered, Done, Labelled, Fp32Done, Int8Done, Past, Evaluation, Says, Fp32, Int8
<1>4. CASE UNCHANGED vars
  BY <1>4 DEF vars, Answered, Changed, Swaps, Done, Labelled, Fp32Done, Int8Done, Past,
     Evaluation, Says, Fp32, Int8
<1> QED
  BY <1>1, <1>2, <1>3, <1>4 DEF Next, Others

-----------------------------------------------------------------------------
(* Patterns and the verdict                                                *)

LEMMA PatternsNext ==
    ASSUME Placed, Patterns, [Next]_vars
    PROVE  Patterns'
<1>1. CASE Stage
  <2>r. run \in Run /\ Position /\ Steps
    BY <1>1, Moves DEF Placed, TypeOK
  <2>1. UNCHANGED meddling
    BY <1>1, Frames
  <2>2. int8 # "damaged" => int8' # "damaged"
    BY <1>1, Frames DEF PublishModel
  <2>3. ASSUME \A i \in Images : image[i] \in {None, Pattern(i)}
        PROVE  \A i \in Images : image'[i] \in {None, Pattern(i)}
    <3>1. DrawImage => image' = [image EXCEPT ![run.k] = Pattern(run.k)]
      BY DEF DrawImage
    <3> QED
      BY <1>1, <2>3, <3>1, Frames DEF Placed, TypeOK
  <2>4. ASSUME Separate'
        PROVE  \A i \in Calibration', j \in Evaluation' : data'.digest[i] # data'.digest[j]
    <3>1. run'.n >= 10 /\ run'.cal = run.cal /\ run'.eva = run.eva
      BY <2>4, <2>r DEF Separate, Past, Steps, Run
    <3>2. data'.digest = data.digest
      <4>1. DigestImage => run.pc = "digest" /\ run.n = 3
        BY <2>r DEF DigestImage, At, Position
      <4>2. run.pc = "digest" => run'.n = run.n \/ run'.n = 0
        BY <2>r DEF Steps
      <4>3. run'.n # 0 /\ run'.n # 3
        BY <3>1
      <4> QED
        BY <1>1, <4>1, <4>2, <4>3, DataFrames
    <3>3. \A i \in Calibration, j \in Evaluation : data.digest[i] # data.digest[j]
      BY <1>1, <2>4, Growth DEF Patterns, RequireNoOverlap
    <3> QED
      BY <3>1, <3>2, <3>3 DEF Calibration, Evaluation
  <2> QED
    BY <2>1, <2>2, <2>3, <2>4 DEF Patterns
<1>2. CASE Fail \/ StartAgain
  BY <1>2, Restarts DEF Patterns, Separate, Past
<1>3. CASE Others
  <2>1. UNCHANGED <<run, data>> /\ meddling'.all # 0
    BY <1>3, Meddlings, Counting
  <2> QED
    BY <2>1 DEF Patterns, Separate, Past, Calibration, Evaluation
<1>4. CASE UNCHANGED vars
  BY <1>4 DEF vars, Patterns, Separate, Past, Calibration, Evaluation
<1> QED
  BY <1>1, <1>2, <1>3, <1>4 DEF Next, Others

LEMMA JudgedNext ==
    ASSUME Placed, Judged, [Next]_vars
    PROVE  Judged'
<1> DEFINE Same == /\ run'.cal = run.cal /\ run'.eva = run.eva
                   /\ data'.outcome = data.outcome /\ data'.label = data.label
                   /\ data'.small = data.small
<1>0. Same => (Overall' <=> Overall)
  BY DEF Overall, Correct1, Correct5, Agreed, Fp32, Int8, Evaluation
<1> HIDE DEF Same
<1>1. CASE Stage
  <2>r. run \in Run /\ Position /\ Steps
    BY <1>1, Moves DEF Placed, TypeOK
  <2>1. UNCHANGED meddling
    BY <1>1, Frames
  <2>2. ASSUME Compared' PROVE Same
    <3>1. run'.n >= 14 /\ run'.cal = run.cal /\ run'.eva = run.eva
      BY <2>2, <2>r DEF Compared, Past, Steps, Run
    <3>2. run'.n = run.n \/ run.pc \in {"write", "dataset"}
      BY <2>r, <3>1 DEF Steps
    <3>3. run.pc \notin {"label", "publish", "runFp32", "runInt8"}
      BY <2>r, <3>1, <3>2 DEF Position
    <3>4. ~ LabelSample /\ ~ PublishModel /\ ~ RunSample
      BY <3>3 DEF LabelSample, PublishModel, RunSample, At
    <3> QED
      BY <1>1, <3>1, <3>4, DataFrames DEF Same
  <2>3. CASE CompareEvaluations
    <3>1. data'.passed = Overall
      BY <2>3 DEF CompareEvaluations, Placed, TypeOK, Data
    <3> QED
      BY <1>0, <2>2, <3>1 DEF Judged
  <2>4. CASE ~ CompareEvaluations
    <3>1. Compared' => Compared /\ data'.passed = data.passed
      <4>1. Compared' => ~ (run'.pc = "failed" /\ run'.n = 0)
        BY DEF Compared, Past
      <4> QED
        BY <1>1, <2>4, <4>1, Growth, DataFrames
    <3> QED
      BY <1>0, <2>1, <2>2, <3>1 DEF Judged
  <2> QED
    BY <2>3, <2>4
<1>2. CASE Fail \/ StartAgain
  BY <1>2, Restarts DEF Judged, Compared, Past
<1>3. CASE Others
  BY <1>3, Counting DEF Judged
<1>4. CASE UNCHANGED vars
  <2>1. Same
    BY <1>4 DEF vars, Same
  <2> QED
    BY <1>0, <1>4, <2>1 DEF vars, Judged, Compared, Past
<1> QED
  BY <1>1, <1>2, <1>3, <1>4 DEF Next, Others

-----------------------------------------------------------------------------
(* The inductive invariant                                                 *)

LEMMA InitInvariant == Init => IInv
<1> SUFFICES ASSUME Init PROVE IInv
  OBVIOUS
<1>1. /\ Placed /\ run.pc = "start" /\ run.n = 0 /\ data = NoData /\ int8 = "none"
      /\ image = [i \in Images |-> None]
      /\ disk = [owner |-> 0, dataset |-> {}, records |-> {}]
  BY InitPlaced DEF Init, Fresh
<1>2. Kept /\ LabelsKept /\ SourceKept /\ Judged
  BY <1>1 DEF Kept, PrefixOnDisk, LabelsKept, SourceKept, Judged, Done, Labelled, Revalidated,
     Opened, SourceVerified, Prepared, Fp32Verified, Compared, Published, Past, Active
<1>3. Digested /\ Patterns
  BY <1>1 DEF Digested, Patterns, Drawn, Separate, Past, NoData
<1>4. Fed /\ Answered
  BY <1>1 DEF Fed, Answered, Calibrated, Prepared, Done, Labelled, Fp32Done, Int8Done, Past, NoData
<1> QED
  BY <1>1, <1>2, <1>3, <1>4 DEF IInv, Placed

LEMMA NextInvariant == IInv /\ [Next]_vars => IInv'
<1>1. IInv <=> /\ Placed /\ Kept /\ Digested /\ LabelsKept /\ SourceKept
               /\ Fed /\ Answered /\ Patterns /\ Judged
  BY DEF IInv, Placed
<1>2. IInv' <=> /\ Placed' /\ Kept' /\ Digested' /\ LabelsKept' /\ SourceKept'
                /\ Fed' /\ Answered' /\ Patterns' /\ Judged'
  BY DEF IInv, Placed
<1> QED
  BY <1>1, <1>2, PlacedNext, KeptNext, DigestedNext, LabelsNext, SourceNext, FedNext,
     AnsweredNext, PatternsNext, JudgedNext

LEMMA Invariant == Spec => []IInv
BY InitInvariant, NextInvariant, PTL DEF Spec

-----------------------------------------------------------------------------
(* Counting and the remainder                                              *)

\* The gate on the agreement of the models follows from the one on the accuracy.
LEMMA Thresholds ==
    ASSUME NEW e \in Nat, NEW x \in Nat, NEW drop \in 0..100, NEW agreement \in 0..100,
           agreement <= 100 - drop
    PROVE  /\ (e - x) * 100 <= drop * e <=> x * 100 >= (100 - drop) * e
           /\ x * 100 >= (100 - drop) * e => x * 100 >= agreement * e
<1>1. (100 - drop) * e = 100 * e - drop * e
  OBVIOUS
<1>2. (e - x) * 100 = 100 * e - x * 100
  OBVIOUS
<1>3. drop * e \in Nat
  OBVIOUS
<1>4. agreement * e <= (100 - drop) * e
  <2>1. PICK r \in Nat : 100 - drop = agreement + r
    <3>1. 100 - drop - agreement \in Nat /\ 100 - drop = agreement + (100 - drop - agreement)
      OBVIOUS
    <3> QED
      BY <3>1
  <2>2. (agreement + r) * e = agreement * e + r * e
    OBVIOUS
  <2>3. r * e \in Nat /\ agreement * e \in Nat
    OBVIOUS
  <2> QED
    BY <2>1, <2>2, <2>3
<1>5. agreement * e \in Nat /\ (100 - drop) * e \in Nat
  OBVIOUS
<1> QED
  BY <1>1, <1>2, <1>3, <1>4, <1>5

LEMMA Remainders ==
    ASSUME NEW n \in Nat, NEW p \in Nat \ {0}
    PROVE  /\ n % p \in 0..(p - 1) /\ (n % p) % p = n % p
           /\ n < p => n % p = n
           /\ p % p = 0 /\ 0 % p = 0
OBVIOUS

-----------------------------------------------------------------------------
(* The theorems                                                            *)

\* The pilot never leaves its types, for any sample counts.
THEOREM TypeCorrect == Spec => []TypeOK
<1>1. Init => Placed
  BY InitPlaced
<1>2. Placed /\ [Next]_vars => Placed'
  BY PlacedNext
<1>3. Placed => TypeOK
  BY DEF Placed
<1> QED
  BY <1>1, <1>2, <1>3, PTL DEF Spec

\* What a pilot leaves behind, also when it fails or is killed, is complete up
\* to the last record.
THEOREM WhatIsLeftIsComplete == Spec => []PrefixOnDisk
<1>1. Init => Placed /\ Kept
  BY InitPlaced DEF Init, Kept, PrefixOnDisk, Fresh, Active, Published, Past
<1>2. Placed /\ Kept /\ [Next]_vars => (Placed /\ Kept)'
  BY PlacedNext, KeptNext
<1>3. Kept => PrefixOnDisk
  BY DEF Kept
<1> QED
  BY <1>1, <1>2, <1>3, PTL DEF Spec

\* A later pilot writes nothing to the directory of an earlier one.
THEOREM EarlierPilotUntouched == Spec => LaterPilotInert
<1>1. Init => Placed /\ Kept
  BY InitPlaced DEF Init, Kept, PrefixOnDisk, Fresh, Active, Published, Past
<1>2. Placed /\ Kept /\ [Next]_vars => (Placed /\ Kept)'
  BY PlacedNext, KeptNext
<1>3. ASSUME Placed, Kept, [Next]_vars, disk.owner \notin {0, run.attempt}
      PROVE  UNCHANGED disk
  <2>1. run.pc \notin {"write", "dataset"}
    BY <1>3 DEF Kept, Active
  <2>2. CASE Stage
    BY <1>3, <2>1, <2>2, Frames DEF CreateOutput, WriteRecord, WriteDatasetFile, At
  <2>3. CASE Fail \/ StartAgain
    BY <1>3, <2>3, Restarts
  <2>4. CASE Others
    BY <1>3, <2>4, Meddlings
  <2>5. CASE UNCHANGED vars
    BY <2>5 DEF vars
  <2> QED
    BY <1>3, <2>2, <2>3, <2>4, <2>5 DEF Next, Others
<1>4. Placed /\ Kept /\ [Next]_vars =>
        [disk.owner \notin {0, run.attempt} => UNCHANGED disk]_vars
  BY <1>3
<1> QED
  BY <1>1, <1>2, <1>4, PTL DEF Spec, LaterPilotInert
-----------------------------------------------------------------------------
(* The output directory implements EvidenceDirectory                       *)

\* Who has not made the directory yet does not have it.
Newcomer ==
    /\ disk.owner <= run.attempt
    /\ run.pc = "start" => disk.owner < run.attempt

Replies == [a \in 1..Attempts |-> Said(a)]
Owner == IF disk.owner = 0 THEN None ELSE disk.owner

\* Where stages lead, as far as the answers tell.
LEMMA Endings ==
    ASSUME Placed, Stage
    PROVE  /\ run.pc \notin Over /\ run'.attempt = run.attempt /\ run'.pc # "start"
           /\ CreateOutput \/ WriteRecord \/ run'.pc \notin Over \/ run'.pc = "failed"
           /\ WriteRecord /\ run'.pc # "failed" =>
                 /\ run'.pc \in Over => run'.pc = "completed" /\ run.n + 1 = 17
<1>1. Position /\ Steps
  BY Moves DEF Placed
<1>2. run.n \in 0..17 /\ Position
  BY DEF Placed, TypeOK, Run
<1>3. run.pc \notin Over
  BY StageActive DEF Active, Over
<1>4. CASE WriteRecord
  <2>1. \/ run'.pc = "failed"
        \/ run'.pc = AfterRecord(run.n + 1)
    <3>1. run.pc = "write" /\ (run' = [Enter(AfterRecord(run.n + 1)) EXCEPT !.n = run.n + 1]
                               \/ Stopped("failed"))
      BY <1>4 DEF WriteRecord, At
    <3>2. run \in Run
      BY DEF Placed, TypeOK
    <3>3. AfterRecord(run.n + 1) \in Active \cup Over
      BY <1>2, <3>1 DEF Position, AfterRecord, Active, Over
    <3> QED
      BY <3>1, <3>2, <3>3, Entering, Stopping DEF Run, Placed
  <2>2. run.n + 1 \in 1..17
    BY <1>2, <1>4 DEF Position, WriteRecord, At
  <2> QED
    BY <1>1, <1>3, <1>4, <2>1, <2>2 DEF Steps, AfterRecord, Over
<1>5. CASE ~ WriteRecord
  BY <1>1, <1>3, <1>5 DEF Steps, Round, AfterDatasetFile, Over
<1> QED
  BY <1>4, <1>5

LEMMA NewcomerKept ==
    ASSUME Placed, Newcomer, [Next]_vars
    PROVE  Newcomer'
<1>1. disk.owner \in Nat /\ run.attempt \in Nat
  BY PilotAssumption DEF PilotAssumption, Placed, TypeOK, Run
<1>2. CASE Stage
  <2>1. disk'.owner \in {disk.owner, run.attempt}
    BY <1>2, Frames DEF CreateOutput, WriteRecord, WriteDatasetFile, Placed, TypeOK
  <2> QED
    BY <1>1, <1>2, <2>1, Endings DEF Newcomer
<1>3. CASE Fail
  BY <1>1, <1>3, Stopping DEF Fail, Placed, Newcomer
<1>4. CASE StartAgain
  BY <1>1, <1>4 DEF StartAgain, Fresh, Newcomer
<1>5. CASE Others
  BY <1>5, Meddlings DEF Newcomer
<1> QED
  BY <1>2, <1>3, <1>4, <1>5 DEF Next, Others, vars, Newcomer

\* What a step does to the answers.
LEMMA RepliesOf ==
    ASSUME TypeOK, run.pc \notin Over, run'.attempt = run.attempt
    PROVE  /\ Replies[run.attempt] = "none" /\ run.attempt \in 1..Attempts
           /\ run'.pc \notin Over => Replies' = Replies
           /\ run'.pc \in Over => Replies' = [Replies EXCEPT ![run.attempt] = run'.pc]
<1>1. run.attempt \in 1..Attempts /\ Attempts \in Nat
  BY PilotAssumption DEF PilotAssumption, TypeOK, Run
<1>2. Replies' = [a \in 1..Attempts |-> Said(a)']
  BY DEF Replies
<1> QED
  BY <1>1, <1>2 DEF Replies, Said

\* Each stage is a step on the abstract directory, or none.
LEMMA StageImplements ==
    ASSUME Placed, Kept, Newcomer, Stage
    PROVE  [Evidence!AbstractNext]_(Evidence!avars)
<1> DEFINE w == run.attempt
<1>1. /\ Replies[w] = "none" /\ w \in 1..Attempts /\ w # 0
      /\ run'.pc \notin Over => Replies' = Replies
      /\ run'.pc \in Over => Replies' = [Replies EXCEPT ![w] = run'.pc]
  BY Endings, RepliesOf DEF Placed
<1>2. disk \in [owner: 0..Attempts, dataset: SUBSET (1..5), records: SUBSET Records]
      /\ None \notin Nat /\ Attempts \in Nat
  BY PilotAssumption DEF PilotAssumption, Placed, TypeOK
<1>3. CASE CreateOutput
  <2>1. CASE Owner # None
    <3>1. run'.pc = "refused" /\ disk' = disk /\ disk.owner # 0 /\ disk.owner < w
      BY <1>1, <1>2, <1>3, <2>1, Entering
         DEF CreateOutput, Owner, Goto, Enter, At, Newcomer, Over, Placed, TypeOK
    <3>2. Owner \notin {None, w} /\ Owner' = Owner
      BY <1>1, <1>2, <2>1, <3>1 DEF Owner
    <3>3. Evidence!Refuse(w)
      BY <1>1, <3>1, <3>2 DEF Evidence!Refuse, Evidence!Waiting, Evidence!Tell, Replies, Owner, Over
    <3> QED
      BY <1>1, <3>3 DEF Evidence!AbstractNext
  <2>2. CASE Owner = None
    <3>1. disk.owner = 0 /\ disk'.records = disk.records
      <4>1. disk.owner = 0
        BY <1>2, <2>2 DEF Owner
      <4>2. disk' = disk \/ disk' = [disk EXCEPT !.owner = w]
        BY <1>3 DEF CreateOutput
      <4> QED
        BY <1>2, <4>1, <4>2
    <3>2. \/ disk' = disk /\ run'.pc = "uncreated"
          \/ disk'.owner = w /\ run'.pc \in {"inspect", "uncreated"}
      <4>1. run \in Run
        BY DEF Placed, TypeOK
      <4>2. \/ disk' = disk /\ run' = Enter("uncreated")
            \/ disk' = [disk EXCEPT !.owner = w] /\ run' = Enter("uncreated")
            \/ /\ disk' = [disk EXCEPT !.owner = w]
               /\ \E c \in Counts :
                     run' = [Enter("inspect") EXCEPT !.cal = c[1], !.eva = c[2]]
        BY <1>3, <3>1 DEF CreateOutput, Goto
      <4>3. /\ Enter("uncreated").pc = "uncreated" /\ Enter("inspect") \in Run
            /\ Enter("inspect").pc = "inspect"
        BY <4>1, Entering DEF Active, Over
      <4>4. \A x, y : [Enter("inspect") EXCEPT !.cal = x, !.eva = y].pc = "inspect"
        BY <4>3 DEF Run
      <4>5. [disk EXCEPT !.owner = w].owner = w
        BY <1>2
      <4>6. CASE disk' = [disk EXCEPT !.owner = w] /\ run' = Enter("uncreated")
        BY <4>3, <4>5, <4>6
      <4>7. ASSUME NEW c \in Counts, disk' = [disk EXCEPT !.owner = w],
                   run' = [Enter("inspect") EXCEPT !.cal = c[1], !.eva = c[2]]
            PROVE  disk'.owner = w /\ run'.pc = "inspect"
        BY <4>4, <4>5, <4>7
      <4> QED
        BY <4>2, <4>3, <4>6, <4>7
    <3>3. CASE disk' = disk /\ run'.pc = "uncreated"
      <4>1. Evidence!GiveUp(w)
        BY <1>1, <3>3 DEF Evidence!GiveUp, Evidence!Waiting, Evidence!Tell, Replies, Over
      <4> QED
        BY <1>1, <4>1 DEF Evidence!AbstractNext
    <3>4. CASE disk'.owner = w /\ run'.pc \in {"inspect", "uncreated"}
      <4>1. Owner' = w
        BY <1>1, <3>4 DEF Owner
      <4>2. Replies' = Replies \/ Replies' = [Replies EXCEPT ![w] = "uncreated"]
        BY <1>1, <3>4 DEF Over
      <4>3. Evidence!Acquire(w)
        BY <1>1, <2>2, <3>1, <4>1, <4>2
           DEF Evidence!Acquire, Evidence!Waiting, Evidence!Tell, Replies, Owner
      <4> QED
        BY <1>1, <4>3 DEF Evidence!AbstractNext
    <3> QED
      BY <3>2, <3>3, <3>4
  <2> QED
    BY <2>1, <2>2
<1>4. CASE WriteRecord
  <2> DEFINE i == run.n + 1
  <2>1. run.pc = "write" /\ disk' = [disk EXCEPT !.records = @ \cup {i}]
    BY <1>4 DEF WriteRecord, At
  <2>2. disk.owner = w /\ disk.records = 1..run.n /\ run.n \in 0..16
    BY <2>1 DEF Kept, Active, Placed, Position
  <2>3. i \in 1..17 /\ disk.records = 1..(i - 1)
    BY <2>2
  <2>4. disk'.records = 1..i /\ disk'.owner = disk.owner
    <3>1. \A n \in Nat : 1..n \cup {n + 1} = 1..(n + 1)
      OBVIOUS
    <3>2. disk'.records = disk.records \cup {i} /\ disk'.owner = disk.owner
      BY <1>2, <2>1
    <3>3. run.n \in Nat /\ disk.records = 1..run.n
      BY <2>2
    <3> QED
      BY <3>1, <3>2, <3>3
  <2>5. Owner = w /\ Owner' = w
    BY <1>1, <2>2, <2>4 DEF Owner
  <2>6. Len(RecordName) = 17
    BY DEF RecordName
  <2>7. \/ Replies' = Replies
        \/ Replies' = [Replies EXCEPT ![w] = "failed"]
        \/ i = 17 /\ Replies' = [Replies EXCEPT ![w] = "completed"]
    BY <1>1, <1>4, Endings
  <2> HIDE DEF i
  <2>8. Evidence!AppendRecord(w, i)
    BY <1>1, <2>3, <2>4, <2>5, <2>6, <2>7
       DEF Evidence!AppendRecord, Evidence!Waiting, Evidence!Tell, Replies, Owner
  <2> QED
    BY <1>1, <2>3, <2>6, <2>8 DEF Evidence!AbstractNext
<1>5. CASE ~ CreateOutput /\ ~ WriteRecord
  <2>1. disk'.owner = disk.owner /\ disk'.records = disk.records /\ Owner' = Owner
    BY <1>2, <1>5, Frames DEF WriteDatasetFile, Owner
  <2>2. CASE run'.pc \notin Over
    BY <1>1, <2>1, <2>2 DEF Evidence!avars, Replies, Owner
  <2>3. CASE run'.pc = "failed"
    <3>1. Evidence!GiveUp(w)
      BY <1>1, <2>1, <2>3
         DEF Evidence!GiveUp, Evidence!Waiting, Evidence!Tell, Replies, Owner, Over
    <3> QED
      BY <1>1, <3>1 DEF Evidence!AbstractNext
  <2> QED
    BY <1>5, <2>2, <2>3, Endings
<1> QED
  BY <1>3, <1>4, <1>5

\* The output directory of a pilot is numbered, complete when the pilot says
\* so, and never written to by another one: it is an EvidenceDirectory, like
\* that of a production run.
THEOREM Refinement == Spec => Implements
<1>1. Init => Placed /\ Kept /\ Newcomer
  BY InitPlaced DEF Init, Kept, PrefixOnDisk, Fresh, Active, Published, Past, Newcomer
<1>2. Placed /\ Kept /\ Newcomer /\ [Next]_vars => (Placed /\ Kept /\ Newcomer)'
  BY PlacedNext, KeptNext, NewcomerKept
<1>3. Init => Evidence!AbstractInit
  BY DEF Init, Fresh, Said, Over, Evidence!AbstractInit
<1>4. Placed /\ Kept /\ Newcomer /\ [Next]_vars => [Evidence!AbstractNext]_(Evidence!avars)
  <2> SUFFICES ASSUME Placed, Kept, Newcomer, [Next]_vars
               PROVE  [Evidence!AbstractNext]_(Evidence!avars)
    OBVIOUS
  <2> DEFINE w == run.attempt
  <2>1. CASE UNCHANGED <<disk, run>>
    BY <2>1 DEF Evidence!avars, Said
  <2>2. CASE Fail
    <3>1. /\ run.pc \notin Over /\ run'.attempt = w /\ run'.pc = "failed" /\ UNCHANGED disk
      BY <2>2, Stopping DEF Fail, Active, Over, Placed
    <3>2. /\ Replies[w] = "none" /\ w \in 1..Attempts
          /\ Replies' = [Replies EXCEPT ![w] = "failed"]
      BY <3>1, RepliesOf DEF Placed, Over
    <3>3. Evidence!GiveUp(w)
      BY <3>1, <3>2 DEF Evidence!GiveUp, Evidence!Waiting, Evidence!Tell, Replies
    <3> QED
      BY <3>2, <3>3 DEF Evidence!AbstractNext
  <2>3. CASE StartAgain
    <3>1. w \in 1..Attempts /\ Attempts \in Nat
      BY PilotAssumption DEF PilotAssumption, Placed, TypeOK, Run
    <3>2. /\ run.pc \in Over /\ UNCHANGED disk
          /\ run'.pc = "start" /\ run'.attempt = w + 1
      BY <2>3 DEF StartAgain, Fresh
    <3>3. Replies[w] # "none"
      BY <3>1, <3>2 DEF Replies, Said, Over
    <3>4. Replies' = [a \in 1..Attempts |-> Said(a)']
      BY DEF Replies
    <3>5. Replies' = [Replies EXCEPT ![w] = "gone"]
      <4> SUFFICES ASSUME NEW a \in 1..Attempts
                   PROVE  Said(a)' = IF a = w THEN "gone" ELSE Replies[a]
        BY <3>4 DEF Replies
      <4>1. a \in Int /\ w \in Int
        BY <3>1
      <4>2. Replies[a] = Said(a)
        BY DEF Replies
      <4> QED
        BY <3>2, <4>1, <4>2 DEF Said, Over
    <3>6. Evidence!Forget(w)
      BY <3>1, <3>2, <3>3, <3>5 DEF Evidence!Forget, Evidence!Waiting, Evidence!Tell, Replies
    <3> QED
      BY <3>1, <3>6 DEF Evidence!AbstractNext
  <2>4. CASE Others
    BY <2>1, <2>4, Meddlings
  <2> QED
    BY <2>1, <2>2, <2>3, <2>4, StageImplements DEF Next, Others, vars
<1> QED
  BY <1>1, <1>2, <1>3, <1>4, PTL DEF Spec, Implements, Evidence!AbstractSpec

LEMMA Undisturbed ==
    ASSUME IInv, meddling.all = 0, NEW i \in Images
    PROVE  Changed(i) = 0
<1>1. /\ meddling.image \in [Images -> 0..MaxChanges] /\ meddling.image[i] <= 0
  BY DEF IInv, TypeOK, Counted, Changed
<1> QED
  BY <1>1, PilotAssumption DEF Changed, PilotAssumption

LEMMA Whole ==
    ASSUME IInv, run.pc \in Active \cup {"completed"}
    PROVE  Evaluation \subseteq Images
<1>1. <<run.cal, run.eva>> \in Counts
  BY DEF IInv, Position
<1>2. run.cal \in Nat /\ run.eva \in Nat /\ run.cal + run.eva \in Images
  BY <1>1, CountFacts
<1> QED
  BY <1>2, PilotAssumption DEF Evaluation, Images, PilotAssumption

\* What the calibrator got before the model was recorded is the selection,
\* whole and in its order.
THEOREM CalibrationIsSelection == Spec => []CalibratedOnSelection
<1>1. ASSUME IInv, run.n >= 12
      PROVE  /\ Len(data.fed) = run.cal
             /\ \A i \in Calibration : meddling.image[i] = 0 =>
                   data.fed[i + 1] = data.digest[i]
  <2>r. run.n \in 0..17 /\ run.cal \in Images
    BY <1>1 DEF IInv, TypeOK, Run
  <2>1. Calibrated /\ run.cal \in Nat
    <3>1. run.n > 11
      BY <1>1, <2>r
    <3>2. run.cal \in Nat
      BY <2>r, PilotAssumption DEF Images, PilotAssumption
    <3> QED
      BY <3>1, <3>2 DEF Calibrated, Past
  <2>2. Len(data.fed) = run.cal
    BY <1>1, <2>1 DEF IInv, Fed
  <2>3. ASSUME NEW i \in Calibration, meddling.image[i] = 0
        PROVE  data.fed[i + 1] = data.digest[i]
    <3>1. i + 1 \in 1..Len(data.fed) /\ (i + 1) - 1 = i
      BY <2>1, <2>2 DEF Calibration
    <3> QED
      BY <1>1, <2>1, <2>3, <3>1 DEF IInv, Fed, Changed
  <2> QED
    BY <2>2, <2>3
<1>2. IInv => CalibratedOnSelection
  BY <1>1 DEF CalibratedOnSelection
<1> QED
  BY <1>2, Invariant, PTL

\* The labels are those of the recorded images and, like the quantized model,
\* come from the recorded source model, unless a file was changed twice.
THEOREM LabelsOfTheRecord == Spec => []LabelsOfRecorded
<1>1. ASSUME IInv
      PROVE  /\ run.n >= 10 => Revalidated /\ run.pc # "validateEva"
             /\ run.n >= 12 => SourceVerified
             /\ run.n >= 13 => Fp32Verified
  <2>1. run.n \in 0..17
    BY <1>1 DEF IInv, TypeOK, Run
  <2> QED
    BY <1>1, <2>1 DEF IInv, Position, Revalidated, SourceVerified, Fp32Verified, Past
<1>2. ASSUME IInv, run.n >= 10, NEW i \in Evaluation, meddling.image[i] < 2
      PROVE  data.labelled[i] = data.digest[i]
  <2>1. i \in Done("validateEva", Revalidated)
    BY <1>1, <1>2 DEF Done
  <2> QED
    BY <1>2, <2>1 DEF IInv, LabelsKept, Changed
<1>3. ASSUME IInv, meddling.source < 2
      PROVE  /\ run.n >= 12 => data.labeller = "fp32"
             /\ run.n >= 13 => data.base = "fp32"
  BY <1>1, <1>3 DEF IInv, SourceKept, Swaps
<1>4. IInv => LabelsOfRecorded
  BY <1>2, <1>3 DEF LabelsOfRecorded
<1> QED
  BY <1>4, Invariant, PTL

\* Where a pilot is from its thirteenth record on, and what it holds then.
LEMMA Evaluated ==
    ASSUME IInv, run.n >= 13, Swaps = 0, NEW i \in Evaluation, Changed(i) = 0
    PROVE  /\ i \in Images /\ data.label[i] = Says("fp32", i)[1]
           /\ Says("fp32", i) \in Rankings
           /\ Good(Fp32(i)) => Fp32(i) = Says("fp32", i)
           /\ data.digest[i] # None /\ image[i] = data.digest[i]
<1>1. run.n \in 0..17 /\ run \in Run
  BY DEF IInv, TypeOK, Run
<1>2. run.pc \in Active \cup {"completed"}
  BY <1>1 DEF IInv, Position, Run, Active, Over
<1>3. run.pc \notin {"label", "runFp32", "start", "inspect", "draw", "digest"}
  BY DEF IInv, Position
<1>4. Labelled /\ Fp32Done /\ Drawn
  BY <1>1, <1>3 DEF Labelled, Fp32Done, Drawn, Past
<1>5. i \in Done("label", Labelled) /\ i \in Done("runFp32", Fp32Done)
  BY <1>3, <1>4 DEF Done
<1>6. run.cal \in Nat \ {0} /\ run.eva \in Nat \ {0} /\ run.cal + run.eva \in Images
  <2>1. <<run.cal, run.eva>> \in Counts
    BY <1>2 DEF IInv, Position
  <2> QED
    BY <2>1, CountFacts
<1>7. i \in Samples /\ i \in Images
  BY <1>6, PilotAssumption DEF Evaluation, Samples, Images, PilotAssumption
<1>8. data.digest[i] # None /\ image[i] = data.digest[i]
  BY <1>4, <1>7 DEF IInv, Digested
<1>9. Says("fp32", i) # None /\ data.label[i] = Says("fp32", i)[1]
  BY <1>5 DEF IInv, Answered
<1>10. Good(Fp32(i)) => Fp32(i) = Says("fp32", i)
  BY <1>5 DEF IInv, Answered
<1>11. Says("fp32", i) \in Rankings
  <2>1. data.digest[i] \in Contents
    BY <1>7, <1>8 DEF IInv, TypeOK, Data
  <2> QED
    BY <1>9, <2>1 DEF Says, IInv, TypeOK
<1> QED
  BY <1>7, <1>8, <1>9, <1>10, <1>11

\* The FP32 model is right on every labelled sample it answers.
THEOREM LabelsAreRight == Spec => []LabelsRight
<1>1. ASSUME IInv, run.n >= 13, meddling.source = 0, NEW i \in Evaluation,
             meddling.image[i] = 0, Good(Fp32(i))
      PROVE  Top1Is(Fp32(i), data.label[i])
  BY <1>1, Evaluated DEF Swaps, Changed, Top1Is
<1>2. IInv => LabelsRight
  BY <1>1 DEF LabelsRight
<1> QED
  BY <1>2, Invariant, PTL

\* Past the overlap all images differ, whatever the counts and the period.
THEOREM AllImagesDiffer == Spec => []SamplesDistinct
<1>1. ASSUME IInv, run.n >= 11, meddling.all = 0,
             NEW i \in Calibration \cup Evaluation, NEW j \in Calibration \cup Evaluation,
             image[i] = image[j]
      PROVE  i = j
  <2>1. run \in Run /\ run.n \in 0..17
    BY <1>1 DEF IInv, TypeOK, Run
  <2>2. run.pc \in Active \cup {"completed"} /\ Separate /\ Drawn
    BY <1>1, <2>1 DEF IInv, Position, Run, Active, Over, Separate, Drawn, Past
  <2>3. run.cal \in Nat \ {0} /\ run.eva \in Nat \ {0} /\ run.cal + run.eva \in Images
    <3>1. <<run.cal, run.eva>> \in Counts
      BY <1>1, <2>2 DEF IInv, Position
    <3> QED
      BY <3>1, CountFacts
  <2>p. Period \in Nat \ {0} /\ MaxImages \in Nat
    BY PilotAssumption DEF PilotAssumption
  <2>4. /\ Calibration \cup Evaluation \subseteq Samples /\ Samples \subseteq Images
    BY <2>3, <2>p DEF Calibration, Evaluation, Samples, Images
  <2>5. \A s \in Samples : data.digest[s] = Pattern(s) /\ image[s] = Pattern(s)
    <3> SUFFICES ASSUME NEW s \in Samples
                 PROVE  data.digest[s] = Pattern(s) /\ image[s] = Pattern(s)
      OBVIOUS
    <3>1. s \in Images /\ data.digest[s] # None
      BY <1>1, <2>2, <2>4 DEF IInv, Digested
    <3>2. Changed(s) = 0
      BY <1>1, <2>p, <3>1, Undisturbed
    <3> QED
      BY <1>1, <3>1, <3>2 DEF IInv, Digested, Patterns
  <2>6. \A c \in Calibration, e \in Evaluation : Pattern(c) # Pattern(e)
    BY <1>1, <2>2, <2>4, <2>5 DEF IInv, Patterns
  <2>7. run.cal + run.eva <= Period
    <3> SUFFICES ASSUME run.cal + run.eva > Period PROVE FALSE
      BY <2>3, <2>p
    <3>1. CASE run.cal <= Period
      <4>1. 0 \in Calibration /\ Period \in Evaluation
        BY <2>3, <2>p, <3>1 DEF Calibration, Evaluation
      <4> QED
        BY <2>6, <2>p, <4>1, Remainders DEF Pattern
    <3>2. CASE run.cal > Period
      <4>1. run.cal % Period \in 0..(Period - 1) /\ (run.cal % Period) % Period = run.cal % Period
        BY <2>3, <2>p, Remainders
      <4>2. run.cal % Period \in Calibration /\ run.cal \in Evaluation
        BY <2>3, <2>p, <3>2, <4>1 DEF Calibration, Evaluation
      <4> QED
        BY <2>6, <4>1, <4>2 DEF Pattern
    <3> QED
      BY <2>3, <2>p, <3>1, <3>2
  <2>8. Pattern(i) = i /\ Pattern(j) = j
    <3>1. \A s \in Samples : s \in Nat /\ s < Period
      BY <2>3, <2>7, <2>p DEF Samples
    <3> QED
      BY <2>4, <2>p, <3>1, Remainders DEF Pattern
  <2> QED
    BY <1>1, <2>4, <2>5, <2>8
<1>2. IInv => SamplesDistinct
  BY <1>1 DEF SamplesDistinct
<1> QED
  BY <1>2, Invariant, PTL

\* The verdict is what the two models call for, for every threshold.
THEOREM VerdictIsDeserved == Spec => []VerdictDeserved
<1> DEFINE Of(m, i) == answer[m][Pattern(i)]
           Best(i) == Of("fp32", i)[1]
           Same1 == {i \in Evaluation : Top1Is(Of("int8", i), Best(i))}
           Same5 == {i \in Evaluation : Top5Has(Of("int8", i), Best(i))}
           AllGood == \A i \in Evaluation : Good(Fp32(i)) /\ Good(Int8(i))
           Enough(S, drop) == Cardinality(S) * 100 >= (100 - drop) * run.eva
           Deserved == /\ data.small /\ AllGood
                       /\ Enough(Same1, MaxTop1Drop) /\ Enough(Same5, MaxTop5Drop)
<1>1. ASSUME IInv, run.n >= 15, meddling.all = 0
      PROVE  data.passed <=> Deserved
  <2>1. run \in Run /\ run.n \in 0..17
    BY <1>1 DEF IInv, TypeOK, Run
  <2>2. run.pc \in Active \cup {"completed"} /\ Compared /\ Int8Done /\ run.pc # "runInt8"
    BY <1>1, <2>1 DEF IInv, Position, Run, Active, Over, Compared, Int8Done, Past
  <2>3. run.cal \in Nat \ {0} /\ run.eva \in Nat \ {0}
    <3>1. <<run.cal, run.eva>> \in Counts
      BY <1>1, <2>2 DEF IInv, Position
    <3> QED
      BY <3>1, CountFacts
  <2>4. data.passed <=> Overall
    BY <1>1, <2>2 DEF IInv, Judged
  <2>5. Swaps = 0
    BY <1>1, PilotAssumption DEF IInv, Counted, Swaps, TypeOK, PilotAssumption
  <2>6. ASSUME NEW i \in Evaluation
        PROVE  /\ data.label[i] = Best(i) /\ Of("fp32", i) \in Rankings
               /\ Good(Fp32(i)) => Fp32(i) = Of("fp32", i)
               /\ Good(Int8(i)) => Int8(i) = Of("int8", i)
    <3>1. i \in Images /\ Changed(i) = 0
      <4>1. i \in Images
        BY <2>2, <2>3, <1>1, Whole
      <4> QED
        BY <1>1, <4>1, Undisturbed
    <3>2. /\ data.label[i] = Says("fp32", i)[1] /\ Says("fp32", i) \in Rankings
          /\ Good(Fp32(i)) => Fp32(i) = Says("fp32", i)
          /\ data.digest[i] # None /\ image[i] = data.digest[i]
      BY <1>1, <2>1, <2>5, <3>1, Evaluated
    <3>3. data.digest[i] = Pattern(i)
      BY <1>1, <3>1, <3>2 DEF IInv, Patterns
    <3>4. Good(Int8(i)) => Int8(i) = Says("int8", i)
      BY <1>1, <2>2 DEF IInv, Answered, Done
    <3> QED
      BY <3>2, <3>3, <3>4 DEF Says
  <2>7. ASSUME AllGood
        PROVE  Overall <=> Deserved
    <3>1. ASSUME NEW i \in Evaluation
          PROVE  /\ Top1Is(Fp32(i), data.label[i]) /\ Top5Has(Fp32(i), data.label[i])
                 /\ Top1Is(Int8(i), data.label[i]) <=> Top1Is(Of("int8", i), Best(i))
                 /\ Top5Has(Int8(i), data.label[i]) <=> Top5Has(Of("int8", i), Best(i))
                 /\ Top1Is(Int8(i), Fp32(i)[1]) <=> Top1Is(Of("int8", i), Best(i))
      <4>1. Fp32(i) = Of("fp32", i) /\ Int8(i) = Of("int8", i) /\ Good(Fp32(i))
        BY <2>6, <2>7
      <4>2. 1 \in DOMAIN Fp32(i)
        <5>1. Fp32(i) \in Seq(Nat) /\ Fp32(i) # <<>>
          BY <2>6, <4>1, PilotAssumption DEF PilotAssumption
        <5> QED
          BY <5>1
      <4> QED
        BY <2>6, <4>1, <4>2 DEF Top1Is, Top5Has
    <3>2. /\ Correct1("runFp32") = Cardinality(Evaluation)
          /\ Correct5("runFp32") = Cardinality(Evaluation)
      <4>1. /\ {i \in Evaluation : Top1Is(data.outcome["runFp32"][i], data.label[i])} = Evaluation
            /\ {i \in Evaluation : Top5Has(data.outcome["runFp32"][i], data.label[i])} = Evaluation
        BY <3>1 DEF Fp32
      <4> QED
        BY <4>1 DEF Correct1, Correct5
    <3>3. /\ Correct1("runInt8") = Cardinality(Same1) /\ Correct5("runInt8") = Cardinality(Same5)
          /\ Agreed = Cardinality(Same1)
      <4>1. /\ {i \in Evaluation : Top1Is(data.outcome["runInt8"][i], data.label[i])} = Same1
            /\ {i \in Evaluation : Top5Has(data.outcome["runInt8"][i], data.label[i])} = Same5
            /\ {i \in Evaluation : Good(Fp32(i)) /\ Top1Is(Int8(i), Fp32(i)[1])} = Same1
        BY <2>7, <3>1 DEF Int8
      <4> QED
        BY <4>1 DEF Correct1, Correct5, Agreed
    <3>4. /\ Cardinality(Evaluation) = run.eva
          /\ Cardinality(Same1) \in Nat /\ Cardinality(Same5) \in Nat
      <4>1. IsFiniteSet(Evaluation) /\ Cardinality(Evaluation) = run.eva
        <5>1. /\ run.cal \in Int /\ run.cal + run.eva - 1 \in Int
              /\ ~ (run.cal > run.cal + run.eva - 1)
              /\ (run.cal + run.eva - 1) - run.cal + 1 = run.eva
          BY <2>3
        <5> QED
          BY <5>1, FS_Interval DEF Evaluation
      <4>2. Same1 \subseteq Evaluation /\ Same5 \subseteq Evaluation
        OBVIOUS
      <4> QED
        BY <4>1, <4>2, FS_Subset, FS_CardinalityType
    <3>5. /\ MaxTop1Drop \in 0..100 /\ MaxTop5Drop \in 0..100 /\ MinAgreement \in 0..100
          /\ MinAgreement <= 100 - MaxTop1Drop
      BY PilotAssumption DEF PilotAssumption
    <3>6. /\ (run.eva - Cardinality(Same1)) * 100 <= MaxTop1Drop * run.eva <=>
                Enough(Same1, MaxTop1Drop)
          /\ Enough(Same1, MaxTop1Drop) => Cardinality(Same1) * 100 >= MinAgreement * run.eva
      BY ZenonT(60), <2>3, <3>4, <3>5, Thresholds
    <3>7. (run.eva - Cardinality(Same5)) * 100 <= MaxTop5Drop * run.eva <=>
            Enough(Same5, MaxTop5Drop)
      <4>1. 0 \in 0..100 /\ 0 <= 100 - MaxTop5Drop
        BY <3>5
      <4> QED
        BY ZenonT(60), <2>3, <3>4, <3>5, <4>1, Thresholds
    <3> HIDE DEF Same1, Same5, Enough
    <3> QED
      BY <2>7, <3>2, <3>3, <3>4, <3>6, <3>7 DEF Overall
  <2>8. ~ AllGood => ~ Overall /\ ~ Deserved
    BY DEF Overall
  <2> QED
    BY <2>4, <2>7, <2>8
<1>2. IInv => VerdictDeserved
  BY <1>1 DEF VerdictDeserved
<1> QED
  BY <1>2, Invariant, PTL
=============================================================================
