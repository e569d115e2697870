----------------------------- MODULE ProductionRun -----------------------------
(***************************************************************************)
(* A formal production run (model_pipeline/production.py): a long sequence *)
(* of stages that reads the source model, two datasets and the Git         *)
(* revision, publishes an INT8 model and fourteen evidence records into an *)
(* output directory of its own, and retains a failure record when a stage  *)
(* fails.  The inputs are ordinary files that anything may change while    *)
(* the run goes on.  validate_production_evidence later decides from the   *)
(* directory alone whether the evidence may be packaged.                   *)
(*                                                                         *)
(* The content of a dataset is one value (the digests of all its samples), *)
(* and the digests a record carries are the values they were computed      *)
(* from.  Publishing a file is one step here, with the three outcomes that *)
(* ExclusivePublish shows: published, not published, and published with an *)
(* error.                                                                  *)
(***************************************************************************)
EXTENDS Naturals, Sequences

CONSTANTS
    Procs,       \* processes started on the same output directory
    Contents,    \* contents a dataset can have
    Declared,    \* the contents the two manifests were written for
    DigestGiven, \* datasets whose manifest declares the sample digests
    Source,      \* the source model the configuration declares
    Other,       \* any other file at the path of the source model
    Revisions,   \* revisions of the working tree
    Clean,       \* those that are clean commits
    None,
    MaxChanges   \* bound on what others change meanwhile

Inputs == {"cal", "eva", "model", "rev"}

ASSUME ProductionAssumption ==
    /\ Declared \in [{"cal", "eva"} -> Contents]
    /\ DigestGiven \subseteq {"cal", "eva"}
    /\ Source # Other
    /\ Clean \subseteq Revisions
    /\ None \notin Procs \cup Contents \cup Revisions \cup {Source, Other}
    /\ MaxChanges \in Nat

\* The records, in the order in which the run writes them.
RecordName == <<
    "pipeline-config", "source-model-config", "calibration-manifest",
    "evaluation-manifest", "source-inspection", "calibration-validation",
    "evaluation-validation", "overlap", "quantization", "fp32-evaluation",
    "int8-evaluation", "comparison", "production-report", "reproducibility">>
Records == DOMAIN RecordName
Report == 13

\* Where the run stands once it has written the i-th record.
Sequence ==
    [i \in Records |->
        CASE i = 4  -> "revision"
          [] i = 5  -> "validateCal"
          [] i = 7  -> "overlap"
          [] i = 8  -> "verifySource"
          [] i = 9  -> "verifyFp32"
          [] i = 10 -> "verifyInt8"
          [] i = 11 -> "compare"
          [] i = 12 -> "revalidate"
          [] i = 13 -> "environment"
          [] i = 14 -> "return"
          [] OTHER  -> "write"]

\* Faulty variant: the last record is not taken for the last.
AfterRecordLoop(i) == IF i \in 1..13 THEN Sequence[i] ELSE "write"

\* Faulty variant: after the comparison the run goes on to its report.
AfterRecordNoRecheck(i) == IF i = 12 THEN "write" ELSE Sequence[i]

AfterRecord(i) == Sequence[i]

Active == {"config", "revision", "inspect", "validateCal", "validateEva",
    "overlap", "verifySource", "prepare", "quantize", "publish", "verifyFp32",
    "openFp32", "runFp32", "verifyInt8", "openInt8", "runInt8", "compare",
    "revalidate", "revalidateEva", "endRevision", "environment", "write",
    "return"}

VARIABLES
    world,     \* the inputs as they are now
    past,      \* history: the values each input has had
    restored,  \* history: the inputs that got an earlier value back, and
               \* "int8" if the published model did
    changes,   \* changes so far
    disk,      \* the output directory
    run,       \* the state of each process
    verdict    \* what validate_production_evidence last said

vars == <<world, past, restored, changes, disk, run, verdict>>

Domain == [cal |-> Contents, eva |-> Contents, model |-> {Source, Other},
           rev |-> Revisions]
Values == Contents \cup Revisions \cup {Source, Other}

\* n records are written; seen is what was recorded of each input.  History:
\* used is what quantization and the evaluations really read of each input
\* (of the revision: what it was at the time; of the source model: for the
\* quantization), fp32 and opened are the source model and the INT8 model
\* that the two evaluations opened.
Run == [pc: Active \cup {"start", "failing", "done"}, n: Records \cup {0},
        seen: [Inputs -> Values \cup {None}],
        used: [Inputs -> SUBSET Values],
        fp32: Values \cup {None},
        opened: {"none", "whole", "damaged"},
        out: {"none", "completed", "failed", "refused", "uncreated", "killed"}]

TypeOK ==
    /\ world \in [Inputs -> Values]
    /\ \A k \in Inputs : world[k] \in past[k]
    /\ past \in [Inputs -> SUBSET Values]
    /\ restored \subseteq Inputs \cup {"int8"}
    /\ changes \in 0..MaxChanges
    /\ disk \in [owner: Procs \cup {None}, records: SUBSET Records,
                 int8: {"none", "whole", "damaged"},
                 failure: {None} \cup SUBSET Records]
    /\ run \in [Procs -> Run]
    /\ verdict \in {"none", "valid", "invalid"}

Init ==
    /\ world \in [Inputs -> Values]
    /\ \A k \in Inputs : world[k] \in Domain[k]
    /\ past = [k \in Inputs |-> {world[k]}]
    /\ restored = {}
    /\ changes = 0
    /\ disk = [owner |-> None, records |-> {}, int8 |-> "none", failure |-> None]
    /\ run = [p \in Procs |->
                [pc |-> "start", n |-> 0, seen |-> [k \in Inputs |-> None],
                 used |-> [k \in Inputs |-> {}], fp32 |-> None, opened |-> "none",
                 out |-> "none"]]
    /\ verdict = "none"

-----------------------------------------------------------------------------
At(p, l) == run[p].pc = l
Goto(p, l) == run' = [run EXCEPT ![p].pc = l]
End(p, o) == run' = [run EXCEPT ![p].pc = "done", ![p].out = o]
Note(p, k, l) == run' = [run EXCEPT ![p].seen[k] = world[k], ![p].pc = l]

\* Input k is read by a stage that does real work, at the revision of then.
Reads(u, k) == [j \in Inputs |-> IF j \in {k, "rev"} THEN u[j] \cup {world[j]} ELSE u[j]]
Read(p, k, l) == run' = [run EXCEPT ![p].used = Reads(@, k), ![p].pc = l]

Inside == UNCHANGED <<world, past, restored, changes, verdict>>
Pure == Inside /\ UNCHANGED disk

\* mkdir of the output, of its records and of its models directory.
CreateOutput(p) ==
    /\ At(p, "start")
    /\ \/ /\ disk.owner # None
          /\ End(p, "refused")
          /\ UNCHANGED disk
       \/ /\ disk.owner = None
          /\ disk' \in {disk, [disk EXCEPT !.owner = p]}
          /\ End(p, "uncreated")
       \/ /\ disk.owner = None
          /\ disk' = [disk EXCEPT !.owner = p]
          /\ Goto(p, "config")
    /\ Inside

LoadConfiguration(p) == At(p, "config") /\ Goto(p, "write") /\ Pure

\* write_canonical_json: the record is there and so is the answer, or it is
\* there and the caller hears of an error (see ExclusivePublish, "unsynced").
WriteRecord(p) ==
    /\ At(p, "write")
    /\ LET i == run[p].n + 1 IN
          /\ i \notin disk.records
          /\ disk' = [disk EXCEPT !.records = @ \cup {i}]
          /\ \/ run' = [run EXCEPT ![p].n = i, ![p].pc = AfterRecord(i)]
             \/ Goto(p, "failing")
    /\ Inside

CollectRevision(p) ==
    /\ At(p, "revision")
    /\ world["rev"] \in Clean
    /\ Note(p, "rev", "inspect")
    /\ Pure

InspectSource(p) ==
    /\ At(p, "inspect")
    /\ world["model"] = Source
    /\ Note(p, "model", "write")
    /\ Pure

\* validate_dataset: digests are compared where the manifest declares them.
MatchesManifest(k) == k \in DigestGiven => world[k] = Declared[k]

ValidateCalibration(p) ==
    /\ At(p, "validateCal")
    /\ MatchesManifest("cal")
    /\ Note(p, "cal", "validateEva")
    /\ Pure

ValidateEvaluation(p) ==
    /\ At(p, "validateEva")
    /\ MatchesManifest("eva")
    /\ Note(p, "eva", "write")
    /\ Pure

\* Faulty variant: the overlap is recorded and the run goes on.
ReportOverlap(p) == At(p, "overlap") /\ Goto(p, "write") /\ Pure

\* Two contents share a sample exactly if they are the same content.
RequireNoOverlap(p) ==
    /\ At(p, "overlap")
    /\ run[p].seen["cal"] # run[p].seen["eva"]
    /\ Goto(p, "write")
    /\ Pure

VerifySource(p) ==
    /\ At(p, "verifySource")
    /\ world["model"] = Source
    /\ Goto(p, "prepare")
    /\ Pure

\* The model is opened by its path again, after the check.
PrepareInput(p) == At(p, "prepare") /\ Read(p, "model", "quantize") /\ Pure

\* The calibration reader opens one sample after the other.
Quantize(p) ==
    /\ At(p, "quantize")
    /\ \E l \in {"quantize", "publish"} : Read(p, "cal", l)
    /\ Pure

PublishModel(p) ==
    /\ At(p, "publish")
    /\ disk.int8 = "none"
    /\ disk' = [disk EXCEPT !.int8 = "whole"]
    /\ Goto(p, "write") \/ Goto(p, "failing")
    /\ Inside

VerifyFp32(p) ==
    /\ At(p, "verifyFp32")
    /\ world["model"] = Source
    /\ Goto(p, "openFp32")
    /\ Pure

\* The session opens the model by its path again, after the check.
OpenFp32(p) ==
    /\ At(p, "openFp32")
    /\ run' = [run EXCEPT ![p].fp32 = world["model"], ![p].pc = "runFp32"]
    /\ Pure

RunFp32(p) ==
    /\ At(p, "runFp32")
    /\ \E l \in {"runFp32", "write"} : Read(p, "eva", l)
    /\ Pure

VerifyInt8(p) ==
    /\ At(p, "verifyInt8")
    /\ disk.int8 = "whole"
    /\ Goto(p, "openInt8")
    /\ Pure

\* The INT8 model, too, is opened by its path after the check.
OpenInt8(p) ==
    /\ At(p, "openInt8")
    /\ run' = [run EXCEPT ![p].opened = disk.int8, ![p].pc = "runInt8"]
    /\ Pure

RunInt8(p) ==
    /\ At(p, "runInt8")
    /\ \E l \in {"runInt8", "write"} : Read(p, "eva", l)
    /\ Pure

\* The result, accepted or rejected, decides nothing but the report's status.
Compare(p) == At(p, "compare") /\ Goto(p, "write") /\ Pure

Unchanged(p, k) == world[k] = run[p].seen[k]

RevalidateCalibration(p) ==
    /\ At(p, "revalidate")
    /\ MatchesManifest("cal") /\ Unchanged(p, "cal")
    /\ Goto(p, "revalidateEva")
    /\ Pure

RevalidateEvaluation(p) ==
    /\ At(p, "revalidateEva")
    /\ MatchesManifest("eva") /\ Unchanged(p, "eva")
    /\ Goto(p, "endRevision")
    /\ Pure

EndRevision(p) ==
    /\ At(p, "endRevision")
    /\ Unchanged(p, "rev")
    /\ Goto(p, "write")
    /\ Pure

CollectEnvironment(p) == At(p, "environment") /\ Goto(p, "write") /\ Pure

Return(p) == At(p, "return") /\ End(p, "completed") /\ Pure

\* Any stage may raise; where a guard above is false, it does.
Fail(p) ==
    /\ run[p].pc \in Active \ {"return"}
    /\ Goto(p, "failing")
    /\ Pure

\* Faulty variant: the records are counted, not looked up in the directory.
RetainCounted(p) ==
    /\ At(p, "failing")
    /\ disk' = [disk EXCEPT !.failure = 1..run[p].n]
    /\ End(p, "failed")
    /\ Inside

\* _retain_failure: names the records that are there, unless a failure is
\* on record already; an error in writing it is swallowed.
RetainFailure(p) ==
    /\ At(p, "failing")
    /\ disk' \in {disk} \cup (IF disk.failure = None
                              THEN {[disk EXCEPT !.failure = disk.records]} ELSE {})
    /\ End(p, "failed")
    /\ Inside

Kill(p) ==
    /\ run[p].pc \in Active \cup {"failing"}
    /\ End(p, "killed")
    /\ Pure

\* Somebody else changes an input.
Change(k, v) ==
    /\ changes < MaxChanges
    /\ v # world[k]
    /\ world' = [world EXCEPT ![k] = v]
    /\ past' = [past EXCEPT ![k] = @ \cup {v}]
    /\ restored' = IF v \in past[k] THEN restored \cup {k} ELSE restored
    /\ changes' = changes + 1
    /\ UNCHANGED <<disk, run, verdict>>

\* Somebody else puts another file in the place of the INT8 model, or puts
\* the model back.
Damage ==
    /\ changes < MaxChanges
    /\ \/ /\ disk.int8 = "whole"
          /\ disk' = [disk EXCEPT !.int8 = "damaged"]
          /\ UNCHANGED restored
       \/ /\ disk.int8 = "damaged"
          /\ disk' = [disk EXCEPT !.int8 = "whole"]
          /\ restored' = restored \cup {"int8"}
    /\ changes' = changes + 1
    /\ UNCHANGED <<world, past, run, verdict>>

\* Faulty variant: the records are checked and the model they name is not.
ValidateRecords ==
    /\ verdict' = IF disk.records = Records THEN "valid" ELSE "invalid"
    /\ UNCHANGED <<world, past, restored, changes, disk, run>>

\* validate_production_evidence, at any time.  The links between the records
\* hold because one process wrote them all; failure.json is not looked at.
Validate ==
    /\ verdict' = IF disk.records = Records /\ disk.int8 = "whole"
                  THEN "valid" ELSE "invalid"
    /\ UNCHANGED <<world, past, restored, changes, disk, run>>

Stage(p) ==
    \/ CreateOutput(p) \/ LoadConfiguration(p) \/ CollectRevision(p)
    \/ InspectSource(p) \/ ValidateCalibration(p) \/ ValidateEvaluation(p)
    \/ RequireNoOverlap(p) \/ VerifySource(p) \/ PrepareInput(p)
    \/ Quantize(p) \/ PublishModel(p) \/ VerifyFp32(p) \/ OpenFp32(p)
    \/ RunFp32(p) \/ VerifyInt8(p) \/ OpenInt8(p) \/ RunInt8(p) \/ Compare(p)
    \/ RevalidateCalibration(p) \/ RevalidateEvaluation(p) \/ EndRevision(p)
    \/ CollectEnvironment(p) \/ WriteRecord(p) \/ Return(p)

Next ==
    \/ \E p \in Procs : Stage(p) \/ Fail(p) \/ RetainFailure(p) \/ Kill(p)
    \/ \E k \in Inputs : \E v \in Domain[k] : Change(k, v)
    \/ Damage
    \/ Validate

Spec == Init /\ [][Next]_vars

-----------------------------------------------------------------------------
(* Properties                                                              *)

\* A process that reports a completed run leaves every record, a model and
\* no failure, whatever the other processes on that directory do.
EvidenceComplete ==
    \A p \in Procs : run[p].out = "completed" =>
        /\ disk.records = Records
        /\ disk.int8 # "none"
        /\ disk.failure = None

\* A retained failure names exactly the records the directory holds, also
\* the one whose publication reported the error, and for good.
FailureExact == disk.failure # None => disk.failure = disk.records

\* Once there is a report, each dataset, the source model that was quantized
\* and the revision that the stages worked with are the recorded ones, unless
\* that input was changed and changed back.  Nobody looks at the source model
\* again after it was opened for its evaluation: another one may have been
\* evaluated, but then its file still is another one, or was changed back.
UsedAsRecorded ==
    \A p \in Procs : run[p].n >= Report =>
        /\ \A k \in Inputs \ restored : run[p].used[k] = {run[p].seen[k]}
        /\ "model" \notin restored /\ world["model"] = run[p].seen["model"] =>
              run[p].fp32 = run[p].seen["model"]

\* Once there is a report, nothing the model was calibrated with was used to
\* evaluate it, unless a dataset was changed and changed back.
DisjointData ==
    \A p \in Procs : run[p].n >= Report /\ {"cal", "eva"} \cap restored = {} =>
        run[p].used["cal"] \cap run[p].used["eva"] = {}

\* Evidence that validates is about the model it contains: the one that was
\* evaluated, although that was opened by its path after its check, unless
\* the model was exchanged and put back in between.
ValidModelEvaluated ==
    verdict = "valid" /\ "int8" \notin restored =>
        \A p \in Procs : run[p].n = Len(RecordName) => run[p].opened = "whole"

\* Stated by the documentation of the pipeline, and false: a run that
\* reported a failure is not accepted as a completed run.
FailedNeverValid ==
    verdict = "valid" => \A p \in Procs : run[p].out # "failed"

\* The output directory is one that the pipeline may rely on, and what a
\* process reports of it is true, also with several processes started on it.
Evidence == INSTANCE EvidenceDirectory WITH
        Writers <- Procs, Size <- Len(RecordName), owner <- disk.owner,
        records <- disk.records, failure <- disk.failure,
        answer <- [p \in Procs |-> run[p].out]
Implements == Evidence!AbstractSpec
=============================================================================
