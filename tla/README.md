# A verification of rvai

`rvai` pulls ONNX models into a local cache, runs them, benchmarks an INT8 GEMM
natively and under QEMU, and contains a pipeline that quantizes MobileNetV2,
evaluates the result and packages the evidence. Nearly everything it promises is
about files: that no partial file is ever seen, that nothing is overwritten by
accident, that a record, a cache entry or a package is about the bytes it names.
Each command is a sequential program. What makes it hard is what happens
between two of its file operations: other commands on the same files, inputs
that change, errors, killed processes and losses of power. This directory
models those files and every step on them in TLA+, checks small instances with
TLC, and proves the most important results for all instances with TLAPS.

All paths below are relative to the Python package `src/rvai` of the repository
unless they start with `native/` or `docs/`.

## 1. Inventory

| Component | State it keeps | Operations | Interacts with | Hard part | Correct means |
|---|---|---|---|---|---|
| Artifact cache (`artifacts/`) | `<root>/<model>/<file>`, `artifact.json`, temporary files | `download`, `resolve`, `status`, `write_metadata` | `rvai pull`, `infer`, `show`, `check`; the registry | no lock; two files replaced one after the other; a file checked and opened later | a published file is complete and verified; a successful pull leaves a usable entry; infer runs the declared bytes |
| ONNX Runtime adapter (`adapters/onnxruntime.py`) | none | `infer` | cache (path), ONNX Runtime | opens by path what was verified earlier | as above |
| Canonical files (`model_pipeline/io.py`) | one file per record | `write_canonical_json` and the strict loaders | every pipeline stage | crash and power loss; concurrent publication; errors after publication | written once, whole, and the caller told the truth |
| Quantizer (`model_pipeline/quantize.py`, `calibration.py`) | the INT8 model; the reader's position | `quantize_static_qdq`, `get_next`, `rewind` | source model, dataset, ONNX Runtime | inputs read again after their check | the recorded inputs are those used |
| Production run (`model_pipeline/production.py`, `environment.py`) | output directory with 14 records, a model, `failure.json` | `run_production_pipeline`, `validate_production_evidence` | all of the pipeline, Git | some twenty stages, each may fail; inputs change meanwhile; concurrent starts | evidence complete or failure exact; calibration and evaluation data disjoint |
| Datasets (`model_pipeline/dataset.py`) | none | `validate_dataset`, `detect_dataset_overlap` | run | time between validation and use | as above |
| Inspection, evaluation, comparison (`inspect.py`, `evaluate.py`, `compare.py`) | none | `inspect_source_model`, `evaluate_model`, `compare_evaluations` | run | boundaries of counts and gates | counts and gates equal their definition |
| Evidence packages (`package.py`, `production_package.py`) | staging directory, destination directory | build, verify | run directory | validated and copied in two passes; publication of a tree; cleanup | the evidence of one run, never replaced |
| Benchmark runs (`adapters/builtin.py`, `results/store.py`) | result files, temporary files | `execute`, `parse_result`, `save_run_record`, `load_run_record` | benchmark program, targets | any program may be named; check-then-replace | no record lost; no record after an error |
| Record comparison (`results/compare.py`) | none | `compare_run_records` | result files | what records say of themselves | no ratio that means nothing |
| Dataset preparation (`dataset_prepare.py`) | output directory: two manifests and a record | `prepare_numeric_imagefolder_manifests` | image folder, production run (by its manifests) | the folder changes between listing, identifying and validating; three files published one after the other | deterministic, balanced, disjoint manifests; the record only with both |
| Synthetic pilot (`pilot.py`, `synthetic.py`) | run directory: seventeen records, images, five files of a dataset, a model | `run_synthetic_proxy_pilot` | datasets, quantizer, evaluation, comparison | labels come from a model and images that are read again later; nothing is validated again at the end; no failure record | labels, calibration and verdict belong to what is recorded; what is left behind is complete up to the last record |
| Benchmark program (`native/`) | none | GEMM, its verification, nearest-rank percentile | started by `run` | widths of integers, small counts | accepts exactly the right products, also where sums overflow; times what it verified; the rank is the nearest |
| Compatibility matcher (`compatibility/`) | none | `check` | Manifest, hardware profile | order of rules | equals its definition |
| Registry, hardware probe, planner, rendering, command line | none | read and print | | | |

The hazards found in this code, each at its line, are listed in `PROJECT.json`
with the properties that are aimed at them.

## 2. Modules

| Module | Models | Proofs |
|---|---|---|
| `ArtifactCache` | `rvai pull` and `rvai infer` on one cache directory | `ArtifactCacheProofs` |
| `WriteOnce` | abstract: a register set once, with truthful answers | |
| `ExclusivePublish` | `write_canonical_json`, publication by the quantizer; implements `WriteOnce` | `ExclusivePublishProofs` |
| `ProductionRun` | a formal run, its inputs and its output directory; implements `EvidenceDirectory` | `ProductionRunProofs` |
| `PilotRun` | a synthetic pilot, sample by sample: labels, calibration, both evaluations, the comparison; implements `EvidenceDirectory` | `PilotRunProofs` |
| `DatasetPreparation` | splitting an image folder into two manifests; implements `EvidenceDirectory` | `DatasetPreparationProofs` |
| `EvidencePackage` | building a package; implements `WriteOnce` | `EvidencePackageProofs` |
| `EvidenceDirectory` | abstract: a directory that one of several commands gets and fills, record by record | |
| `RunRecords` | `rvai run` and `rvai compare` on result files | `RunRecordsProofs` |
| `BenchmarkGemm` | the benchmark program, product by product | `BenchmarkGemmProofs` |

An `MC` module of each only gives names to model values for TLC. How the
modules fit together: `ProductionRun` takes the publication of a file as one
step with exactly the outcomes `ExclusivePublish` shows it to have, and so does
`DatasetPreparation`, whose manifests are the ones a production run declares,
and `PilotRun`, which runs the same stages as `ProductionRun` with the samples
that `ProductionRun` takes as one value;
`EvidencePackage` starts from a run directory as `ProductionRun` leaves it, and
`WriteOnce` is what both ways of publishing promise, and `EvidenceDirectory`
what the three commands promise that leave a directory of records.

### ArtifactCache

One action is one file-system operation, or a run of operations nobody else can
observe. `file` is the cache directory, one value for each path; `proc` the
state of each command: where it is (`pc`), the Manifest revision it loaded when
it started (`rev`), its temporary file. `--force` is looked at once, so it is
chosen in `CheckDestination`. That action,
`VerifyCached`, `EnsureMetadata`, `StatDestination`, `Receive`,
`VerifyDownload`, `ReplaceArtifact`, `WriteMetadataTemp`, `ReplaceMetadata` are
`ArtifactDownloader.download` from top to bottom, `DownloadFails`,
`MetadataFails`, `ReadFails` and `MetadataUnreadable` its error paths;
`StatusFile` to `LoadModel` are `rvai infer`. `EditManifest`, `Tamper` and
`Crash` are the environment.

Not every exception is turned into an error of the command. `download` catches
`URLError`, `TimeoutError` and `OSError`, and what else `http.client` raises
while the body is read escapes; so does the `UnicodeDecodeError` of a metadata
file that is no UTF-8, also from `ArtifactResolver.status`, and whatever
`exists` or `fromtimestamp` raise (`NothingCatches`). Such a command ends with
the outcome "uncaught", after its `finally` clauses.

What is abstracted: the digest and size of a content are the identity of the
content (SHA-256 has no collisions here), and a metadata record is the
revision it was written for. `artifact.json` is looked for and read in one
step. A truncated response is a `Junk` body or an error. `parts` counts the
temporary files of each command on the disk, independently of the name the
command remembers (`temp`): a file is added where it is created, and taken away
where it is renamed or where `Finish`, the `finally` clause, unlinks it. The
file system may refuse that `unlink`, and the code ignores it; such refusals
share the bound `MaxFaults` with kills and outside changes, and `struck` counts
refusals and kills for each command.

Properties: `NoPartialFile`, `PullDelivers`, `InferLoadsDeclared`,
`MetadataNeverAhead`, `NoTempLeak`, `CommandsEnd`, and, proved only,
`FailedPullKeepsFile`. `NoTempLeak` says that each command leaves at most as many
files behind as it was killed or refused an unlink, and breaks as soon as one
path to the end goes without the `finally` clause. The code coordinates nothing,
and pulls of two *different* revisions can leave the bytes of one under the
metadata of the other. `PullDelivers`,
`InferLoadsDeclared` and `MetadataNeverAhead` therefore say what holds while
others only work for the same revision (the case
`docs/model-artifacts.md` speaks of: "verified identical downloads may race").
The history variables `dirty` and `spoiled` say when that is. They are needed
only to state properties, like `struck`; no guard reads them.

### WriteOnce and ExclusivePublish

`ExclusivePublish` has one action per system call of `write_canonical_json`:
`mkstemp`, write, `fsync`, `link`, `unlink`, `fsync` of the directory. The
quantizer publishes the INT8 model by the same sequence; it looks for the
destination first (`Checking`). `Fail` may happen at every step and answers
"not published" or "published but not fully synchronized" as the code does.
`LosePower` may tear bytes that were not synced and take back directory entries
that were not. `WriteOnce` has no files: a value, what the disk is known to
hold, and the answers. The refinement mapping is `value <- entry`,
`durable <- kept`.

### EvidenceDirectory

What a reader of an output directory may rely on, whichever command wrote it.
The state is the owner, the numbers of the records that are there, the records
that a failure names, and what each command said. `Acquire`, `AppendRecord`,
`Complete`, `Refuse`, `GiveUp` and `Forget` are all that may happen: records
appear in their order and none is skipped, replaced or removed; only the owner
adds any, and only until it has given an answer or retained a failure;
"completed" is said of a full directory without a failure; a failure names the
records that are there. An error may be reported although the record is there,
and a command that could not set the directory up may still have made it.

`Implements` in `ProductionRun`, `PilotRun` and `DatasetPreparation` is this
specification under a refinement mapping. In a pilot the writers are the
successive pilots on one directory, of whom only the latest is remembered, and
neither a pilot nor a preparation retains a failure. In a preparation the
records are the files among `Documents` that are there.

### ProductionRun

Each action is one stage or one reading of an input; the order of the records
is the function `Sequence`. `world` holds the two datasets, the file at the
path of the source model and the Git revision as they are now, and `Change`
changes any of them between any two steps. `run[p].seen` is what the records
say, `run[p].used` what the stages really read: the gap between the two is what
the properties are about. Two processes may be started on one output directory.

What is abstracted: a dataset is one value, the digests of all of its samples,
so that two datasets overlap exactly if they are equal; a stage that reads many
samples (`Quantize`, `RunFp32`, `RunInt8`) reads the dataset any number of times
and may see different values. The decision of the comparison does not change
the control flow and is left out.

Both evaluations check the digest of a model and then open it by its path
again, which are two actions each (`VerifyFp32`, `OpenFp32`, and the same for
INT8). `Change` may exchange the source model in between, and `Damage` the INT8
model, which may also be put back.

Limits of the code, which the properties state as conditions: an input, or the
INT8 model, that is changed and *changed back* between two checks goes unnoticed
(`restored`), and so does a source model that is exchanged after its last
check, before it is opened for its evaluation (`fp32`), and is not looked at
again. `UsedAsRecorded` says of the FP32 evaluation only that it opened the
recorded model if the recorded model still is there, never having been put back.

### PilotRun

A pilot uses the same helpers as a formal run, and this module looks into them:
one action for each image that is drawn and digested (`DrawImage`,
`DigestImage`), validated (`ValidateSample`), labelled (`LabelSample`), fed to
the calibrator (`GetNext`, with `Rewind` between two passes) and evaluated
(`RunSample`). `run` holds the position in the sequence of records and in the
loop under way, `data` what the process has in memory, `disk` what it wrote.
`CompareEvaluations` computes the gates of `compare_evaluations` from the
outcomes of the samples.

What is abstracted: an image is its pattern, which `synthetic.py` repeats after
65536 images; a model is a function from images to rankings that is chosen as
it is asked (`answer`), and an inference may fail at any time. Four kinds of
failed inference are one, since no gate tells them apart. The thresholds are
per cent and the quotients of `compare.py` are compared by multiplying; for
the counts of this code the floating-point comparisons have the same results.

Properties. `CalibratedOnSelection`: whatever passes the calibrator makes, it
got the whole selection in order before the model was recorded.
`LabelsOfRecorded`: labels were given for the images the manifest names, by the
recorded model, and that model was quantized. These say under which changes:
the pilot verifies everything once more between two uses, so that a file has to
change twice to escape. `LabelsRight`, `VerdictDeserved`: the verdict, computed
from counts against pseudo-labels, is the one that the two models themselves
call for. A consequence worth knowing is that in a pilot the gate on the
agreement of the models never decides: labels are the top-1 of the FP32 model,
so with the configured 1.0 percentage points and 0.95 it follows from the gate
on the accuracy. `SamplesDistinct`: an undisturbed pilot asked for more images
than there are patterns ends at the overlap unless they all differ.
`PrefixOnDisk` and `LaterPilotInert` (the latter proved only) say what a failed
or killed pilot leaves, and that a later one on the same directory changes
nothing of it.

Unlike a formal run a pilot does not look at its inputs again at the end and
retains no failure; the module has no such steps.

### DatasetPreparation

`folder` is the image folder, a directory for each class and one unexpected
name in the root; `Change` writes, removes or replaces a file or a directory.
The steps follow `prepare_numeric_imagefolder_manifests` from top to bottom,
one for each file that is decoded (`Decode`), identified (`Identify`) or
validated again (`ValidateSample`, which is `validate_dataset`), then
`RequireNoOverlap`, `MakeOutput` and one `Publish` for each of the three files.
A condition that is not met ends in `Fail`, as does any error of the file
system. `Junk` stands for links, unsupported suffixes and images that do not
decode. What a sample's id and path say is its label, its name and the manifest
it is in.

The history variables are `began`, the folder the preparer started with as long
as it has not changed, and `late`, what each file has been since the last one
was identified. `Selected` compares the loops of the code with a definition that
counts, `Nth`. `Split` and `UpToDate` hold however the folder changes. What does
*not* hold, and no property says, is that what is published was decoded: a file
may change between `Decode` and `Identify`.

### EvidencePackage

Both builders have the same order of steps and share helpers. A file is known
by the run it belongs to. The cross-record checks of
`_validate_cross_record_graph` and `_validate_production_graph` compare digests
along links that connect all the records and the model, so a set of files
passes exactly if all of them belong to one run. The run directory is read
twice, once to validate and once to copy, file by file, and `ChangeSource` may
exchange or remove any file at any time; that is why the staged copy is
verified again before the rename, and the mutant `TrustStaging` shows that this
is necessary. `Abandon` is the `finally` clause that removes the staging
directory, which may itself fail. `touched` holds the builders whose temporary
name was made, removed or renamed since the parent directory was last synced:
after a loss of power such a name may be there or not, so that a staging
directory that was removed may be back. The cleanup has no property of its own;
it could only repeat `Abandon`.

### RunRecords

A result is what the checks tell apart: environment, architecture,
`performance_representative`, `correctness_verified`, the workload (name,
matrix, backend and iterations as one value) and whether the mean latency is
zero, and whether all the numbers are finite (`finite`): `parse_result` accepts
`Infinity`, the record is written with `null` in its place, and then cannot be
loaded (`Loadable`). The program is whatever `RVAI_BENCH_BIN` names, so it may print any of the
`Payloads`. `Check`, `WriteTemp`, `Recheck`, `Replace` are `save_run_record`,
`LoadLeft` and `Compare` are `rvai compare`, whose two readings may see
different states of the files. A record that is there at the beginning
(`Earlier`) may say anything, but to be loaded it must pass the same schema
check as a program's output (`Consistent`). No other program writes to a result
path while commands run.

### BenchmarkGemm

`fill_inputs`, `gemm_scalar`, `verify_result` and the rest of `run_gemm`, one
product or one comparison a step: `Fill`, `Accumulate`, `Store`, `Reference`,
`Compare`, `Report`, and `Exhaust` where the program has no memory. `loop` is
where the program stands, `output` the product in the width of an `int`, which
is the constant `IntMax`. An `int` that overflows has no defined value in the
code. What builds do is to wrap or, in an index expression that is never
stored, to go on in a wider register; `size.wide` chooses. An accumulator is
stored in 32 bits in any case. The latencies are kept as counts, `atMost`, from
which the percentile after sorting can be read.

`sums` is history: the exact sums of every entry. `VerdictRight` compares the
verdict with them: only exact products are accepted, and a product is rejected
only if an entry does not fit. A sum that overflows and comes back is right, and
is accepted. `SafeSizes` gives the sizes for which none of this matters.
It speaks of the timed passes, too, each of which computes the product anew.
`NearestRank`, proved only, says that the index into the sorted latencies is the
right one. For
the rank the ceiling is computed in integers; in double precision
`0.95 * N` rounds to the same for every `int`.

The reading of the options, the mean and the throughput (floating-point), the
detection of the execution environment and the printing are left out.

## 3. What TLC checks

| Run | Instance | Shows |
|---|---|---|
| `ArtifactCache` | 2 commands, 2 revisions with one file name, one edit, one outside change, kill or refused unlink | six safety properties; every command ends |
| `ArtifactCacheStaleLoad` | the same, with the edit only | violation: the adapter may open bytes that were not verified |
| `ArtifactCacheNameClash` | an artifact named `artifact.json` | violation: a successful pull destroys its artifact |
| `ExclusivePublish` | 3 writers (one of them the quantizer), 2 losses of power | torn files, false answers, replacement are impossible; implements `WriteOnce` |
| `ProductionRun` | 2 processes, 2 contents, 2 revisions (1 clean), 2 changes | recorded inputs, disjoint data, the model that was evaluated; implements `EvidenceDirectory` |
| `ProductionRunFailedValid` | no changes at all | violation: a failed run validates as a completed one |
| `PilotRun` | up to 2 + 2 images, 3 patterns, 3 rankings, 2 passes of the calibrator, 2 pilots on one directory, 1 change | labels, calibration and verdict belong to what is recorded; a verdict is deserved; what is left behind; implements `EvidenceDirectory` |
| `DatasetPreparation` | 2 preparers, 2 classes, up to 3 files each, 3 images, 3 folders to begin with, one change | the reference selection, disjoint and current manifests; implements `EvidenceDirectory` |
| `EvidencePackage` | 2 builders, 3 files, 2 runs, 2 changes, 1 loss of power | one run's evidence, implements `WriteOnce` |
| `RunRecords` | 3 commands (one forced, one emulated), 2 files, 7 payloads | trusted ratios, kept records, no record after an error |
| `RunRecordsOverwrite` | the same, none forced | violation: a record is overwritten without `--force` |
| `BenchmarkGemm` | 7 shapes, both kinds of build, an `int` of ten bits, 3 latencies | verdict, also in the timed passes, safe sizes |

Why these bounds. The code has no counters that grow, so the bounds are on
actors and on the environment. Two commands suffice for every race on a pair of
steps; a third writer in `ExclusivePublish` lets one be refused while two fail
in different ways. Two revisions or contents are the least with which a wrong
one can be seen. Two changes let an input change and change back, or two inputs
change in one run. A second loss of power hits what was written after the first.
Three files let a change fall before, on and after a file being read or copied.
In `DatasetPreparation` two classes and a third file are the least for the loop
over the classes to continue and for a file to be left out; the folders to begin
with contain the overlaps, and one change makes the folder unsuitable in every
other way.
In `PilotRun` the sample counts are (1, 2), (2, 1) and (2, 2) with patterns that
repeat after three: the last count makes an image of the evaluation equal to
one of the calibration. With two evaluation samples and thresholds of 50, 0
and 50 per cent every gate is met exactly by some outcome and missed by one
sample by another. Three rankings of two classes give a model that agrees, one
that has the right class second, and one that misses it. Two passes make the
calibrator rewind. One change suffices since the properties are conditional on
fewer than one or two of them, and every variant with a mutant is reached; the
instance has 1.3 million states.
In `BenchmarkGemm` the width is the least in which a product of two elements
fits. One shape has the largest depth that is safe; three have indices beyond
the width, in one matrix or both; two of these have sums beyond it, which stay
there or, where the indices do not wrap, come back; the last two have a rank
that is whole and one that is not.
The theorems of section 4 lift these bounds for the modules that have them.

`CHECK_DEADLOCK FALSE` is used where all processes end for good
(`ExclusivePublish`, `PilotRun`, `DatasetPreparation`, `EvidencePackage`,
`RunRecords`); commands of `ArtifactCache` start again, and in `ProductionRun` the evidence can be
validated at any time.

Every property of a passing run has a mutant: a variant of one definition, with
a plausible fault ("Faulty variant" in the modules), under which TLC finds that
property violated.

Fairness. Only `CommandsEnd` needs any: weak fairness of each command's own
step. A command is an operating-system process that waits for nothing but its
own system calls and the server; `ArtifactDownloader` opens the URL with a
timeout of 60 seconds, and the body is read until it ends, which is one step
here. A server that keeps sending forever is therefore excluded by assumption.
Nothing is assumed of the environment.

### Disagreements found

Four runs show the code doing something its documentation excludes; they are
the findings of `PROJECT.json`:

1. `onnxruntime.py:83` opens the path anew after verification, and a pull for
   another revision can replace the file between.
2. A Manifest may name its artifact `artifact.json`; the metadata then replaces
   the artifact and pull reports success.
3. If the last record is published and the `fsync` of its directory fails, the
   run fails and leaves `failure.json`, and its directory still validates as a
   completed run.
4. `save_run_record` can replace the record of a concurrent run without
   `--force`.

## 4. What is proved

The proofs are for every value of the constants that satisfies the `ASSUME` of
the module.

**ArtifactCacheProofs.** `TypeCorrect`, then `Inductive` under `NoClash` (no
revision names its artifact `artifact.json`, the second finding above): the
inductive invariant says, for each command, what its program counter implies of
its temporary file and of the directory unless it is dirty: for instance that
between the replacement of the artifact and that of the metadata the artifact
is the declared one. The properties alone are not inductive because they speak
of commands that have ended. `NeverPartial`, `PullsDeliver`, `InferSafe`,
`MetadataOrder` and `FailureKeepsFile` follow from it. `NothingLeaks` needs no
`NoClash` and has an invariant of its own, `Tidy`: what a command has on the
disk beyond its kills and refused unlinks is the one file it remembers, and a
command remembers one exactly where its program counter says so. Both parts are
needed, since a step that creates or renames a file must know whether there is
one already.

**ExclusivePublishProofs.** `IInv` adds to the types that what is durable is
what is visible, and for each writer `Sound`: a writer past `fsync` has synced
bytes, only a linked writer owns the destination, and its answer fits. `NeverTorn`
and `Truthful` follow. `Refinement` shows that each step is a step of
`WriteOnce` or leaves its variables alone.

**EvidencePackageProofs.** The same shape: after `verify` the staged tree is
`Intact`, and since nobody else writes to a staging directory it stays so until
the rename. `OneRun` and `Refinement` follow.

**RunRecordsProofs.** `IInv` says that every record on file, and every result
past `parse_result`, was accepted under the target it ran on, that a record
which was seen before writing is still there at the second look, and that only
a command that succeeded has a record. `RatioTrusted` needs the first part: a
ratio is computed from files alone, and what connects a file to the way its
command was started is that `parse_result` refused everything else. `Trusted`,
`Kept` and `NoRecordOnError` follow.

**BenchmarkGemmProofs.** Two numbers are `Near` if they differ by a multiple of
`Modulus`, which is 2^32 in the program. A wrapped sum stays near the exact one
(`NearSum`), and near numbers that both fit an `int` are equal (`NearSame`).
The invariant says that the history `sums` is the sequence of exact sums
(`Chained`), that the sum a loop is at and the entries that were stored are
near them, and in the verification equal (`Summing`, `Stored`), which entries
have been found equal (`Verified`), and that there is a pass left to time
(`Counting`). `VerdictIsRight` follows: an entry that is near its exact sum and
different from it cannot fit. `SafeSizesAreSafe` needs one more invariant,
`Bounded`: with safe sizes no index is beyond an `int`, hence elements are at
most 7 and each sum grows by at most 49 a product. `RankIsNearest` is
arithmetic. All of it holds for every `IntMax` from 441 on, 2^31 - 1 in
particular, and for all sizes up to it.

**ProductionRunProofs.** `Steps` first reduces each of the 27 actions of a
process to what it changes: one process goes from one stage to another, takes
note of an input, uses one, or writes to the directory. The invariant then has
a part for each concern: `Position` (the records a stage stands behind),
`Owned` (only the process that made the directory writes to it, and how many
records there are), `Recorded`, `Faithful`, `Used`, `Evaluated` and `OfSource`
(what each evaluation opened). `UsedAsRecorded` needs the middle ones: an input
that has never been changed back and is what was recorded can only have been
used as recorded, and every input is looked at once more after its last use,
the source model that the FP32 evaluation opens excepted. A change back puts
the input in `restored`, and the property says nothing of it from then on. Of
the exception: another source model was evaluated only if there still is
another one, or the recorded one was put back; the model in the evidence is
treated alike. `CompletedIsComplete`, `FailuresExact`,
`CalibrationNotEvaluated` and `ValidIsEvaluated` follow too, for any number of
processes and changes.

**PilotRunProofs.** The inductive invariant is the conjunction of `TypeOK`,
`Position` (where the loops and records of a stage are), `Counted` (changes of
single files against all changes), `Kept` (the directory), `Digested`,
`LabelsKept`, `SourceKept`, `Fed`, `Answered`, `Patterns` and `Judged`. Each
part has its own lemma over the stages, and its own over the changes of others;
the frame lemmas say once which stage leaves which part of the state alone.
`SamplesDistinct` comes down to remainders: two indices with one pattern are a
calibration image and an evaluation image with the same digest, if there are
more images than patterns. `VerdictDeserved` compares sets of samples: with
labels that are the top-1 of the FP32 model its count of correct samples is the
sample count, so a drop is at most the threshold if and only if the INT8 model
agrees often enough, and `Thresholds` shows that the gate on the agreement
follows. All properties are proved, for any counts, period, rankings and
thresholds (the agreement no stricter than the accuracy) and any number of
passes, pilots and changes.

**DatasetPreparationProofs.** `Place`, `Collected`, `Confirmed`, `Separate` and
`Owned` say, for each preparer, where its loops are, how many samples of each
class it has, which of them were compared with the folder again, and what it
has written. `Ascending` is defined by `CHOOSE`; that there is an ascending
enumeration is usually shown by induction over the set, which is out of reach
here. `AscendingFacts` takes the rank instead: the map from each element to the
number of elements not above it is injective, hence a bijection, and its
inverse is ascending. `Ranks` shows the converse, that each element of an
ascending enumeration stands at its rank, which connects the loops of the code
with the definition by counting, `Nth`. For `Selected` a second invariant,
`Chosen`, holds for whoever still sees the folder it started with: the samples
so far are those of the definition, at the places that quotient and remainder
of their number give (`Division`). All properties are proved.

**Refinement of EvidenceDirectory.** `Refinement` is proved in all three of
`ProductionRunProofs`, `PilotRunProofs` and `DatasetPreparationProofs`, step by
step from the invariants above: each action is one action of the abstract
directory or leaves its variables alone. What had to be added is what the
safety properties do not need. A process that is refused must have found
somebody else's directory, so whoever has not set one up yet does not own one
(`Newcomers`); pilots are numbered in the order they start, and the owner is
the current one or one before it (`Newcomer`). In a preparation `Proceeding` connects the
position in the loop over the documents with the files that are there: the next
one is absent, all before it are present, so that a publication appends and the
last one completes.

So every invariant that a passing run checks is also a theorem, and so are the
five refinements. Six properties are proved and in no run: `EvidenceComplete`,
`FailureExact`, `RecordMeansWhole` and `LaterPilotInert`, which, but for the
contents of the files and the model, say what the runs check as the refinement
of `EvidenceDirectory`, and `FailedPullKeepsFile` and `NearestRank`, which are
about single steps. Only model-checked
is `CommandsEnd`, since the prover does not handle liveness under fairness. The
four violations are TLC's counterexamples.

## 5. Not modelled

* Image preprocessing, top-k, quantization and inference themselves: numerical
  code of third-party libraries. A model is any function of its images.
* Parsing of YAML and JSON and the declarative schemas: each stands in a model
  for success or an error.
* `list`, `show`, `detect`, `check`, the planner and the hardware probe: they
  read and print, keep no state, and nobody else can tell when they do it.
* The compatibility matcher: a pure conjunction of independent comparisons of a
  Manifest and a profile. A definition to compare it with would be the same
  conjunction again.
* Rendering of reports. `save_markdown_report` writes in place, which leaves a
  partial file after an error (listed as a hazard); nothing in the program reads
  it. Nor the wording of the lists of differences that `rvai compare` prints.
* Of the benchmark program, its mean and throughput, its options and what it
  prints of its environment.
* The mean overlap of the top-5 in a comparison, which no gate uses, and the
  descriptions (names, licences, provenance) that manifests carry.

## 6. What is left

The components above are the ones that keep state. What could still be added is
at the edges: the archives' own verification command as a process of its own
beside the builders (its checks are `Intact`), and the composition of `DatasetPreparation` with
`ProductionRun` in one instance, which the two modules have in common only by
the manifest. Larger instances would add nothing where the theorems hold for
every value of the constants.
