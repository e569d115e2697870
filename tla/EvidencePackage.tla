---------------------------- MODULE EvidencePackage ----------------------------
(***************************************************************************)
(* Building the package of a run: build_evidence_package of the synthetic  *)
(* pilot (model_pipeline/package.py) and build_production_evidence_package *)
(* of a formal run (model_pipeline/production_package.py), which share     *)
(* their helpers and their order of steps.  Several builders may package   *)
(* one run directory to one destination, while somebody puts another run's *)
(* files into the run directory.                                           *)
(*                                                                         *)
(* A file is known by the run it belongs to.  The records of a run name    *)
(* each other and the model by digest, so a set of files validates as      *)
(* evidence exactly if all of them belong to one run.                      *)
(***************************************************************************)
EXTENDS Naturals

CONSTANTS
    Builders,   \* processes that build a package
    Runs,       \* the runs whose files the run directory may hold
    Size,       \* files a run consists of, in the order they are read
    None,       \* a file that is not there; no package
    MaxChanges, \* bound on files changed in the run directory
    MaxLosses   \* bound on losses of power

ASSUME PackageAssumption ==
    /\ Size \in Nat \ {0}
    /\ None \notin Builders \cup Runs
    /\ MaxChanges \in Nat
    /\ MaxLosses \in Nat

VARIABLES
    source,   \* the run directory
    build,    \* the state of each builder, with its staging directory
    staging,  \* builders whose staging directory has its temporary name
    target,   \* the builder whose directory the destination names
    kept,     \* what the destination names on disk at the last fsync
    touched,  \* builders whose temporary name was made or dropped since then
    changes, losses

vars == <<source, build, staging, target, kept, touched, changes, losses>>

Files == 1..Size
Directory == [Files -> Runs \cup {None}]
Holds(r) == [i \in Files |-> r]

Preparing == {"validate", "revision", "check", "mkdtemp", "copy", "manifest",
              "sync", "verify"}
Reading == {"validate", "revision", "check", "mkdtemp", "copy"}
Working == Preparing \cup {"rename", "syncParent"}

\* next counts the files read or copied; evidence is the run validated, whose
\* comparison is rendered as the report; manifest holds the staged digests.
Build == [pc: Working \cup {"done"}, next: 1..(Size + 1),
          evidence: Runs \cup {None}, dir: Directory,
          manifest: Directory, synced: BOOLEAN,
          answer: {"none", "ok", "exists", "failed", "unsynced", "uncleaned", "killed"}]

TypeOK ==
    /\ source \in Directory
    /\ build \in [Builders -> Build]
    /\ \A b \in Builders :
          build[b].pc \in Reading => build[b].next \in Files
    /\ staging \subseteq Builders
    /\ target \in Builders \cup {None}
    /\ kept \in Builders \cup {None}
    /\ touched \subseteq Builders
    /\ changes \in 0..MaxChanges
    /\ losses \in 0..MaxLosses

Init ==
    /\ source \in {Holds(r) : r \in Runs}
    /\ build = [b \in Builders |->
                  [pc |-> "validate", next |-> 1, evidence |-> None,
                   dir |-> Holds(None), manifest |-> Holds(None),
                   synced |-> FALSE, answer |-> "none"]]
    /\ staging = {} /\ target = None /\ kept = None /\ touched = {}
    /\ changes = 0 /\ losses = 0

-----------------------------------------------------------------------------
At(b, l) == build[b].pc = l
Become(b, d) == build' = [build EXCEPT ![b] = d]
Goto(b, l) == Become(b, [build[b] EXCEPT !.pc = l])
End(b, a) == Become(b, [build[b] EXCEPT !.pc = "done", !.answer = a])
Around == UNCHANGED <<source, changes, losses>>
Parent == <<staging, target, kept, touched>>
Local == Around /\ UNCHANGED Parent

\* The temporary name of the builder's directory is made, or dropped.
Make(b) == staging' = staging \cup {b} /\ touched' = touched \cup {b}
Drop(b) == staging' = staging \ {b} /\ touched' = touched \cup (staging \cap {b})

Published(b) == At(b, "syncParent")

\* Faulty variant: the count of the files read is not reset for the copy.
ValidateOn(b) ==
    /\ At(b, "validate")
    /\ LET i == build[b].next
           r == source[i] IN
          /\ r # None
          /\ build[b].evidence \in {None, r}
          /\ Become(b, [build[b] EXCEPT
                !.evidence = r, !.next = i + 1,
                !.pc = IF i = Size THEN "revision" ELSE "validate"])
    /\ Local

\* validate_pilot_evidence, validate_production_evidence: the files are read
\* one after the other and must fit each other.
ValidateFile(b) ==
    /\ At(b, "validate")
    /\ LET i == build[b].next
           r == source[i] IN
          /\ r # None
          /\ build[b].evidence \in {None, r}
          /\ Become(b, [build[b] EXCEPT
                !.evidence = r,
                !.next = IF i = Size THEN 1 ELSE i + 1,
                !.pc = IF i = Size THEN "revision" ELSE "validate"])
    /\ Local

\* Both revisions must be clean.
CheckRevisions(b) == At(b, "revision") /\ Goto(b, "check") /\ Local

CheckDestination(b) ==
    /\ At(b, "check")
    /\ \/ target # None /\ End(b, "exists")
       \/ target = None /\ Goto(b, "mkdtemp")
    /\ Local

\* tempfile.mkdtemp, the two directories in it and comparison.md.
CreateStaging(b) ==
    /\ At(b, "mkdtemp")
    /\ Make(b)
    /\ Goto(b, "copy")
    /\ Around /\ UNCHANGED <<target, kept>>

\* _copy_exclusive; the run directory may not be what was validated.
CopyFile(b) ==
    /\ At(b, "copy")
    /\ LET i == build[b].next IN
          /\ source[i] # None
          /\ Become(b, [build[b] EXCEPT
                !.dir = [@ EXCEPT ![i] = source[i]],
                !.next = i + 1,
                !.pc = IF i = Size THEN "manifest" ELSE "copy"])
    /\ Local

\* package-manifest.json and sha256sums.txt.
WriteManifest(b) ==
    /\ At(b, "manifest")
    /\ Become(b, [build[b] EXCEPT !.manifest = build[b].dir, !.pc = "sync"])
    /\ Local

SyncTree(b) ==
    /\ At(b, "sync")
    /\ Become(b, [build[b] EXCEPT !.synced = TRUE, !.pc = "verify"])
    /\ Local

\* Faulty variant: the evidence was validated already.
TrustStaging(b) == At(b, "verify") /\ Goto(b, "rename") /\ Local

\* verify_evidence_package on the staging directory: the staged files are
\* those of the manifest, fit each other, and give the report that is there.
Intact(d) ==
    /\ d.manifest = d.dir
    /\ d.evidence \in Runs
    /\ d.dir = Holds(d.evidence)

VerifyStaging(b) ==
    /\ At(b, "verify")
    /\ Intact(build[b])
    /\ Goto(b, "rename")
    /\ Local

\* A builder ends without having published: the staging directory, if there
\* is one, is removed; if that fails, the caller hears of that instead.
Abandon(b, a) ==
    \/ End(b, a) /\ Drop(b)
    \/ b \in staging /\ End(b, "uncleaned") /\ UNCHANGED <<staging, touched>>

\* Faulty variant: renameat2 without RENAME_NOREPLACE.
RenameOver(b) ==
    /\ At(b, "rename")
    /\ target' = b
    /\ Drop(b)
    /\ Goto(b, "syncParent")
    /\ Around /\ UNCHANGED kept

\* renameat2 with RENAME_NOREPLACE: the one step that publishes.
RenameStaging(b) ==
    /\ At(b, "rename")
    /\ \/ /\ target = None
          /\ target' = b
          /\ Drop(b)
          /\ Goto(b, "syncParent")
       \/ /\ target # None
          /\ Abandon(b, "exists")
          /\ UNCHANGED target
    /\ Around /\ UNCHANGED kept

SyncParent(b) ==
    /\ At(b, "syncParent")
    /\ kept' = target /\ touched' = {}
    /\ End(b, "ok")
    /\ Around /\ UNCHANGED <<staging, target>>

\* Any error, of the file system or of a check.
Fail(b) ==
    /\ build[b].pc \in Working
    /\ \/ ~Published(b) /\ Abandon(b, "failed")
       \/ Published(b) /\ End(b, "unsynced") /\ UNCHANGED <<staging, touched>>
    /\ Around /\ UNCHANGED <<target, kept>>

Kill(b) ==
    /\ build[b].pc \in Working
    /\ End(b, "killed")
    /\ Local

ChangeSource(i, r) ==
    /\ changes < MaxChanges
    /\ source' = [source EXCEPT ![i] = r]
    /\ changes' = changes + 1
    /\ UNCHANGED <<build, Parent, losses>>

\* The names in the parent directory may be as old as its last fsync: what was
\* renamed has either name, what was made may be gone, and what was removed may
\* be back.
LosePower ==
    /\ losses < MaxLosses
    /\ losses' = losses + 1
    /\ target' \in {target, kept}
    /\ kept' = target'
    /\ \E old \in SUBSET touched :
          staging' = ((staging \ touched) \cup old) \ {target'}
    /\ touched' = {}
    /\ build' = [b \in Builders |->
          IF build[b].pc \in Working
          THEN [build[b] EXCEPT !.pc = "done", !.answer = "killed"]
          ELSE build[b]]
    /\ UNCHANGED <<source, changes>>

Step(b) ==
    \/ ValidateFile(b) \/ CheckRevisions(b) \/ CheckDestination(b)
    \/ CreateStaging(b) \/ CopyFile(b) \/ WriteManifest(b) \/ SyncTree(b)
    \/ VerifyStaging(b) \/ RenameStaging(b) \/ SyncParent(b) \/ Fail(b)

Next ==
    \/ \E b \in Builders : Step(b) \/ Kill(b)
    \/ \E i \in Files : \E r \in Runs \cup {None} : ChangeSource(i, r)
    \/ LosePower

Spec == Init /\ [][Next]_vars

-----------------------------------------------------------------------------
(* Properties                                                              *)

\* What is at the destination is the complete evidence of one run with its
\* own report and manifest, all of it on disk, although the run directory
\* was read twice and may have changed at any point of either reading.
PackageIsOneRun ==
    target # None => Intact(build[target]) /\ build[target].synced

\* The destination is a register that is written at most once, and what a
\* builder reports of it is true.
Reported(a) == IF a = "uncleaned" THEN "failed" ELSE a
WO == INSTANCE WriteOnce WITH
        Writers <- Builders, value <- target, durable <- kept,
        answer <- [b \in Builders |-> Reported(build[b].answer)]
Implements == WO!AbstractSpec
=============================================================================
