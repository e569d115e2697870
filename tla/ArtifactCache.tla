---------------------------- MODULE ArtifactCache ----------------------------
(***************************************************************************)
(* The model artifact cache of rvai (src/rvai/artifacts) as concurrent     *)
(* `rvai pull` and `rvai infer` invocations on one model's cache directory *)
(* see it.  Nothing in the code coordinates the invocations: all they      *)
(* share is the directory, which holds the artifact at the file name its   *)
(* Manifest declares and the metadata at artifact.json.  The Manifest may  *)
(* be edited while they run, so two invocations may work for different     *)
(* revisions of it.  Each step below is one file-system operation (or one  *)
(* run of operations no other process can observe).                        *)
(*                                                                         *)
(* A file holds one of the Values.  The SHA-256 and the size of a content  *)
(* are abstracted to the identity of the content, and a metadata record to *)
(* the Manifest revision it was written for: every field of the record     *)
(* but downloaded_at is a function of that revision and of the verified    *)
(* bytes, and manifest_digest tells any two revisions apart.               *)
(***************************************************************************)
EXTENDS Integers

CONSTANTS
    Procs,       \* concurrent invocations of the rvai command
    Revs,        \* revisions of the model's Manifest
    Paths,       \* file names in <cache root>/<model>/
    MetaPath,    \* the name artifact.json
    FileName,    \* the artifact file name each revision declares
    Declared,    \* the bytes whose digest each revision declares
    Absent,      \* no file
    Junk,        \* bytes from the network that no revision declares
    Foreign,     \* bytes something other than rvai put into the cache
    MaxEdits,    \* bound on edits of the Manifest
    MaxFaults    \* bound on outside changes of the cache directory, killed
                 \* invocations and refused unlinks, together

Contents == {Declared[r] : r \in Revs}
Meta(r) == [manifest |-> r]
Metas == {Meta(r) : r \in Revs}
Values == Contents \cup Metas \cup {Absent, Junk, Foreign}

ASSUME CacheAssumption ==
    /\ FileName \in [Revs -> Paths]
    /\ MetaPath \in Paths
    /\ Absent # Junk /\ Absent # Foreign /\ Junk # Foreign
    /\ Contents \cap (Metas \cup {Absent, Junk, Foreign}) = {}
    /\ Metas \cap {Absent, Junk, Foreign} = {}
    /\ {MaxEdits, MaxFaults} \subseteq Nat

PullSteps == {"exists", "verify", "ensure", "stat", "stream", "received",
              "replace", "metaTemp", "metaReplace"}
InferSteps == {"status", "statusMeta", "resolve", "resolveMeta", "load"}
Delivered == {"downloaded", "already-cached"}
Outcomes == Delivered \cup {"none", "integrity-error", "download-error",
    "cache-error", "not-ready", "not-cached", "inferred", "inference-error",
    "uncaught", "killed"}

VARIABLES
    file,      \* what each path of the cache directory holds
    current,   \* the revision the registry loads now
    proc,      \* the state of each invocation
    edits, faults,  \* how often the environment acted
    parts,     \* how many temporary files of each invocation are on disk
    struck,    \* history: how often each was killed or refused an unlink
    dirty,     \* history: invocations during which somebody else wrote for
               \* another revision, or outside rvai
    spoiled    \* history: revisions whose artifact path was ever written by
               \* anything but a pull of that revision

env == <<current, edits, faults>>
temps == <<parts, struck>>
history == <<dirty, spoiled>>
vars == <<file, env, proc, temps, history>>

\* rev is the revision the invocation works for, temp the temporary
\* file it owns (Absent if none), fetched whether it has replaced the
\* artifact, loaded the bytes ONNX Runtime opened, out its last exit
\* ("uncaught": an exception the command does not turn into an error of its
\* own).
Invocation == [pc: {"idle"} \cup PullSteps \cup InferSteps,
               rev: Revs, temp: Values, fetched: BOOLEAN,
               loaded: Values, out: Outcomes]

TypeOK ==
    /\ file \in [Paths -> Values]
    /\ current \in Revs
    /\ proc \in [Procs -> Invocation]
    /\ edits \in 0..MaxEdits
    /\ faults \in 0..MaxFaults
    /\ parts \in [Procs -> Int]
    /\ struck \in [Procs -> Nat]
    /\ dirty \subseteq Procs
    /\ spoiled \subseteq Revs

Init ==
    /\ file = [x \in Paths |-> Absent]
    /\ current \in Revs
    /\ proc = [p \in Procs |->
                 [pc |-> "idle", rev |-> current,
                  temp |-> Absent, fetched |-> FALSE, loaded |-> Absent,
                  out |-> "none"]]
    /\ edits = 0 /\ faults = 0
    /\ parts = [p \in Procs |-> 0]
    /\ struck = [p \in Procs |-> 0]
    /\ dirty = {} /\ spoiled = {}

-----------------------------------------------------------------------------
(* Steps every command is made of.                                         *)

At(p, l) == proc[p].pc = l
Artifact(p) == file[FileName[proc[p].rev]]

Goto(p, l) ==
    /\ proc' = [proc EXCEPT ![p] = [@ EXCEPT !.pc = l]]
    /\ UNCHANGED <<file, env, temps, history>>

\* 1 if p holds a temporary file (temporary_path is not None), otherwise 0.
Owned(p) == IF proc[p].temp = Absent THEN 0 ELSE 1

End(p, result) ==
    proc' = [proc EXCEPT ![p] =
                [@ EXCEPT !.pc = "idle", !.out = result, !.temp = Absent]]

\* Faulty variant: the finally clause is forgotten.
FinishKeepingTemp(p, result) ==
    /\ End(p, result)
    /\ UNCHANGED <<file, env, temps, history>>

\* The command ends; its finally clause unlinks the temporary file, and
\* ignores it when the file system refuses to.
Finish(p, result) ==
    /\ End(p, result)
    /\ \/ /\ parts' = [parts EXCEPT ![p] = @ - Owned(p)]
          /\ UNCHANGED <<faults, struck>>
       \/ /\ Owned(p) = 1 /\ faults < MaxFaults
          /\ faults' = faults + 1
          /\ struck' = [struck EXCEPT ![p] = @ + 1]
          /\ UNCHANGED parts
    /\ UNCHANGED <<file, current, edits, history>>

\* The command starts: the registry loads the Manifest as it is now.
Start(p, first) ==
    /\ At(p, "idle")
    /\ proc' = [proc EXCEPT ![p] = [pc |-> first, rev |-> current,
            temp |-> Absent, fetched |-> FALSE, loaded |-> Absent,
            out |-> "none"]]
    /\ dirty' = dirty \ {p}
    /\ UNCHANGED <<file, env, temps, spoiled>>

\* Faulty variant: any file that is there passes.
MatchesAnything(v, r) == v # Absent

\* verify_file: do these bytes have the digest and size r declares?
Matches(v, r) == v = Declared[r]

\* load_metadata raises on anything but a metadata record.
Unreadable(v) == v \notin Metas \cup {Absent}

\* A write by p for its revision disturbs the invocations for others.
Disturb(p) == dirty' = dirty \cup {q \in Procs : proc[q].rev # proc[p].rev}

-----------------------------------------------------------------------------
(* rvai pull                                                               *)

StartPull(p) == Start(p, "exists")

\* download: an existing file is only verified unless --force is given (the
\* option matters nowhere else, so it is chosen here); otherwise a .part file
\* is created beside the destination.
CheckDestination(p) == \E force \in BOOLEAN :
    LET kept == Artifact(p) # Absent /\ ~force IN
    /\ At(p, "exists")
    /\ \/ kept /\ Goto(p, "verify")
       \/ /\ ~kept
          /\ proc' = [proc EXCEPT ![p] =
                          [@ EXCEPT !.pc = "stream", !.temp = Junk]]
          /\ parts' = [parts EXCEPT ![p] = @ + 1]
          /\ UNCHANGED <<file, env, struck, history>>
       \/ ~kept /\ Finish(p, "download-error")

VerifyCached(p) ==
    /\ At(p, "verify")
    /\ \/ Matches(Artifact(p), proc[p].rev) /\ Goto(p, "ensure")
       \/ /\ Artifact(p) # Absent
          /\ ~Matches(Artifact(p), proc[p].rev)
          /\ Finish(p, "integrity-error")

\* An OSError while a file of the cache is read: it is not there any more,
\* or the file system refuses.
ReadFails(p) ==
    /\ proc[p].pc \in {"verify", "ensure", "stat", "resolve", "resolveMeta"}
    /\ Finish(p, "cache-error")

\* Exceptions that no clause of the command is for: exists() or is_file()
\* refused by the file system, a time stamp that is no date, and a record
\* the schema refuses (of an empty artifact).
NothingCatches(p) ==
    /\ proc[p].pc \in {"exists", "ensure", "stat", "metaTemp", "status",
                       "statusMeta", "resolve", "resolveMeta"}
    /\ Finish(p, "uncaught")

\* load_metadata turns what is no metadata record into a cache error, except
\* for bytes that are no UTF-8.
MetadataUnreadable(p) ==
    /\ Unreadable(file[MetaPath])
    /\ \E o \in {"cache-error", "uncaught"} : Finish(p, o)

\* Faulty variant: any readable metadata is kept.
EnsureAnyMetadata(p) ==
    LET m == file[MetaPath] IN
    /\ At(p, "ensure")
    /\ \/ m \in Metas /\ Finish(p, "already-cached")
       \/ m = Absent /\ Goto(p, "stat")
       \/ MetadataUnreadable(p)

\* _ensure_metadata: keep matching metadata, rewrite missing or other.
EnsureMetadata(p) ==
    LET m == file[MetaPath] IN
    /\ At(p, "ensure")
    /\ \/ m = Meta(proc[p].rev) /\ Finish(p, "already-cached")
       \/ m # Meta(proc[p].rev) /\ ~Unreadable(m) /\ Goto(p, "stat")
       \/ MetadataUnreadable(p)

\* _ensure_metadata reads the modification time of the artifact.
StatDestination(p) ==
    /\ At(p, "stat")
    /\ Artifact(p) # Absent
    /\ Goto(p, "metaTemp")

\* _stream_download: whatever the server sends goes into the .part file.
Receive(p) ==
    /\ At(p, "stream")
    /\ \E v \in Contents \cup {Junk} :
          proc' = [proc EXCEPT ![p] =
                        [@ EXCEPT !.pc = "received", !.temp = v]]
    /\ UNCHANGED <<file, env, temps, history>>

\* Faulty variant: the metadata is written before the artifact is replaced.
VerifyAfterReplacing(p) ==
    /\ At(p, "received")
    /\ Goto(p, "metaTemp")

\* Faulty variant: a wrong body is fetched again, forever.
RetryDownload(p) ==
    /\ At(p, "received")
    /\ \/ Matches(proc[p].temp, proc[p].rev) /\ Goto(p, "replace")
       \/ ~Matches(proc[p].temp, proc[p].rev) /\ Goto(p, "stream")

VerifyDownload(p) ==
    /\ At(p, "received")
    /\ \/ Matches(proc[p].temp, proc[p].rev) /\ Goto(p, "replace")
       \/ /\ ~Matches(proc[p].temp, proc[p].rev)
          /\ Finish(p, "integrity-error")

\* URLError, a timeout, or an OSError up to and including os.replace, are
\* download errors; what else http.client raises while the response is read
\* is not caught.
DownloadFails(p) ==
    \/ /\ proc[p].pc \in {"stream", "received", "replace"}
       /\ Finish(p, "download-error")
    \/ /\ At(p, "stream")
       /\ Finish(p, "uncaught")

\* os.replace of the artifact: readers see the old file or the new one.
ReplaceArtifact(p) ==
    /\ At(p, "replace")
    /\ file' = [file EXCEPT ![FileName[proc[p].rev]] = proc[p].temp]
    /\ proc' = [proc EXCEPT ![p] =
                    [@ EXCEPT !.pc = "metaTemp", !.temp = Absent,
                              !.fetched = TRUE]]
    /\ Disturb(p)
    /\ spoiled' = spoiled \cup {r \in Revs \ {proc[p].rev} :
                                  FileName[r] = FileName[proc[p].rev]}
    /\ parts' = [parts EXCEPT ![p] = @ - 1]
    /\ UNCHANGED <<env, struck>>

\* Faulty variant: the digest of the artifact is recorded as the Manifest's.
WriteMetadataSwapped(p) ==
    /\ At(p, "metaTemp")
    /\ proc' = [proc EXCEPT ![p] =
                    [@ EXCEPT !.pc = "metaReplace",
                              !.temp = Meta(Declared[proc[p].rev])]]
    /\ parts' = [parts EXCEPT ![p] = @ + 1]
    /\ UNCHANGED <<file, env, struck, history>>

WriteMetadataTemp(p) ==
    /\ At(p, "metaTemp")
    /\ proc' = [proc EXCEPT ![p] =
                    [@ EXCEPT !.pc = "metaReplace", !.temp = Meta(proc[p].rev)]]
    /\ parts' = [parts EXCEPT ![p] = @ + 1]
    /\ UNCHANGED <<file, env, struck, history>>

\* write_metadata fails: the artifact stays replaced, the metadata as it was.
MetadataFails(p) ==
    /\ proc[p].pc \in {"metaTemp", "metaReplace"}
    /\ Finish(p, "cache-error")

ReplaceMetadata(p) ==
    /\ At(p, "metaReplace")
    /\ file' = [file EXCEPT ![MetaPath] = proc[p].temp]
    /\ proc' = [proc EXCEPT ![p] =
                    [@ EXCEPT !.pc = "idle", !.temp = Absent,
                              !.out = IF proc[p].fetched THEN "downloaded"
                                                         ELSE "already-cached"]]
    /\ Disturb(p)
    /\ parts' = [parts EXCEPT ![p] = @ - 1]
    /\ UNCHANGED <<env, struck, spoiled>>

-----------------------------------------------------------------------------
(* rvai infer                                                              *)

StartInfer(p) == Start(p, "status")

\* ArtifactResolver.status: is there a file, and does the metadata match?
StatusFile(p) ==
    /\ At(p, "status")
    /\ \/ Artifact(p) # Absent /\ Goto(p, "statusMeta")
       \/ Artifact(p) = Absent /\ Finish(p, "not-ready")

\* A record that is wrong, or that load_metadata finds to be none, counts as
\* no record, and infer stops.
StatusMetadata(p) ==
    /\ At(p, "statusMeta")
    /\ \/ file[MetaPath] = Meta(proc[p].rev) /\ Goto(p, "resolve")
       \/ Finish(p, "not-ready")
       \/ Unreadable(file[MetaPath]) /\ Finish(p, "uncaught")

\* Faulty variant: the digest of the cached file is not recomputed.
ResolveUnhashed(p) ==
    /\ At(p, "resolve")
    /\ Artifact(p) # Absent
    /\ Goto(p, "resolveMeta")

\* ArtifactResolver.resolve hashes the file again, then reads the metadata.
ResolveFile(p) ==
    /\ At(p, "resolve")
    /\ \/ Matches(Artifact(p), proc[p].rev) /\ Goto(p, "resolveMeta")
       \/ /\ Artifact(p) # Absent
          /\ ~Matches(Artifact(p), proc[p].rev)
          /\ Finish(p, "integrity-error")
       \/ Artifact(p) = Absent /\ Finish(p, "not-cached")

ResolveMetadata(p) ==
    LET m == file[MetaPath] IN
    /\ At(p, "resolveMeta")
    /\ \/ m \in {Absent, Meta(proc[p].rev)} /\ Goto(p, "load")
       \/ m \in Metas \ {Meta(proc[p].rev)} /\ Finish(p, "integrity-error")
       \/ MetadataUnreadable(p)

\* The Adapter opens the resolved path anew and runs the session.
LoadModel(p) ==
    /\ At(p, "load")
    /\ \/ /\ Artifact(p) # Absent
          /\ proc' = [proc EXCEPT ![p] =
                          [@ EXCEPT !.pc = "idle", !.out = "inferred",
                                    !.loaded = Artifact(p)]]
          /\ UNCHANGED <<file, env, temps, history>>
       \/ Finish(p, "inference-error")

-----------------------------------------------------------------------------
(* The environment                                                         *)

EditManifest ==
    /\ edits < MaxEdits
    /\ current' \in Revs \ {current}
    /\ edits' = edits + 1
    /\ UNCHANGED <<file, proc, faults, temps, history>>

\* A file of the cache is deleted or overwritten by something else.
Tamper ==
    /\ faults < MaxFaults
    /\ faults' = faults + 1
    /\ \E x \in Paths, v \in {Absent, Foreign} :
          /\ file' = [file EXCEPT ![x] = v]
          /\ spoiled' = spoiled \cup {r \in Revs : FileName[r] = x}
    /\ dirty' = Procs
    /\ UNCHANGED <<proc, current, edits, temps>>

\* An invocation is killed: no finally clause runs.
Crash(p) ==
    /\ ~At(p, "idle")
    /\ faults < MaxFaults
    /\ faults' = faults + 1
    /\ struck' = [struck EXCEPT ![p] = @ + 1]
    /\ End(p, "killed")
    /\ UNCHANGED <<file, current, edits, parts, history>>

Step(p) ==
    \/ CheckDestination(p)
    \/ VerifyCached(p)
    \/ ReadFails(p)
    \/ NothingCatches(p)
    \/ EnsureMetadata(p)
    \/ StatDestination(p)
    \/ Receive(p)
    \/ VerifyDownload(p)
    \/ DownloadFails(p)
    \/ ReplaceArtifact(p)
    \/ WriteMetadataTemp(p)
    \/ MetadataFails(p)
    \/ ReplaceMetadata(p)
    \/ StatusFile(p)
    \/ StatusMetadata(p)
    \/ ResolveFile(p)
    \/ ResolveMetadata(p)
    \/ LoadModel(p)

Next ==
    \/ \E p \in Procs : StartPull(p) \/ StartInfer(p) \/ Step(p) \/ Crash(p)
    \/ EditManifest
    \/ Tamper

Spec == Init /\ [][Next]_vars
FairSpec == Spec /\ \A p \in Procs : WF_vars(Step(p))

-----------------------------------------------------------------------------
(* Properties                                                              *)

\* A path never holds a partial or wrong download: what rvai publishes at a
\* path is a metadata record, or the bytes that a revision naming this path
\* declares (ArtifactDownloader: "without exposing partial final files").
NoPartialFile ==
    \A x \in Paths : file[x] \in {Absent, Foreign} \cup Metas
                       \cup {Declared[r] : r \in {s \in Revs : FileName[s] = x}}

\* A pull that exits with success, and during which nobody wrote for another
\* revision or from outside, leaves an entry that rvai infer accepts for
\* that revision, whatever pulls of the same revision raced with it and were
\* killed meanwhile ("verified identical downloads may race").
PullDelivers ==
    \A p \in Procs \ dirty : At(p, "idle") /\ proc[p].out \in Delivered =>
        /\ Artifact(p) = Declared[proc[p].rev]
        /\ file[MetaPath] = Meta(proc[p].rev)

\* ONNX Runtime opens the very bytes the Manifest of the invocation declares
\* unless somebody wrote for another revision since the invocation began.
InferLoadsDeclared ==
    \A p \in Procs \ dirty :
        proc[p].out = "inferred" => proc[p].loaded = Declared[proc[p].rev]

\* Whenever the metadata on disk vouches for a revision, the artifact it
\* vouches for is there, complete, at every instant and after any crash
\* between the two replacements, as long as only pulls of that revision have
\* ever written its path: the artifact is published before its metadata.
MetadataNeverAhead ==
    \A r \in Revs \ spoiled :
        file[MetaPath] = Meta(r) => file[FileName[r]] = Declared[r]

\* A pull that reports an integrity or a download error has not replaced the
\* artifact ("A failed forced download leaves the previous file untouched").
FailedPullKeepsFile ==
    \A p \in Procs :
        proc[p].out \in {"integrity-error", "download-error"} => ~proc[p].fetched

\* A temporary file on disk belongs to a running command, or one command was
\* killed, or refused an unlink, for each: no success, no handled error and
\* no exception that nothing catches leaves one behind, in either of the two
\* functions that make them.
NoTempLeak == \A p \in Procs : parts[p] <= struck[p] + Owned(p)

\* Every started command ends, whatever the others do to the cache.
CommandsEnd == \A p \in Procs : ~At(p, "idle") ~> At(p, "idle")

\* The Adapter's own statement, without the restriction: whatever it opens
\* is what the Resolver verified for the Manifest ("Consume a
\* Resolver-verified ONNX file").
AdapterLoadsVerified ==
    \A p \in Procs :
        proc[p].out = "inferred" => proc[p].loaded = Declared[proc[p].rev]
=============================================================================
