------------------------- MODULE ArtifactCacheProofs -------------------------
(***************************************************************************)
(* Proofs about ArtifactCache, for every number of invocations, revisions, *)
(* paths and contents and every value of the bounds.                       *)
(***************************************************************************)
EXTENDS ArtifactCache, TLAPS

\* No revision of the Manifest names its artifact artifact.json.
NoClash == \A r \in Revs : FileName[r] # MetaPath

LEMMA ValueFacts ==
    /\ Absent \in Values /\ Junk \in Values /\ Foreign \in Values
    /\ \A r \in Revs : Declared[r] \in Values /\ Meta(r) \in Values
BY DEF Values, Contents, Metas

\* The steps of one command that leave the directory and the histories as
\* they are and touch only that command's own record.
LEMMA GotoType ==
    ASSUME TypeOK, NEW p \in Procs, NEW l \in PullSteps \cup InferSteps,
           Goto(p, l)
    PROVE  TypeOK'
BY DEF TypeOK, Goto, Invocation, env, temps, history

LEMMA FinishType ==
    ASSUME TypeOK, NEW p \in Procs, NEW o \in Outcomes, Finish(p, o)
    PROVE  TypeOK'
<1>1. [proc[p] EXCEPT !.pc = "idle", !.out = o, !.temp = Absent] \in Invocation
  BY ValueFacts DEF TypeOK, Invocation
<1>2. proc' \in [Procs -> Invocation]
  BY <1>1 DEF TypeOK, Finish, End
<1>3. /\ parts' \in [Procs -> Int] /\ struck' \in [Procs -> Nat]
      /\ faults' \in 0..MaxFaults
  BY CacheAssumption DEF TypeOK, Finish, Owned, CacheAssumption
<1> QED
  BY <1>2, <1>3 DEF TypeOK, Finish, history

LEMMA StartType ==
    ASSUME TypeOK, NEW p \in Procs, NEW l \in PullSteps \cup InferSteps,
           Start(p, l)
    PROVE  TypeOK'
<1>1. "none" \in Outcomes
  BY DEF Outcomes
<1>2. proc' \in [Procs -> Invocation]
  BY <1>1 DEF TypeOK, Start, Invocation, Values
<1> QED
  BY <1>2 DEF TypeOK, Start, env, temps

LEMMA InitType == Init => TypeOK
BY CacheAssumption DEF CacheAssumption, Init, TypeOK, Invocation, Values, Outcomes

LEMMA StepType ==
    ASSUME TypeOK, NEW p \in Procs, Step(p)
    PROVE  TypeOK'
<1>1. CASE CheckDestination(p)
  <2>1. ASSUME proc' = [proc EXCEPT ![p] =
                          [@ EXCEPT !.pc = "stream", !.temp = Junk]],
               parts' = [parts EXCEPT ![p] = @ + 1],
               UNCHANGED <<file, env, struck, history>>
        PROVE  TypeOK'
    <3>1. [proc[p] EXCEPT !.pc = "stream", !.temp = Junk] \in Invocation
      BY ValueFacts DEF TypeOK, Invocation, PullSteps
    <3>2. proc' \in [Procs -> Invocation]
      BY <2>1, <3>1 DEF TypeOK
    <3> QED
      BY <2>1, <3>2 DEF TypeOK, env, history
  <2> QED
    BY <1>1, <2>1, GotoType, FinishType
    DEF CheckDestination, PullSteps, Outcomes
<1>2. CASE VerifyCached(p)
  BY <1>2, GotoType, FinishType DEF VerifyCached, PullSteps, Outcomes
<1>3. CASE ReadFails(p)
  BY <1>3, FinishType DEF ReadFails, Outcomes
<1>4. CASE EnsureMetadata(p)
  BY <1>4, GotoType, FinishType
  DEF EnsureMetadata, MetadataUnreadable, PullSteps, Outcomes, Delivered
<1>5. CASE StatDestination(p)
  BY <1>5, GotoType DEF StatDestination, PullSteps
<1>6. CASE Receive(p)
  <2>1. PICK v \in Contents \cup {Junk} :
          proc' = [proc EXCEPT ![p] = [@ EXCEPT !.pc = "received", !.temp = v]]
    BY <1>6 DEF Receive
  <2>2. v \in Values
    BY DEF Values
  <2>3. [proc[p] EXCEPT !.pc = "received", !.temp = v] \in Invocation
    BY <2>2 DEF TypeOK, Invocation, PullSteps
  <2>4. proc' \in [Procs -> Invocation]
    BY <2>1, <2>3 DEF TypeOK
  <2> QED
    BY <1>6, <2>4 DEF TypeOK, Receive, env, temps, history
<1>7. CASE VerifyDownload(p)
  BY <1>7, GotoType, FinishType DEF VerifyDownload, PullSteps, Outcomes
<1>8. CASE DownloadFails(p)
  BY <1>8, FinishType DEF DownloadFails, Outcomes
<1>9. CASE ReplaceArtifact(p)
  <2>0. [proc[p] EXCEPT !.pc = "metaTemp", !.temp = Absent, !.fetched = TRUE]
          \in Invocation
    BY ValueFacts DEF TypeOK, Invocation, PullSteps
  <2>1. proc' \in [Procs -> Invocation]
    BY <1>9, <2>0 DEF TypeOK, ReplaceArtifact
  <2>2. file' \in [Paths -> Values]
    BY <1>9 DEF TypeOK, ReplaceArtifact, Invocation
  <2> QED
    BY <1>9, <2>1, <2>2 DEF TypeOK, ReplaceArtifact, Disturb, env
<1>10. CASE WriteMetadataTemp(p)
  <2>1. [proc[p] EXCEPT !.pc = "metaReplace", !.temp = Meta(proc[p].rev)]
          \in Invocation
    BY ValueFacts DEF TypeOK, Invocation, PullSteps
  <2>2. proc' \in [Procs -> Invocation]
    BY <1>10, <2>1 DEF TypeOK, WriteMetadataTemp
  <2> QED
    BY <1>10, <2>2 DEF TypeOK, WriteMetadataTemp, env, history
<1>11. CASE MetadataFails(p)
  BY <1>11, FinishType DEF MetadataFails, Outcomes
<1>12. CASE ReplaceMetadata(p)
  <2> DEFINE o == IF proc[p].fetched THEN "downloaded" ELSE "already-cached"
  <2>0. [proc[p] EXCEPT !.pc = "idle", !.temp = Absent, !.out = o] \in Invocation
    <3>1. o \in Outcomes
      BY DEF Outcomes, Delivered
    <3> QED
      BY <3>1, ValueFacts DEF TypeOK, Invocation
  <2>1. proc' \in [Procs -> Invocation]
    BY <1>12, <2>0 DEF TypeOK, ReplaceMetadata
  <2>2. file' \in [Paths -> Values]
    BY <1>12 DEF TypeOK, ReplaceMetadata, Invocation
  <2> QED
    BY <1>12, <2>1, <2>2 DEF TypeOK, ReplaceMetadata, Disturb, env
<1>13. CASE StatusFile(p)
  BY <1>13, GotoType, FinishType DEF StatusFile, InferSteps, Outcomes
<1>14. CASE StatusMetadata(p)
  BY <1>14, GotoType, FinishType DEF StatusMetadata, InferSteps, Outcomes
<1>15. CASE ResolveFile(p)
  BY <1>15, GotoType, FinishType DEF ResolveFile, InferSteps, Outcomes
<1>16. CASE ResolveMetadata(p)
  BY <1>16, GotoType, FinishType
  DEF ResolveMetadata, MetadataUnreadable, InferSteps, Outcomes
<1>17. CASE LoadModel(p)
  <2>1. ASSUME proc' = [proc EXCEPT ![p] =
                          [@ EXCEPT !.pc = "idle", !.out = "inferred",
                                    !.loaded = Artifact(p)]],
               UNCHANGED <<file, env, temps, history>>
        PROVE  TypeOK'
    <3>1. Artifact(p) \in Values
      BY CacheAssumption DEF TypeOK, Artifact, Invocation, CacheAssumption
    <3>0. [proc[p] EXCEPT !.pc = "idle", !.out = "inferred",
                          !.loaded = Artifact(p)] \in Invocation
      BY <3>1 DEF TypeOK, Invocation, Outcomes
    <3>2. proc' \in [Procs -> Invocation]
      BY <2>1, <3>0 DEF TypeOK
    <3> QED
      BY <2>1, <3>2 DEF TypeOK, env, temps, history
  <2> QED
    BY <1>17, <2>1, FinishType DEF LoadModel, Outcomes
<1>18. CASE NothingCatches(p)
  BY <1>18, FinishType DEF NothingCatches, Outcomes
<1> QED
  BY <1>1, <1>2, <1>3, <1>4, <1>5, <1>6, <1>7, <1>8, <1>9, <1>10, <1>11,
     <1>12, <1>13, <1>14, <1>15, <1>16, <1>17, <1>18
  DEF Step

LEMMA TypeStep == TypeOK /\ [Next]_vars => TypeOK'
<1> SUFFICES ASSUME TypeOK, [Next]_vars PROVE TypeOK'
  OBVIOUS
<1>1. ASSUME NEW p \in Procs, StartPull(p) PROVE TypeOK'
  BY <1>1, StartType DEF StartPull, PullSteps
<1>2. ASSUME NEW p \in Procs, StartInfer(p) PROVE TypeOK'
  BY <1>2, StartType DEF StartInfer, InferSteps
<1>3. ASSUME NEW p \in Procs, Step(p) PROVE TypeOK'
  BY <1>3, StepType
<1>4. ASSUME NEW p \in Procs, Crash(p) PROVE TypeOK'
  <2>0. [proc[p] EXCEPT !.pc = "idle", !.out = "killed", !.temp = Absent]
          \in Invocation
    BY ValueFacts DEF TypeOK, Invocation, Outcomes
  <2>1. proc' \in [Procs -> Invocation]
    BY <1>4, <2>0 DEF TypeOK, Crash, End
  <2>2. struck' \in [Procs -> Nat]
    BY <1>4 DEF TypeOK, Crash
  <2>3. faults' \in 0..MaxFaults
    BY <1>4, CacheAssumption DEF TypeOK, Crash, CacheAssumption
  <2> QED
    BY <1>4, <2>1, <2>2, <2>3 DEF TypeOK, Crash, history
<1>5. ASSUME EditManifest PROVE TypeOK'
  BY <1>5, CacheAssumption
  DEF TypeOK, EditManifest, CacheAssumption, temps, history
<1>6. ASSUME Tamper PROVE TypeOK'
  <2>1. file' \in [Paths -> Values]
    BY <1>6 DEF TypeOK, Tamper, Values
  <2> QED
    BY <1>6, <2>1, CacheAssumption DEF TypeOK, Tamper, CacheAssumption, temps
<1>7. CASE UNCHANGED vars
  BY <1>7 DEF TypeOK, vars, env, temps, history
<1> QED
  BY <1>1, <1>2, <1>3, <1>4, <1>5, <1>6, <1>7 DEF Next

\* TypeOK holds in every reachable state (every field an invocation keeps,
\* and every file, stays within what the code can put there).
THEOREM TypeCorrect == Spec => []TypeOK
<1>1. Init => TypeOK
  BY InitType
<1> QED
  BY <1>1, TypeStep, PTL DEF Spec

-----------------------------------------------------------------------------
(* The inductive invariant.  Three facts about the steps between the two   *)
(* replacements carry the safety properties: only verified bytes and the   *)
(* record of the invocation's own revision reach an os.replace, the        *)
(* artifact an invocation has verified or published stays what it was      *)
(* while nobody disturbs it, and a command that replaced the artifact ends *)
(* only through its metadata.                                              *)

Settled == {"ensure", "stat", "metaTemp", "metaReplace", "resolveMeta", "load"}
Failed == {"integrity-error", "download-error"}

\* Nobody can have changed the artifact behind q's back.
Undisturbed(q) == q \notin dirty \/ proc[q].rev \notin spoiled

Good(q) ==
    /\ ~At(q, "idle") => proc[q].out = "none"
    /\ At(q, "replace") => proc[q].temp = Declared[proc[q].rev]
    /\ At(q, "metaReplace") => proc[q].temp = Meta(proc[q].rev)
    /\ proc[q].pc \in Settled /\ Undisturbed(q)
         => Artifact(q) = Declared[proc[q].rev]
    /\ proc[q].fetched => proc[q].pc \in {"idle", "metaTemp", "metaReplace"}
    /\ proc[q].out \in Failed => ~proc[q].fetched
    /\ q \notin dirty /\ At(q, "idle") /\ proc[q].out \in Delivered =>
         /\ Artifact(q) = Declared[proc[q].rev]
         /\ file[MetaPath] = Meta(proc[q].rev)
    /\ q \notin dirty /\ proc[q].out = "inferred"
         => proc[q].loaded = Declared[proc[q].rev]

IInv ==
    /\ TypeOK
    /\ NoPartialFile
    /\ MetadataNeverAhead
    /\ \A q \in Procs : Good(q)

\* A step that leaves the files and the other commands as they are keeps IInv
\* if it leaves its own command in order.
LEMMA LocalStep ==
    ASSUME IInv, TypeOK', NEW p \in Procs, NEW r,
           proc' = [proc EXCEPT ![p] = r],
           UNCHANGED <<file, spoiled>>,
           \A q \in Procs \ {p} : q \in dirty' <=> q \in dirty,
           Good(p)'
    PROVE  IInv'
<1>1. NoPartialFile' /\ MetadataNeverAhead'
  BY DEF IInv, NoPartialFile, MetadataNeverAhead
<1>2. ASSUME NEW q \in Procs \ {p} PROVE Good(q)'
  <2>1. proc'[q] = proc[q]
    BY DEF IInv, TypeOK
  <2> QED
    BY <1>2, <2>1 DEF IInv, Good, At, Artifact, Undisturbed
<1> QED
  BY <1>1, <1>2 DEF IInv

LEMMA GotoSafe ==
    ASSUME IInv, NEW p \in Procs, NEW l \in PullSteps \cup InferSteps,
           Goto(p, l), ~At(p, "idle"), ~proc[p].fetched, l # "metaReplace",
           l = "replace" => proc[p].temp = Declared[proc[p].rev],
           l \in Settled /\ Undisturbed(p)
             => Artifact(p) = Declared[proc[p].rev]
    PROVE  IInv'
<1>1. TypeOK'
  BY GotoType DEF IInv
<1>2. /\ proc'[p].pc = l
      /\ proc'[p].out = "none" /\ ~proc'[p].fetched
      /\ proc'[p].rev = proc[p].rev /\ proc'[p].temp = proc[p].temp
  BY DEF Goto, IInv, TypeOK, Invocation, Good, At
<1>3. Good(p)'
  BY <1>2 DEF Goto, Good, At, Artifact, Undisturbed, Failed, Delivered, history
<1> QED
  BY <1>1, <1>3, LocalStep DEF Goto, history

LEMMA FinishSafe ==
    ASSUME IInv, NEW p \in Procs, NEW o \in Outcomes \ {"inferred"},
           Finish(p, o), o \in Failed => ~proc[p].fetched,
           o \in Delivered /\ p \notin dirty =>
             /\ Artifact(p) = Declared[proc[p].rev]
             /\ file[MetaPath] = Meta(proc[p].rev)
    PROVE  IInv'
<1>1. TypeOK'
  BY FinishType DEF IInv
<1>2. /\ proc'[p].pc = "idle" /\ proc'[p].out = o
      /\ proc'[p].fetched = proc[p].fetched
      /\ proc'[p].rev = proc[p].rev
  BY DEF Finish, End, IInv, TypeOK, Invocation
<1>3. Good(p)'
  BY <1>2 DEF Finish, Good, At, Artifact, Settled, history
<1> QED
  BY <1>1, <1>3, LocalStep DEF Finish, End, history

LEMMA StartSafe ==
    ASSUME IInv, NEW p \in Procs, NEW l \in {"exists", "status"},
           Start(p, l)
    PROVE  IInv'
<1>1. TypeOK'
  BY StartType DEF IInv, PullSteps, InferSteps
<1>2. /\ proc'[p].pc = l /\ proc'[p].out = "none" /\ ~proc'[p].fetched
  BY DEF Start, IInv, TypeOK, Invocation
<1>3. Good(p)'
  BY <1>2 DEF Start, Good, At, Settled, Failed, Delivered
<1> QED
  BY <1>1, <1>3, LocalStep DEF Start

\* os.replace of the artifact: the bytes are verified, so the commands for the
\* same revision keep what they had, and the others are disturbed.
LEMMA ReplaceArtifactSafe ==
    ASSUME NoClash, IInv, NEW p \in Procs, ReplaceArtifact(p)
    PROVE  IInv'
<1>1. TypeOK /\ TypeOK' /\ Good(p) /\ At(p, "replace")
  BY StepType DEF IInv, Step, ReplaceArtifact
<1> DEFINE r == proc[p].rev
<1>2. r \in Revs /\ FileName[r] \in Paths /\ MetaPath \in Paths
  BY <1>1, CacheAssumption DEF TypeOK, Invocation, CacheAssumption
<1>3. /\ proc'[p].pc = "metaTemp" /\ proc'[p].rev = r
      /\ proc'[p].out = "none"
      /\ \A q \in Procs \ {p} : proc'[q] = proc[q]
  BY <1>1 DEF TypeOK, Invocation, ReplaceArtifact, Good, At
<1>4. /\ file'[FileName[r]] = Declared[r]
      /\ \A x \in Paths \ {FileName[r]} : file'[x] = file[x]
      /\ file'[MetaPath] = file[MetaPath]
  BY <1>1, <1>2 DEF TypeOK, ReplaceArtifact, Good, NoClash
<1>5. NoPartialFile'
  BY <1>2, <1>4 DEF IInv, NoPartialFile
<1>6. MetadataNeverAhead'
  <2> SUFFICES ASSUME NEW s \in Revs \ spoiled', file'[MetaPath] = Meta(s)
               PROVE  file'[FileName[s]] = Declared[s]
    BY DEF MetadataNeverAhead
  <2>1. s \notin spoiled /\ (s = r \/ FileName[s] # FileName[r])
    BY DEF ReplaceArtifact
  <2>2. FileName[s] \in Paths
    BY CacheAssumption DEF CacheAssumption
  <2> QED
    BY <1>4, <2>1, <2>2 DEF IInv, MetadataNeverAhead
<1>8. Good(p)'
  BY <1>3, <1>4 DEF Good, At, Artifact, Settled, Failed, Delivered
<1>9. ASSUME NEW q \in Procs \ {p} PROVE Good(q)'
  <2>1. proc'[q] = proc[q] /\ Good(q) /\ proc[q].rev \in Revs
    BY <1>1, <1>3 DEF IInv, TypeOK, Invocation
  <2>2. FileName[proc[q].rev] \in Paths
    BY <2>1, CacheAssumption DEF CacheAssumption
  <2>3. CASE proc[q].rev = r
    BY <1>3, <1>4, <2>1, <2>3
    DEF Good, At, Artifact, Undisturbed, Disturb, ReplaceArtifact
  <2>4. CASE proc[q].rev # r
    <3>1. q \in dirty'
      BY <2>4 DEF ReplaceArtifact, Disturb
    <3>2. CASE FileName[proc[q].rev] = FileName[r]
      <4>1. proc[q].rev \in spoiled'
        BY <2>1, <2>4, <3>2 DEF ReplaceArtifact
      <4> QED
        BY <2>1, <3>1, <4>1 DEF Good, At, Undisturbed
    <3>3. CASE FileName[proc[q].rev] # FileName[r]
      <4>1. Artifact(q)' = Artifact(q)
        BY <1>4, <2>1, <2>2, <3>3 DEF Artifact
      <4>2. Undisturbed(q)' => Undisturbed(q)
        BY <2>1, <3>1 DEF Undisturbed, ReplaceArtifact
      <4> QED
        BY <2>1, <3>1, <4>1, <4>2 DEF Good, At
    <3> QED
      BY <3>2, <3>3
  <2> QED
    BY <2>3, <2>4
<1> QED
  BY <1>1, <1>5, <1>6, <1>8, <1>9 DEF IInv

\* os.replace of the metadata: it vouches for an artifact that is in place.
LEMMA ReplaceMetadataSafe ==
    ASSUME NoClash, IInv, NEW p \in Procs, ReplaceMetadata(p)
    PROVE  IInv'
<1>1. TypeOK /\ TypeOK' /\ Good(p) /\ At(p, "metaReplace")
  BY StepType DEF IInv, Step, ReplaceMetadata
<1> DEFINE r == proc[p].rev
<1>2. r \in Revs /\ MetaPath \in Paths
  BY <1>1, CacheAssumption DEF TypeOK, Invocation, CacheAssumption
<1>3. /\ proc'[p].pc = "idle" /\ proc'[p].rev = r
      /\ proc'[p].out \in Delivered
      /\ \A q \in Procs \ {p} : proc'[q] = proc[q]
  BY <1>1 DEF TypeOK, Invocation, ReplaceMetadata, Delivered
<1>4. /\ file'[MetaPath] = Meta(r)
      /\ \A x \in Paths \ {MetaPath} : file'[x] = file[x]
      /\ \A s \in Revs : file'[FileName[s]] = file[FileName[s]]
  BY <1>1, <1>2, CacheAssumption
  DEF TypeOK, ReplaceMetadata, Good, At, NoClash, CacheAssumption
<1>5. NoPartialFile'
  BY <1>2, <1>4 DEF IInv, NoPartialFile, Metas
<1>6. MetadataNeverAhead'
  <2> SUFFICES ASSUME NEW s \in Revs \ spoiled', file'[MetaPath] = Meta(s)
               PROVE  file'[FileName[s]] = Declared[s]
    BY DEF MetadataNeverAhead
  <2>1. s = r
    BY <1>4 DEF Meta
  <2>2. Artifact(p) = Declared[r]
    BY <1>1, <2>1 DEF Good, At, Settled, Undisturbed, ReplaceMetadata
  <2> QED
    BY <1>4, <2>1, <2>2 DEF Artifact
<1>8. Good(p)'
  <2>1. p \notin dirty' => Artifact(p) = Declared[r]
    BY <1>1 DEF ReplaceMetadata, Disturb, Good, At, Settled, Undisturbed
  <2> QED
    BY <1>2, <1>3, <1>4, <2>1
    DEF Good, At, Artifact, Settled, Failed, Delivered
<1>9. ASSUME NEW q \in Procs \ {p} PROVE Good(q)'
  <2>1. proc'[q] = proc[q] /\ Good(q) /\ proc[q].rev \in Revs
    BY <1>1, <1>3 DEF IInv, TypeOK, Invocation
  <2>2. Artifact(q)' = Artifact(q)
    BY <1>4, <2>1 DEF Artifact
  <2>3. Undisturbed(q)' => Undisturbed(q)
    BY <2>1 DEF Undisturbed, ReplaceMetadata, Disturb
  <2>4. q \notin dirty' => q \notin dirty /\ proc[q].rev = r
    BY DEF ReplaceMetadata, Disturb
  <2> QED
    BY <1>4, <2>1, <2>2, <2>3, <2>4 DEF Good, At
<1> QED
  BY <1>1, <1>5, <1>6, <1>8, <1>9 DEF IInv

\* Every step of a command keeps the invariant.
LEMMA StepSafe ==
    ASSUME NoClash, IInv, NEW p \in Procs, Step(p)
    PROVE  IInv'
<1> USE DEF At
<1>0. TypeOK /\ TypeOK' /\ Good(p) /\ ~At(p, "idle")
  BY StepType DEF IInv, Step, CheckDestination, VerifyCached, ReadFails,
     EnsureMetadata, StatDestination, Receive, VerifyDownload, DownloadFails,
     ReplaceArtifact, WriteMetadataTemp, MetadataFails, ReplaceMetadata,
     StatusFile, StatusMetadata, ResolveFile, ResolveMetadata, LoadModel,
     NothingCatches
<1> DEFINE late == At(p, "metaTemp") \/ At(p, "metaReplace")
<1>a. ~late => ~proc[p].fetched
  BY <1>0 DEF Good
<1>1. CASE CheckDestination(p)
  <2>1. ASSUME proc' = [proc EXCEPT ![p] =
                          [@ EXCEPT !.pc = "stream", !.temp = Junk]],
               UNCHANGED <<file, env, struck, history>>
        PROVE  IInv'
    <3>1. /\ proc'[p].pc = "stream" /\ proc'[p].out = "none"
          /\ ~proc'[p].fetched
      BY <1>0, <1>1, <1>a, <2>1
      DEF TypeOK, Invocation, Good, CheckDestination
    <3>2. Good(p)'
      BY <3>1 DEF Good, Settled, Failed, Delivered
    <3> QED
      BY <1>0, <2>1, <3>2, LocalStep DEF history
  <2> QED
    BY <1>1, <2>1, <1>a, GotoSafe, FinishSafe
    DEF CheckDestination, PullSteps, Outcomes, Settled, Delivered, Failed
<1>2. CASE VerifyCached(p)
  BY <1>2, <1>a, GotoSafe, FinishSafe
  DEF VerifyCached, Matches, PullSteps, Outcomes, Delivered, Failed
<1>3. CASE ReadFails(p)
  BY <1>3, FinishSafe DEF ReadFails, Outcomes, Delivered, Failed
<1>4. CASE EnsureMetadata(p)
  BY <1>4, <1>0, <1>a, GotoSafe, FinishSafe
  DEF EnsureMetadata, MetadataUnreadable, Good, Undisturbed, PullSteps,
      Outcomes, Settled, Delivered, Failed
<1>5. CASE StatDestination(p)
  BY <1>5, <1>0, <1>a, GotoSafe
  DEF StatDestination, Good, PullSteps, Settled
<1>6. CASE Receive(p)
  <2>1. PICK v \in Contents \cup {Junk} :
          proc' = [proc EXCEPT ![p] = [@ EXCEPT !.pc = "received", !.temp = v]]
    BY <1>6 DEF Receive
  <2>2. /\ proc'[p].pc = "received" /\ proc'[p].out = "none"
        /\ ~proc'[p].fetched
    BY <1>0, <1>6, <1>a, <2>1 DEF TypeOK, Invocation, Good, Receive
  <2>3. Good(p)'
    BY <2>2 DEF Good, Settled, Failed, Delivered
  <2> QED
    BY <1>0, <1>6, <2>1, <2>3, LocalStep DEF Receive, history
<1>7. CASE VerifyDownload(p)
  BY <1>7, <1>a, GotoSafe, FinishSafe
  DEF VerifyDownload, Matches, PullSteps, Outcomes, Settled, Delivered, Failed
<1>8. CASE DownloadFails(p)
  BY <1>8, <1>a, FinishSafe DEF DownloadFails, Outcomes, Delivered, Failed
<1>9. CASE ReplaceArtifact(p)
  BY <1>9, ReplaceArtifactSafe
<1>10. CASE WriteMetadataTemp(p)
  <2>1. /\ proc'[p].pc = "metaReplace" /\ proc'[p].out = "none"
        /\ proc'[p].rev = proc[p].rev
        /\ proc'[p].temp = Meta(proc[p].rev)
    BY <1>0, <1>10 DEF TypeOK, Invocation, Good, WriteMetadataTemp
  <2>2. Good(p)'
    BY <1>0, <1>10, <2>1
    DEF WriteMetadataTemp, Good, Settled, Failed, Delivered, Undisturbed,
        Artifact, history
  <2> QED
    BY <1>0, <1>10, <2>2, LocalStep DEF WriteMetadataTemp, history
<1>11. CASE MetadataFails(p)
  BY <1>11, FinishSafe DEF MetadataFails, Outcomes, Delivered, Failed
<1>12. CASE ReplaceMetadata(p)
  BY <1>12, ReplaceMetadataSafe
<1>13. CASE StatusFile(p)
  BY <1>13, <1>a, GotoSafe, FinishSafe
  DEF StatusFile, InferSteps, Outcomes, Settled, Delivered, Failed
<1>14. CASE StatusMetadata(p)
  BY <1>14, <1>a, GotoSafe, FinishSafe
  DEF StatusMetadata, InferSteps, Outcomes, Settled, Delivered, Failed
<1>15. CASE ResolveFile(p)
  BY <1>15, <1>a, GotoSafe, FinishSafe
  DEF ResolveFile, Matches, InferSteps, Outcomes, Delivered, Failed
<1>16. CASE ResolveMetadata(p)
  BY <1>16, <1>0, <1>a, GotoSafe, FinishSafe
  DEF ResolveMetadata, MetadataUnreadable, Good, InferSteps, Outcomes, Settled,
      Delivered, Failed
<1>17. CASE LoadModel(p)
  <2>1. ASSUME proc' = [proc EXCEPT ![p] =
                          [@ EXCEPT !.pc = "idle", !.out = "inferred",
                                    !.loaded = Artifact(p)]],
               UNCHANGED <<file, env, temps, history>>
        PROVE  IInv'
    <3>1. /\ proc'[p].pc = "idle" /\ proc'[p].out = "inferred"
          /\ ~proc'[p].fetched /\ proc'[p].rev = proc[p].rev
          /\ proc'[p].loaded = Artifact(p)
      BY <1>0, <1>17, <1>a, <2>1
      DEF TypeOK, Invocation, LoadModel
    <3>2. Good(p)'
      BY <1>0, <1>17, <2>1, <3>1
      DEF LoadModel, Good, Settled, Failed, Delivered, Undisturbed, history
    <3> QED
      BY <1>0, <2>1, <3>2, LocalStep DEF history
  <2> QED
    BY <1>17, <2>1, <1>a, FinishSafe DEF LoadModel, Outcomes, Delivered, Failed
<1>18. CASE NothingCatches(p)
  BY <1>18, FinishSafe DEF NothingCatches, Outcomes, Delivered, Failed
<1> QED
  BY <1>1, <1>2, <1>3, <1>4, <1>5, <1>6, <1>7, <1>8, <1>9, <1>10, <1>11,
     <1>12, <1>13, <1>14, <1>15, <1>16, <1>17, <1>18
  DEF Step

LEMMA InitSafe == Init => IInv
<1> SUFFICES ASSUME Init PROVE IInv
  OBVIOUS
<1>1. TypeOK
  BY InitType
<1>2. NoPartialFile
  BY DEF Init, NoPartialFile
<1>3. MetadataNeverAhead
  BY CacheAssumption
  DEF Init, MetadataNeverAhead, CacheAssumption, Metas
<1>4. ASSUME NEW q \in Procs PROVE Good(q)
  BY DEF Init, Good, At, Settled, Failed, Delivered
<1> QED
  BY <1>1, <1>2, <1>3, <1>4 DEF IInv

LEMMA CrashSafe ==
    ASSUME IInv, NEW p \in Procs, Crash(p)
    PROVE  IInv'
<1>1. TypeOK'
  BY TypeStep DEF IInv, Next
<1>2. /\ proc'[p].pc = "idle" /\ proc'[p].out = "killed"
      /\ proc'[p].fetched = proc[p].fetched
  BY DEF Crash, End, IInv, TypeOK, Invocation
<1>3. Good(p)'
  BY <1>2 DEF Good, At, Settled, Failed, Delivered
<1> QED
  BY <1>1, <1>3, LocalStep DEF Crash, End, history

LEMMA TamperSafe ==
    ASSUME IInv, Tamper
    PROVE  IInv'
<1>1. TypeOK /\ TypeOK'
  BY TypeStep DEF IInv, Next
<1>2. PICK x \in Paths, v \in {Absent, Foreign} :
        /\ file' = [file EXCEPT ![x] = v]
        /\ spoiled' = spoiled \cup {r \in Revs : FileName[r] = x}
  BY DEF Tamper
<1>3. /\ file'[x] = v
      /\ \A y \in Paths \ {x} : file'[y] = file[y]
  BY <1>1, <1>2 DEF TypeOK
<1>4. /\ MetaPath \in Paths
      /\ \A r \in Revs : FileName[r] \in Paths /\ Meta(r) # v
  BY CacheAssumption DEF CacheAssumption, Metas
<1>5. NoPartialFile'
  BY <1>3 DEF IInv, NoPartialFile
<1>6. MetadataNeverAhead'
  BY <1>2, <1>3, <1>4 DEF IInv, MetadataNeverAhead
<1>8. ASSUME NEW q \in Procs PROVE Good(q)'
  <2>1. /\ proc'[q] = proc[q] /\ q \in dirty'
        /\ Good(q) /\ proc[q].rev \in Revs
    BY <1>1 DEF Tamper, IInv, TypeOK, Invocation
  <2>2. Undisturbed(q)' => Undisturbed(q) /\ Artifact(q)' = Artifact(q)
    BY <1>2, <1>3, <1>4, <2>1 DEF Undisturbed, Artifact
  <2> QED
    BY <2>1, <2>2 DEF Good, At
<1> QED
  BY <1>1, <1>5, <1>6, <1>8 DEF IInv

\* IInv is an inductive invariant: every reachable state satisfies it.
THEOREM Inductive == ASSUME NoClash PROVE Spec => []IInv
<1>1. Init => IInv
  BY InitSafe
<1>2. IInv /\ [Next]_vars => IInv'
  <2> SUFFICES ASSUME IInv, [Next]_vars PROVE IInv'
    OBVIOUS
  <2>1. ASSUME NEW p \in Procs, StartPull(p) \/ StartInfer(p) PROVE IInv'
    BY <2>1, StartSafe DEF StartPull, StartInfer
  <2>2. ASSUME NEW p \in Procs, Step(p) PROVE IInv'
    BY <2>2, StepSafe
  <2>3. ASSUME NEW p \in Procs, Crash(p) PROVE IInv'
    BY <2>3, CrashSafe
  <2>4. CASE EditManifest
    <3>1. TypeOK'
      BY <2>4, TypeStep DEF IInv, Next
    <3> QED
      BY <2>4, <3>1
      DEF EditManifest, IInv, NoPartialFile, MetadataNeverAhead, Good, At,
          Artifact, Undisturbed, history
  <2>5. CASE Tamper
    BY <2>5, TamperSafe
  <2>6. CASE UNCHANGED vars
    BY <2>6
    DEF vars, env, temps, history, IInv, TypeOK, NoPartialFile, MetadataNeverAhead,
        Good, At, Artifact, Undisturbed
  <2> QED
    BY <2>1, <2>2, <2>3, <2>4, <2>5, <2>6 DEF Next
<1> QED
  BY <1>1, <1>2, PTL DEF Spec

\* No path of the cache ever holds a partial or a wrong download.
THEOREM NeverPartial == ASSUME NoClash PROVE Spec => []NoPartialFile
BY Inductive, PTL DEF IInv

\* A pull that succeeded, with nobody writing for another revision or from
\* outside, has left an entry that infer accepts.
THEOREM PullsDeliver == ASSUME NoClash PROVE Spec => []PullDelivers
<1>1. IInv => PullDelivers
  BY DEF IInv, Good, PullDelivers
<1> QED
  BY <1>1, Inductive, PTL

\* Undisturbed, ONNX Runtime opens the bytes the Manifest declares.
THEOREM InferSafe == ASSUME NoClash PROVE Spec => []InferLoadsDeclared
<1>1. IInv => InferLoadsDeclared
  BY DEF IInv, Good, InferLoadsDeclared
<1> QED
  BY <1>1, Inductive, PTL

\* Metadata on disk never vouches for an artifact that is not there.
THEOREM MetadataOrder == ASSUME NoClash PROVE Spec => []MetadataNeverAhead
BY Inductive, PTL DEF IInv

\* A pull that failed to download or to verify has not replaced the artifact.
THEOREM FailureKeepsFile == ASSUME NoClash PROVE Spec => []FailedPullKeepsFile
<1>1. IInv => FailedPullKeepsFile
  BY DEF IInv, Good, FailedPullKeepsFile, Failed
<1> QED
  BY <1>1, Inductive, PTL

-----------------------------------------------------------------------------
(* Temporary files.  A command holds one exactly at the steps between its  *)
(* creation and its replacement, so that each end of a command removes the *)
(* one there is; this holds whatever names the artifacts have.             *)

Holding == {"stream", "received", "replace", "metaReplace"}

Tidy(q) ==
    /\ proc[q].temp # Absent <=> proc[q].pc \in Holding
    /\ parts[q] <= struck[q] + Owned(q)

TInv == TypeOK /\ \A q \in Procs : Tidy(q)

LEMMA Present ==
    /\ Junk # Absent
    /\ \A r \in Revs : Declared[r] # Absent /\ Meta(r) # Absent
BY CacheAssumption DEF CacheAssumption, Contents, Metas

\* A step of one command touches no other command's temporary files.
LEMMA TidyLocal ==
    ASSUME TInv, TypeOK', NEW p \in Procs, NEW r,
           proc' = [proc EXCEPT ![p] = r],
           \A q \in Procs \ {p} : parts'[q] = parts[q] /\ struck'[q] = struck[q],
           Tidy(p)'
    PROVE  TInv'
<1>1. ASSUME NEW q \in Procs \ {p} PROVE Tidy(q)'
  <2>1. proc'[q] = proc[q] /\ parts'[q] = parts[q] /\ struck'[q] = struck[q]
    BY DEF TInv, TypeOK
  <2> QED
    BY <2>1 DEF TInv, Tidy, Owned
<1> QED
  BY <1>1 DEF TInv

LEMMA TidyGoto ==
    ASSUME TInv, NEW p \in Procs, NEW l \in PullSteps \cup InferSteps,
           Goto(p, l), l \in Holding <=> proc[p].pc \in Holding
    PROVE  TInv'
<1>1. TypeOK'
  BY GotoType DEF TInv
<1>2. proc'[p].pc = l /\ proc'[p].temp = proc[p].temp
  BY DEF Goto, TInv, TypeOK, Invocation
<1>3. Tidy(p)'
  BY <1>2 DEF Goto, TInv, Tidy, Owned, temps
<1> QED
  BY <1>1, <1>3, TidyLocal DEF Goto, temps

LEMMA TidyFinish ==
    ASSUME TInv, NEW p \in Procs, NEW o \in Outcomes, Finish(p, o)
    PROVE  TInv'
<1>1. TypeOK' /\ TypeOK
  BY FinishType DEF TInv
<1>2. proc'[p].pc = "idle" /\ proc'[p].temp = Absent
  BY DEF Finish, End, TInv, TypeOK, Invocation
<1>3. parts'[p] <= struck'[p]
  BY <1>1 DEF Finish, TInv, TypeOK, Tidy, Owned
<1>4. Tidy(p)'
  BY <1>1, <1>2, <1>3 DEF Tidy, Owned, Holding, TypeOK
<1>5. \A q \in Procs \ {p} : parts'[q] = parts[q] /\ struck'[q] = struck[q]
  BY <1>1 DEF Finish, TypeOK
<1> QED
  BY <1>1, <1>4, <1>5, TidyLocal DEF Finish, End

\* The two functions that make a temporary file, and the two replacements.
LEMMA TidyMake ==
    ASSUME TInv, TypeOK', NEW p \in Procs, NEW l \in Holding, NEW v,
           v # Absent, proc[p].pc \notin Holding,
           proc' = [proc EXCEPT ![p] = [@ EXCEPT !.pc = l, !.temp = v]],
           parts' = [parts EXCEPT ![p] = @ + 1], UNCHANGED struck
    PROVE  TInv'
<1>1. proc'[p].pc = l /\ proc'[p].temp = v
  BY DEF TInv, TypeOK, Invocation
<1>2. proc[p].temp = Absent /\ parts[p] <= struck[p]
  BY DEF TInv, TypeOK, Tidy, Owned
<1>3. Tidy(p)'
  BY <1>1, <1>2 DEF TInv, TypeOK, Tidy, Owned
<1>4. \A q \in Procs \ {p} : parts'[q] = parts[q] /\ struck'[q] = struck[q]
  BY DEF TInv, TypeOK
<1> QED
  BY <1>3, <1>4, TidyLocal

LEMMA TidyReplace ==
    ASSUME TInv, TypeOK', NEW p \in Procs, NEW r,
           proc[p].pc \in Holding, r.pc \notin Holding, r.temp = Absent,
           proc' = [proc EXCEPT ![p] = r],
           parts' = [parts EXCEPT ![p] = @ - 1], UNCHANGED struck
    PROVE  TInv'
<1>1. proc'[p] = r
  BY DEF TInv, TypeOK
<1>2. parts[p] <= struck[p] + 1
  BY DEF TInv, TypeOK, Tidy, Owned
<1>3. Tidy(p)'
  BY <1>1, <1>2 DEF TInv, TypeOK, Tidy, Owned
<1>4. \A q \in Procs \ {p} : parts'[q] = parts[q] /\ struck'[q] = struck[q]
  BY DEF TInv, TypeOK
<1> QED
  BY <1>3, <1>4, TidyLocal

LEMMA TidyStep ==
    ASSUME TInv, NEW p \in Procs, Step(p)
    PROVE  TInv'
<1> USE DEF At
<1>0. TypeOK /\ TypeOK' /\ Tidy(p)
  BY StepType DEF TInv
<1>1. CASE CheckDestination(p)
  <2>1. ASSUME proc' = [proc EXCEPT ![p] =
                          [@ EXCEPT !.pc = "stream", !.temp = Junk]],
               parts' = [parts EXCEPT ![p] = @ + 1], UNCHANGED struck
        PROVE  TInv'
    BY <1>0, <1>1, <2>1, Present, TidyMake DEF CheckDestination, Holding
  <2> QED
    BY <1>1, <2>1, TidyGoto, TidyFinish
    DEF CheckDestination, PullSteps, Outcomes, Holding
<1>2. CASE VerifyCached(p)
  BY <1>2, TidyGoto, TidyFinish DEF VerifyCached, PullSteps, Outcomes, Holding
<1>3. CASE ReadFails(p) \/ NothingCatches(p) \/ DownloadFails(p) \/ MetadataFails(p)
  BY <1>3, TidyFinish
  DEF ReadFails, NothingCatches, DownloadFails, MetadataFails, Outcomes
<1>4. CASE EnsureMetadata(p)
  BY <1>4, TidyGoto, TidyFinish
  DEF EnsureMetadata, MetadataUnreadable, PullSteps, Outcomes, Delivered, Holding
<1>5. CASE StatDestination(p)
  BY <1>5, TidyGoto DEF StatDestination, PullSteps, Holding
<1>6. CASE Receive(p)
  <2>1. PICK v \in Contents \cup {Junk} :
          proc' = [proc EXCEPT ![p] = [@ EXCEPT !.pc = "received", !.temp = v]]
    BY <1>6 DEF Receive
  <2>2. v # Absent
    BY Present DEF Contents
  <2>3. proc'[p].pc = "received" /\ proc'[p].temp = v
    BY <1>0, <2>1 DEF TypeOK, Invocation
  <2>4. proc[p].temp # Absent
    BY <1>0, <1>6 DEF Receive, Tidy, Holding
  <2>5. UNCHANGED <<parts, struck>>
    BY <1>6 DEF Receive, temps
  <2>6. Tidy(p)'
    BY <1>0, <2>2, <2>3, <2>4, <2>5 DEF Tidy, Owned, Holding
  <2> QED
    BY <1>0, <2>1, <2>5, <2>6, TidyLocal
<1>7. CASE VerifyDownload(p)
  BY <1>7, TidyGoto, TidyFinish DEF VerifyDownload, PullSteps, Outcomes, Holding
<1>8. CASE ReplaceArtifact(p)
  <2> DEFINE r == [proc[p] EXCEPT !.pc = "metaTemp", !.temp = Absent,
                                  !.fetched = TRUE]
  <2>1. r.pc = "metaTemp" /\ r.temp = Absent
    BY <1>0 DEF TypeOK, Invocation
  <2>2. proc' = [proc EXCEPT ![p] = r]
    BY <1>8 DEF ReplaceArtifact
  <2>3. /\ proc[p].pc \in Holding /\ r.pc \notin Holding
        /\ parts' = [parts EXCEPT ![p] = @ - 1] /\ UNCHANGED struck
    BY <1>8, <2>1 DEF ReplaceArtifact, Holding
  <2> HIDE DEF r
  <2> QED
    BY <1>0, <2>1, <2>2, <2>3, TidyReplace
<1>9. CASE WriteMetadataTemp(p)
  <2>1. Meta(proc[p].rev) # Absent
    BY <1>0, Present DEF TypeOK, Invocation
  <2> QED
    BY <1>0, <1>9, <2>1, TidyMake DEF WriteMetadataTemp, Holding
<1>10. CASE ReplaceMetadata(p)
  <2> DEFINE o == IF proc[p].fetched THEN "downloaded" ELSE "already-cached"
             r == [proc[p] EXCEPT !.pc = "idle", !.temp = Absent, !.out = o]
  <2>1. r.pc = "idle" /\ r.temp = Absent
    BY <1>0 DEF TypeOK, Invocation
  <2>2. proc' = [proc EXCEPT ![p] = r]
    BY <1>10 DEF ReplaceMetadata
  <2>3. /\ proc[p].pc \in Holding /\ r.pc \notin Holding
        /\ parts' = [parts EXCEPT ![p] = @ - 1] /\ UNCHANGED struck
    BY <1>10, <2>1 DEF ReplaceMetadata, Holding
  <2> HIDE DEF r
  <2> QED
    BY <1>0, <2>1, <2>2, <2>3, TidyReplace
<1>11. CASE StatusFile(p)
  BY <1>11, TidyGoto, TidyFinish DEF StatusFile, InferSteps, Outcomes, Holding
<1>12. CASE StatusMetadata(p)
  BY <1>12, TidyGoto, TidyFinish DEF StatusMetadata, InferSteps, Outcomes, Holding
<1>13. CASE ResolveFile(p)
  BY <1>13, TidyGoto, TidyFinish DEF ResolveFile, InferSteps, Outcomes, Holding
<1>14. CASE ResolveMetadata(p)
  BY <1>14, TidyGoto, TidyFinish
  DEF ResolveMetadata, MetadataUnreadable, InferSteps, Outcomes, Holding
<1>15. CASE LoadModel(p)
  <2>1. ASSUME proc' = [proc EXCEPT ![p] =
                          [@ EXCEPT !.pc = "idle", !.out = "inferred",
                                    !.loaded = Artifact(p)]],
               UNCHANGED temps
        PROVE  TInv'
    <3>1. proc'[p].pc = "idle" /\ proc'[p].temp = proc[p].temp
      BY <1>0, <2>1 DEF TypeOK, Invocation
    <3>2. Tidy(p)'
      BY <1>0, <1>15, <2>1, <3>1 DEF LoadModel, Tidy, Owned, Holding, temps
    <3> QED
      BY <1>0, <2>1, <3>2, TidyLocal DEF temps
  <2> QED
    BY <1>15, <2>1, TidyFinish DEF LoadModel, Outcomes
<1> QED
  BY <1>1, <1>2, <1>3, <1>4, <1>5, <1>6, <1>7, <1>8, <1>9, <1>10, <1>11,
     <1>12, <1>13, <1>14, <1>15
  DEF Step

LEMMA TidyCrash ==
    ASSUME TInv, NEW p \in Procs, Crash(p)
    PROVE  TInv'
<1>1. TypeOK /\ TypeOK'
  BY TypeStep DEF TInv, Next
<1>2. proc'[p].pc = "idle" /\ proc'[p].temp = Absent
  BY <1>1 DEF Crash, End, TypeOK, Invocation
<1>3. parts'[p] <= struck'[p]
  BY <1>1 DEF Crash, TInv, TypeOK, Tidy, Owned
<1>4. Tidy(p)'
  BY <1>1, <1>2, <1>3 DEF Tidy, Owned, Holding, TypeOK
<1>5. \A q \in Procs \ {p} : parts'[q] = parts[q] /\ struck'[q] = struck[q]
  BY <1>1 DEF Crash, TypeOK
<1> QED
  BY <1>1, <1>4, <1>5, TidyLocal DEF Crash, End

LEMMA TidyStart ==
    ASSUME TInv, NEW p \in Procs, NEW l \in {"exists", "status"}, Start(p, l)
    PROVE  TInv'
<1>1. TypeOK /\ TypeOK'
  BY StartType DEF TInv, PullSteps, InferSteps
<1>2. proc'[p].pc = l /\ proc'[p].temp = Absent
  BY <1>1 DEF Start, TypeOK
<1>3. proc[p].temp = Absent /\ UNCHANGED <<parts, struck>>
  BY DEF Start, TInv, Tidy, At, Holding, temps
<1>4. Tidy(p)'
  BY <1>2, <1>3 DEF TInv, Tidy, Owned, Holding
<1> QED
  BY <1>1, <1>3, <1>4, TidyLocal DEF Start

\* However commands end (with success, an error, or an exception nothing
\* catches), they leave no temporary file behind unless killed or refused the
\* unlink, one for each time.
THEOREM NothingLeaks == Spec => []NoTempLeak
<1>1. Init => TInv
  <2> SUFFICES ASSUME Init PROVE TInv
    OBVIOUS
  <2>1. ASSUME NEW q \in Procs PROVE Tidy(q)
    BY DEF Init, Tidy, Owned, Holding
  <2> QED
    BY <2>1, InitType DEF TInv
<1>2. TInv /\ [Next]_vars => TInv'
  <2> SUFFICES ASSUME TInv, [Next]_vars PROVE TInv'
    OBVIOUS
  <2>1. ASSUME NEW p \in Procs, StartPull(p) \/ StartInfer(p) PROVE TInv'
    BY <2>1, TidyStart DEF StartPull, StartInfer
  <2>2. ASSUME NEW p \in Procs, Step(p) PROVE TInv'
    BY <2>2, TidyStep
  <2>3. ASSUME NEW p \in Procs, Crash(p) PROVE TInv'
    BY <2>3, TidyCrash
  <2>4. CASE EditManifest \/ Tamper \/ UNCHANGED vars
    <3>1. TypeOK'
      BY <2>4, TypeStep DEF TInv, Next
    <3> QED
      BY <2>4, <3>1
      DEF EditManifest, Tamper, vars, temps, TInv, Tidy, Owned
  <2> QED
    BY <2>1, <2>2, <2>3, <2>4 DEF Next
<1>3. TInv => NoTempLeak
  BY DEF TInv, Tidy, NoTempLeak
<1> QED
  BY <1>1, <1>2, <1>3, PTL DEF Spec
=============================================================================
