------------------------- MODULE EvidencePackageProofs -------------------------
(***************************************************************************)
(* Proofs about EvidencePackage, for any set of builders, runs of any size *)
(* and any number of changes and losses of power.                          *)
(***************************************************************************)
EXTENDS EvidencePackage, TLAPS

Refused == {"exists", "failed", "uncleaned"}

\* What is true of one builder between its steps.
Sound(b) ==
    LET d == build[b] IN
    /\ d.pc = "done" <=> d.answer # "none"
    /\ d.pc \in {"verify", "rename"} => d.synced
    /\ d.pc = "rename" => Intact(d)
    /\ d.pc = "syncParent" => target = b
    /\ target = b => Intact(d) /\ d.synced /\ d.pc \in {"syncParent", "done"}
    /\ d.answer = "ok" => target = b /\ kept = b
    /\ d.answer \in Refused => target # b

\* The inductive invariant.
IInv ==
    /\ TypeOK
    /\ kept # None => target = kept
    /\ \A b \in Builders : Sound(b)

\* Counting files.
LEMMA Counting ==
    /\ 1 \in Files
    /\ Files \subseteq 1..(Size + 1)
    /\ \A i \in Files : i + 1 \in 1..(Size + 1) /\ (i # Size => i + 1 \in Files)
BY PackageAssumption DEF PackageAssumption, Files

LEMMA InitIInv == Init => IInv
<1> SUFFICES ASSUME Init PROVE IInv
  OBVIOUS
<1> USE PackageAssumption DEF PackageAssumption
<1>1. Holds(None) \in Directory /\ \A r \in Runs : Holds(r) \in Directory
  BY DEF Holds, Directory
<1>2. build \in [Builders -> Build]
  BY <1>1, Counting DEF Init, Build, Working, Preparing
<1>3. TypeOK
  <2>1. \A b \in Builders : build[b].next \in Files
    BY Counting DEF Init
  <2>2. source \in Directory
    BY <1>1 DEF Init
  <2>3. changes \in 0..MaxChanges /\ losses \in 0..MaxLosses
    BY DEF Init
  <2> QED
    BY <1>2, <2>1, <2>2, <2>3 DEF Init, TypeOK
<1>4. \A b \in Builders : Sound(b)
  BY DEF Init, Sound, Refused
<1> QED
  BY <1>3, <1>4 DEF IInv, Init

\* A step of b gives b a new state of the right type and leaves the rest.
LEMMA StepShape ==
    ASSUME TypeOK, NEW b \in Builders, Step(b) \/ Kill(b)
    PROVE  /\ build'[b] \in Build
           /\ build' = [build EXCEPT ![b] = build'[b]]
           /\ build'[b].pc \in Reading => build'[b].next \in Files
<1> USE PackageAssumption DEF PackageAssumption
<1> DEFINE d == build[b]
<1>1. d \in Build /\ build \in [Builders -> Build]
  BY DEF TypeOK
<1>2. ASSUME NEW e \in Build, Become(b, e)
      PROVE  /\ build'[b] = e
             /\ build' = [build EXCEPT ![b] = build'[b]]
  BY <1>1, <1>2 DEF Become
<1>3. ASSUME NEW l \in Working, l \in Reading => d.next \in Files, Goto(b, l)
      PROVE  /\ build'[b] \in Build /\ build'[b].pc = l
             /\ build' = [build EXCEPT ![b] = build'[b]]
             /\ l \in Reading => build'[b].next \in Files
  <2>1. [d EXCEPT !.pc = l] \in Build
    BY <1>1 DEF Build
  <2> QED
    BY <1>1, <1>2, <1>3, <2>1 DEF Goto, Build
<1>4. ASSUME NEW a \in {"ok", "exists", "failed", "unsynced", "uncleaned", "killed"},
             End(b, a)
      PROVE  /\ build'[b] \in Build /\ build'[b].pc = "done"
             /\ build' = [build EXCEPT ![b] = build'[b]]
  <2>1. [d EXCEPT !.pc = "done", !.answer = a] \in Build
    BY <1>1 DEF Build
  <2> QED
    BY <1>1, <1>2, <1>4, <2>1 DEF End, Build
<1>5. CASE ValidateFile(b)
  <2> DEFINE i == d.next
             e == [d EXCEPT !.evidence = source[i],
                            !.next = IF i = Size THEN 1 ELSE i + 1,
                            !.pc = IF i = Size THEN "revision" ELSE "validate"]
  <2>1. i \in Files /\ source[i] \in Runs \cup {None}
    BY <1>5 DEF ValidateFile, At, TypeOK, Directory, Reading
  <2>2. e \in Build /\ e.next \in Files
    BY ZenonT(60), <1>1, <2>1, Counting DEF Build, Working, Preparing
  <2> QED
    BY <1>2, <1>5, <2>2 DEF ValidateFile
<1>6. CASE CopyFile(b)
  <2> DEFINE i == d.next
             e == [d EXCEPT !.dir = [@ EXCEPT ![i] = source[i]],
                            !.next = i + 1,
                            !.pc = IF i = Size THEN "manifest" ELSE "copy"]
  <2>1. i \in Files /\ source[i] \in Runs \cup {None}
    BY <1>6 DEF CopyFile, At, TypeOK, Directory, Reading
  <2>2. [d.dir EXCEPT ![i] = source[i]] \in Directory
    BY <1>1, <2>1 DEF Build, Directory
  <2>3. e \in Build /\ (e.pc \in Reading => e.next \in Files)
    BY <1>1, <2>1, <2>2, Counting DEF Build, Working, Preparing, Reading
  <2>4. Become(b, e)
    BY <1>6 DEF CopyFile
  <2> HIDE DEF e
  <2> QED
    BY <1>2, <2>3, <2>4
<1>7. CASE WriteManifest(b)
  <2> DEFINE e == [d EXCEPT !.manifest = d.dir, !.pc = "sync"]
  <2>1. e \in Build /\ e.pc \notin Reading
    BY <1>1 DEF Build, Working, Preparing, Reading
  <2>2. Become(b, e)
    BY <1>7 DEF WriteManifest
  <2> HIDE DEF e
  <2> QED
    BY <1>2, <2>1, <2>2
<1>8. CASE SyncTree(b)
  <2> DEFINE e == [d EXCEPT !.synced = TRUE, !.pc = "verify"]
  <2>1. e \in Build /\ e.pc \notin Reading
    BY <1>1 DEF Build, Working, Preparing, Reading
  <2>2. Become(b, e)
    BY <1>8 DEF SyncTree
  <2> HIDE DEF e
  <2> QED
    BY <1>2, <2>1, <2>2
<1>9. CASE CheckRevisions(b) \/ CheckDestination(b) \/ CreateStaging(b)
            \/ VerifyStaging(b) \/ RenameStaging(b)
  <2>1. d.pc \in Reading => d.next \in Files
    BY DEF TypeOK
  <2> QED
    BY <1>3, <1>4, <1>9, <2>1
    DEF CheckRevisions, CheckDestination, CreateStaging, VerifyStaging,
        RenameStaging, Abandon, At, Working, Preparing, Reading
<1>10. CASE SyncParent(b) \/ Fail(b) \/ Kill(b)
  BY <1>4, <1>10 DEF SyncParent, Fail, Kill, Abandon, Reading
<1> QED
  BY <1>5, <1>6, <1>7, <1>8, <1>9, <1>10 DEF Step

LEMMA StepTypeOK ==
    ASSUME TypeOK, NEW b \in Builders, Step(b) \/ Kill(b)
    PROVE  TypeOK'
<1>1. build' \in [Builders -> Build]
  BY StepShape DEF TypeOK
<1>2. \A c \in Builders : build'[c].pc \in Reading => build'[c].next \in Files
  BY StepShape DEF TypeOK
<1>3. /\ staging' \subseteq Builders
      /\ target' \in Builders \cup {None}
      /\ kept' \in Builders \cup {None}
      /\ touched' \subseteq Builders
      /\ UNCHANGED <<source, changes, losses>>
  BY DEF TypeOK, Step, Kill, Local, Parent, Around, Make, Drop, Abandon, ValidateFile,
     CheckRevisions, CheckDestination, CreateStaging, CopyFile, WriteManifest,
     SyncTree, VerifyStaging, RenameStaging, SyncParent, Fail
<1> QED
  BY <1>1, <1>2, <1>3 DEF TypeOK

\* A builder that goes on, and one that ends.
Moved(d, l) == [d EXCEPT !.pc = l]
Ended(d, a) == [d EXCEPT !.pc = "done", !.answer = a]

LEMMA MovedFields ==
    ASSUME NEW d \in Build, NEW l
    PROVE  /\ Moved(d, l).pc = l
           /\ Moved(d, l).answer = d.answer
           /\ Moved(d, l).synced = d.synced
           /\ Intact(Moved(d, l)) <=> Intact(d)
BY DEF Build, Intact, Moved

LEMMA EndedFields ==
    ASSUME NEW d \in Build, NEW a
    PROVE  /\ Ended(d, a).pc = "done"
           /\ Ended(d, a).answer = a
           /\ Ended(d, a).synced = d.synced
           /\ Intact(Ended(d, a)) <=> Intact(d)
BY DEF Build, Intact, Ended

\* What a step of b can be, as far as Sound looks at it.
Prepares(b) ==
    /\ UNCHANGED <<target, kept>>
    /\ build[b].pc \in Preparing
    /\ build'[b].pc \in Preparing
    /\ build'[b].answer = build[b].answer
    /\ build'[b].pc = "verify" => build'[b].synced

Verifies(b) ==
    /\ UNCHANGED <<target, kept>>
    /\ build[b].pc = "verify" /\ Intact(build[b])
    /\ build'[b] = Moved(build[b], "rename")

Publishes(b) ==
    /\ target = None /\ target' = b /\ UNCHANGED kept
    /\ build[b].pc = "rename"
    /\ build'[b] = Moved(build[b], "syncParent")

Succeeds(b) ==
    /\ kept' = target /\ UNCHANGED target
    /\ build[b].pc = "syncParent"
    /\ build'[b] = Ended(build[b], "ok")

Ends(b, a) ==
    /\ UNCHANGED <<target, kept>>
    /\ build[b].pc \in Working
    /\ build'[b] = Ended(build[b], a)
    /\ a \in Refused => build[b].pc # "syncParent"
    /\ a = "exists" => target # None
    /\ a = "unsynced" => build[b].pc = "syncParent"

LEMMA StepEffect ==
    ASSUME TypeOK, NEW b \in Builders, Step(b) \/ Kill(b)
    PROVE  \/ Prepares(b) \/ Verifies(b) \/ Publishes(b) \/ Succeeds(b)
           \/ \E a \in Refused \cup {"unsynced", "killed"} : Ends(b, a)
<1> DEFINE d == build[b]
<1>1. d \in Build /\ build \in [Builders -> Build]
  BY DEF TypeOK
<1>2. ASSUME NEW e, Become(b, e) PROVE build'[b] = e
  BY <1>1, <1>2 DEF Become
<1>3. ASSUME NEW l, Goto(b, l) PROVE build'[b] = Moved(d, l)
  BY <1>2, <1>3 DEF Goto, Moved
<1>4. ASSUME NEW a, End(b, a)
      PROVE  build'[b] = Ended(d, a)
  BY <1>2, <1>4 DEF End, Ended
<1>5. CASE ValidateFile(b)
  <2> DEFINE i == d.next
             e == [d EXCEPT !.evidence = source[i],
                            !.next = IF i = Size THEN 1 ELSE i + 1,
                            !.pc = IF i = Size THEN "revision" ELSE "validate"]
  <2>1. build'[b] = e
    BY <1>2, <1>5 DEF ValidateFile
  <2>2. e.pc \in {"revision", "validate"} /\ e.answer = d.answer
    BY <1>1 DEF Build
  <2>3. Prepares(b)
    BY <1>5, <2>1, <2>2 DEF ValidateFile, Local, Parent, At, Prepares, Preparing
  <2> QED
    BY <2>3
<1>6. CASE CopyFile(b)
  <2> DEFINE i == d.next
             e == [d EXCEPT !.dir = [@ EXCEPT ![i] = source[i]],
                            !.next = i + 1,
                            !.pc = IF i = Size THEN "manifest" ELSE "copy"]
  <2>1. build'[b] = e
    BY <1>2, <1>6 DEF CopyFile
  <2>2. e.pc \in {"manifest", "copy"} /\ e.answer = d.answer
    BY <1>1 DEF Build
  <2>3. Prepares(b)
    BY <1>6, <2>1, <2>2 DEF CopyFile, Local, Parent, At, Prepares, Preparing
  <2> QED
    BY <2>3
<1>7. CASE WriteManifest(b)
  <2> DEFINE e == [d EXCEPT !.manifest = d.dir, !.pc = "sync"]
  <2>1. build'[b] = e
    BY <1>2, <1>7 DEF WriteManifest
  <2>2. e.pc = "sync" /\ e.answer = d.answer
    BY <1>1 DEF Build
  <2>3. Prepares(b)
    BY <1>7, <2>1, <2>2 DEF WriteManifest, Local, Parent, At, Prepares, Preparing
  <2> QED
    BY <2>3
<1>8. CASE SyncTree(b)
  <2> DEFINE e == [d EXCEPT !.synced = TRUE, !.pc = "verify"]
  <2>1. build'[b] = e
    BY <1>2, <1>8 DEF SyncTree
  <2>2. e.pc = "verify" /\ e.synced /\ e.answer = d.answer
    BY <1>1 DEF Build
  <2>3. Prepares(b)
    BY <1>8, <2>1, <2>2 DEF SyncTree, Local, Parent, At, Prepares, Preparing
  <2> QED
    BY <2>3
<1>9. ASSUME NEW l \in Preparing \ {"verify"}, Goto(b, l), d.pc \in Preparing,
             UNCHANGED <<target, kept>>
      PROVE  Prepares(b)
  <2> QED
    BY <1>1, <1>3, <1>9, MovedFields DEF Prepares
<1>10. ASSUME NEW a \in Refused \cup {"unsynced", "killed"}, End(b, a),
              UNCHANGED <<target, kept>>, d.pc \in Working,
              a \in Refused => d.pc # "syncParent",
              a = "exists" => target # None,
              a = "unsynced" => d.pc = "syncParent"
       PROVE  \E c \in Refused \cup {"unsynced", "killed"} : Ends(b, c)
  <2>1. Ends(b, a)
    BY <1>4, <1>10 DEF Ends
  <2> QED
    BY <2>1
<1>11. CASE CheckRevisions(b) \/ CreateStaging(b)
  BY <1>9, <1>11 DEF CheckRevisions, CreateStaging, Local, Parent, At, Preparing
<1>12. CASE CheckDestination(b)
  BY <1>9, <1>10, <1>12
  DEF CheckDestination, Local, Parent, At, Working, Preparing, Refused
<1>13. CASE VerifyStaging(b)
  <2>1. Verifies(b)
    BY <1>3, <1>13 DEF VerifyStaging, Local, Parent, At, Verifies
  <2> QED
    BY <2>1
<1>14. CASE RenameStaging(b)
  <2>1. CASE target = None
    <3>1. Publishes(b)
      BY <1>3, <1>14, <2>1 DEF RenameStaging, At, Publishes
    <3> QED
      BY <3>1
  <2>2. CASE target # None
    BY <1>10, <1>14, <2>2 DEF RenameStaging, Abandon, At, Working, Refused
  <2> QED
    BY <2>1, <2>2
<1>15. CASE SyncParent(b)
  <2>1. Succeeds(b)
    BY <1>4, <1>15 DEF SyncParent, At, Succeeds
  <2> QED
    BY <2>1
<1>16. CASE Fail(b)
  BY <1>10, <1>16 DEF Fail, Abandon, Published, At, Refused
<1>17. CASE Kill(b)
  BY <1>10, <1>17 DEF Kill, Local, Parent, Refused
<1> QED
  BY <1>5, <1>6, <1>7, <1>8, <1>11, <1>12, <1>13, <1>14, <1>15, <1>16, <1>17
  DEF Step

LEMMA StepSound ==
    ASSUME IInv, NEW b \in Builders, Step(b) \/ Kill(b)
    PROVE  Sound(b)'
<1> DEFINE d == build[b]
           e == build'[b]
<1> USE PackageAssumption DEF PackageAssumption
<1>1. TypeOK /\ Sound(b) /\ d \in Build
  BY DEF IInv, TypeOK
<1>2. CASE Prepares(b)
  BY <1>1, <1>2 DEF Sound, Prepares, Preparing, Refused
<1>3. CASE Verifies(b)
  <2>1. e.pc = "rename" /\ e.answer = d.answer /\ e.synced = d.synced /\ Intact(e)
    BY <1>1, <1>3, MovedFields DEF Verifies
  <2> QED
    BY <1>1, <1>3, <2>1 DEF Sound, Verifies, Refused
<1>4. CASE Publishes(b)
  <2>1. e.pc = "syncParent" /\ e.answer = d.answer /\ e.synced = d.synced
        /\ (Intact(e) <=> Intact(d))
    BY <1>1, <1>4, MovedFields DEF Publishes
  <2> QED
    BY <1>1, <1>4, <2>1 DEF Sound, Publishes, Refused
<1>5. CASE Succeeds(b)
  <2>1. e.pc = "done" /\ e.answer = "ok" /\ e.synced = d.synced
        /\ (Intact(e) <=> Intact(d))
    BY <1>1, <1>5, EndedFields DEF Succeeds
  <2> QED
    BY <1>1, <1>5, <2>1 DEF Sound, Succeeds, Refused
<1>6. ASSUME NEW a \in Refused \cup {"unsynced", "killed"}, Ends(b, a)
      PROVE  Sound(b)'
  <2>1. e.pc = "done" /\ e.answer = a /\ e.synced = d.synced
        /\ (Intact(e) <=> Intact(d))
    BY <1>1, <1>6, EndedFields DEF Ends
  <2>2. target = b => d.pc = "syncParent"
    BY <1>1, <1>6 DEF Sound, Ends, Working, Preparing
  <2>3. a \in {"exists", "failed", "uncleaned", "unsynced", "killed"}
    BY DEF Refused
  <2> QED
    BY <1>1, <1>6, <2>1, <2>2, <2>3 DEF Sound, Ends, Refused
<1> QED
  BY <1>1, <1>2, <1>3, <1>4, <1>5, <1>6, StepEffect

LEMMA StepIInv ==
    ASSUME IInv, NEW b \in Builders, Step(b) \/ Kill(b)
    PROVE  IInv'
<1> USE PackageAssumption DEF PackageAssumption
<1>1. TypeOK /\ Sound(b)
  BY DEF IInv
<1>2. ASSUME NEW c \in Builders, c # b PROVE Sound(c)'
  <2>1. build'[c] = build[c] /\ Sound(c)
    BY <1>1, <1>2, StepShape DEF IInv, TypeOK
  <2>2. \/ UNCHANGED <<target, kept>>
        \/ target = None /\ target' = b /\ UNCHANGED kept
        \/ target = b /\ kept' = target /\ UNCHANGED target
    BY <1>1, StepEffect
    DEF Prepares, Verifies, Publishes, Succeeds, Ends, Sound
  <2> QED
    BY <1>2, <2>1, <2>2 DEF Sound
<1>3. kept' # None => target' = kept'
  <2>1. \/ UNCHANGED <<target, kept>>
        \/ target = None /\ UNCHANGED kept
        \/ kept' = target /\ UNCHANGED target
    BY <1>1, StepEffect DEF Prepares, Verifies, Publishes, Succeeds, Ends
  <2> QED
    BY <2>1 DEF IInv
<1> QED
  BY <1>1, <1>2, <1>3, StepTypeOK, StepSound DEF IInv

LEMMA LosePowerIInv ==
    ASSUME IInv, LosePower
    PROVE  IInv'
<1> USE PackageAssumption DEF PackageAssumption
<1>1. TypeOK
  BY DEF IInv
<1>2. ASSUME NEW b \in Builders
      PROVE  /\ build'[b] = IF build[b].pc \in Working
                            THEN Ended(build[b], "killed")
                            ELSE build[b]
             /\ build'[b] \in Build
             /\ build'[b].pc \in Reading => build'[b].next \in Files
  <2>1. build[b] \in Build
    BY <1>1 DEF TypeOK
  <2>2. Ended(build[b], "killed") \in Build
    BY <2>1 DEF Build, Ended
  <2>3. Ended(build[b], "killed").pc = "done"
    BY <2>1, EndedFields
  <2>4. build'[b] = IF build[b].pc \in Working
                    THEN Ended(build[b], "killed") ELSE build[b]
    BY DEF LosePower, Ended
  <2> QED
    BY <1>1, <2>1, <2>2, <2>3, <2>4 DEF TypeOK, Reading
<1>3. build' \in [Builders -> Build]
  <2>1. build' = [b \in Builders |-> build'[b]]
    BY DEF LosePower
  <2> QED
    BY <1>2, <2>1
<1>4. target' \in {target, kept} /\ kept' = target'
  BY DEF LosePower
<1>5. losses' \in 0..MaxLosses
  <2>1. losses \in 0..MaxLosses /\ losses < MaxLosses /\ losses' = losses + 1
    BY <1>1 DEF LosePower, TypeOK
  <2> QED
    BY <2>1
<1>6. staging' \subseteq Builders /\ touched' \subseteq Builders
  BY <1>1 DEF LosePower, TypeOK
<1>7. TypeOK'
  BY <1>1, <1>2, <1>3, <1>4, <1>5, <1>6 DEF LosePower, TypeOK
<1>8. ASSUME NEW b \in Builders PROVE Sound(b)'
  <2>1. Sound(b) /\ build[b] \in Build
    BY <1>1 DEF IInv, TypeOK
  <2>2. CASE build[b].pc \in Working
    <3>1. /\ build'[b].pc = "done" /\ build'[b].answer = "killed"
          /\ build'[b].synced = build[b].synced
          /\ Intact(build'[b]) <=> Intact(build[b])
      BY <1>2, <2>1, <2>2, EndedFields
    <3> QED
      BY <1>1, <1>4, <2>1, <3>1 DEF IInv, Sound, TypeOK, Refused
  <2>3. CASE build[b].pc \notin Working
    <3>1. build'[b] = build[b]
      BY <1>2, <2>3
    <3> QED
      BY <1>1, <1>4, <2>1, <2>3, <3>1 DEF IInv, Sound, TypeOK, Working
  <2> QED
    BY <2>2, <2>3
<1> QED
  BY <1>4, <1>7, <1>8 DEF IInv

\* IInv holds in every reachable state, whatever happens to the run directory.
THEOREM Inductive == Spec => []IInv
<1>1. IInv /\ [Next]_vars => IInv'
  <2> SUFFICES ASSUME IInv, [Next]_vars PROVE IInv'
    OBVIOUS
  <2>1. ASSUME NEW i \in Files, NEW r \in Runs \cup {None}, ChangeSource(i, r)
        PROVE  IInv'
    <3>1. source' \in Directory
      BY <2>1 DEF IInv, TypeOK, ChangeSource, Directory
    <3>2. changes' \in 0..MaxChanges
      BY <2>1, PackageAssumption DEF PackageAssumption, IInv, TypeOK, ChangeSource
    <3> QED
      BY <2>1, <3>1, <3>2 DEF IInv, TypeOK, Sound, ChangeSource, Parent
  <2>2. CASE UNCHANGED vars
    BY <2>2 DEF vars, IInv, TypeOK, Sound
  <2> QED
    BY <2>1, <2>2, StepIInv, LosePowerIInv DEF Next
<1> QED
  BY <1>1, InitIInv, PTL DEF Spec

\* The model never leaves its types, for any set of builders and run size.
THEOREM TypeCorrect == Spec => []TypeOK
<1>1. IInv => TypeOK
  BY DEF IInv
<1> QED
  BY <1>1, Inductive, PTL

\* A package is whole, belongs to one run and is on disk, at all times.
THEOREM OneRun == Spec => []PackageIsOneRun
<1>1. IInv => PackageIsOneRun
  BY DEF IInv, TypeOK, Sound, PackageIsOneRun
<1> QED
  BY <1>1, Inductive, PTL

\* Building implements the write-once register of WriteOnce: renameat2 sets
\* the value, the fsync of the parent tells success.
THEOREM Refinement == Spec => Implements
<1> USE PackageAssumption DEF PackageAssumption
<1> DEFINE said == [b \in Builders |-> Reported(build[b].answer)]
<1>1. Init => WO!AbstractInit
  BY DEF Init, WO!AbstractInit, Reported
<1>2. IInv /\ [Next]_vars => [WO!AbstractNext]_(WO!avars)
  <2> SUFFICES ASSUME IInv, [Next]_vars
               PROVE  [WO!AbstractNext]_(WO!avars)
    OBVIOUS
  <2>1. ASSUME NEW b \in Builders, Step(b) \/ Kill(b)
        PROVE  [WO!AbstractNext]_(WO!avars)
    <3> DEFINE d == build[b]
               e == build'[b]
    <3>1. /\ TypeOK /\ Sound(b) /\ d \in Build
          /\ build \in [Builders -> Build] /\ build' = [build EXCEPT ![b] = e]
      BY <2>1, StepShape DEF IInv, TypeOK
    <3>2. said' = [said EXCEPT ![b] = Reported(e.answer)]
      BY <3>1
    <3>3. said[b] = Reported(d.answer)
      OBVIOUS
    <3>4. d.pc # "done" => d.answer = "none" /\ said[b] = "none"
      BY <3>1, <3>3 DEF Sound, Reported
    <3> HIDE DEF said
    <3>5. ASSUME e.answer = d.answer PROVE said' = said
      BY <3>2, <3>3, <3>5 DEF said
    <3>6. CASE Prepares(b) \/ Verifies(b)
      <4>1. e.answer = d.answer
        BY <3>1, <3>6, MovedFields DEF Prepares, Verifies
      <4> QED
        BY <3>5, <3>6, <4>1 DEF Prepares, Verifies, WO!avars, said
    <3>7. CASE Publishes(b)
      <4>1. said' = said
        BY <3>1, <3>5, <3>7, MovedFields DEF Publishes
      <4>2. WO!Publish(b)
        BY <3>4, <3>7, <4>1 DEF Publishes, WO!Publish, WO!Waiting, said
      <4> QED
        BY <4>2 DEF WO!AbstractNext
    <3>8. CASE Succeeds(b)
      <4>1. said' = [said EXCEPT ![b] = "ok"]
        <5>1. e.answer = "ok"
          BY <3>1, <3>8, EndedFields DEF Succeeds
        <5> QED
          BY <3>2, <5>1 DEF Reported
      <4>2. WO!Succeed(b)
        BY <3>1, <3>4, <3>8, <4>1
        DEF Succeeds, Sound, WO!Succeed, WO!Waiting, WO!Tell, said
      <4> QED
        BY <4>2 DEF WO!AbstractNext
    <3>9. ASSUME NEW a \in Refused \cup {"unsynced", "killed"}, Ends(b, a)
          PROVE  WO!AbstractNext
      <4>1. said' = [said EXCEPT ![b] = Reported(a)]
        <5>1. e.answer = a
          BY <3>1, <3>9, EndedFields DEF Ends
        <5> QED
          BY <3>2, <5>1
      <4>2. said[b] = "none" /\ (target = b => d.pc = "syncParent")
        BY <3>1, <3>4, <3>9 DEF Ends, Sound, Working, Preparing
      <4>3. CASE a = "exists"
        <5>1. WO!Refuse(b)
          BY <3>9, <4>1, <4>2, <4>3
          DEF Ends, Refused, Reported, WO!Refuse, WO!Waiting, WO!Tell, said
        <5> QED
          BY <5>1 DEF WO!AbstractNext
      <4>4. CASE a # "exists"
        <5>1. \/ Reported(a) = "failed" /\ target # b
              \/ Reported(a) = "unsynced" /\ target = b
              \/ Reported(a) = "killed"
          BY <3>1, <3>9, <4>2, <4>4 DEF Ends, Refused, Reported, Sound
        <5>2. WO!GiveUp(b)
          BY <3>9, <4>1, <4>2, <5>1
          DEF Ends, WO!GiveUp, WO!Waiting, WO!Tell, said
        <5> QED
          BY <5>2 DEF WO!AbstractNext
      <4> QED
        BY <4>3, <4>4
    <3> QED
      BY <2>1, <3>1, <3>6, <3>7, <3>8, <3>9, StepEffect
  <2>2. CASE LosePower
    <3> DEFINE gone == {b \in Builders : build[b].pc \in Working}
    <3>1. gone \subseteq {b \in Builders : WO!Waiting(b)}
      BY DEF IInv, Sound, Working, Preparing, Reported, WO!Waiting
    <3>2. {b \in Builders : WO!Waiting(b)} \cap {target} \subseteq gone
      <4> SUFFICES ASSUME target \in Builders, Reported(build[target].answer) = "none"
                   PROVE  build[target].pc \in Working
        BY DEF WO!Waiting
      <4> QED
        BY DEF IInv, Sound, Reported, Working
    <3>3. said' = [b \in Builders |-> IF b \in gone THEN "killed" ELSE said[b]]
      <4> SUFFICES ASSUME NEW b \in Builders
                   PROVE  Reported(build'[b].answer)
                            = IF b \in gone THEN "killed" ELSE Reported(build[b].answer)
        OBVIOUS
      <4>1. build[b] \in Build
        BY DEF IInv, TypeOK
      <4>2. build'[b] = IF b \in gone
                        THEN Ended(build[b], "killed") ELSE build[b]
        BY <2>2 DEF LosePower, Ended
      <4> QED
        BY <4>1, <4>2, EndedFields DEF Reported
    <3>4. WO!LosePower
      <4> HIDE DEF gone
      <4> QED
        BY <2>2, <3>1, <3>2, <3>3 DEF LosePower, WO!LosePower
    <3> QED
      BY <3>4 DEF WO!AbstractNext
  <2>3. ASSUME NEW i \in Files, NEW r \in Runs \cup {None}, ChangeSource(i, r)
        PROVE  UNCHANGED WO!avars
    BY <2>3 DEF ChangeSource, Parent, WO!avars
  <2>4. CASE UNCHANGED vars
    BY <2>4 DEF vars, WO!avars
  <2> QED
    BY <2>1, <2>2, <2>3, <2>4 DEF Next, WO!AbstractNext
<1> QED
  BY <1>1, <1>2, Inductive, PTL DEF Spec, Implements, WO!AbstractSpec
=============================================================================
