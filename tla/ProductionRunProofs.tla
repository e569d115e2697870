-------------------------- MODULE ProductionRunProofs --------------------------
(***************************************************************************)
(* Proofs about ProductionRun, for any number of processes, contents,      *)
(* revisions and changes by others.                                        *)
(***************************************************************************)
EXTENDS ProductionRun, TLAPS

\* Process p has its i-th record behind it, and at least reached one of stages.
Behind(p, i, stages) ==
    \/ run[p].n > i
    \/ run[p].n = i /\ run[p].pc \in stages \cup {"write"}

Living == Active \cup {"failing"}

\* The record at which a stage is reached; a process that failed or ended may
\* have any number of records.
Position(r) ==
    /\ r.pc \in {"start", "config"} => r.n = 0
    /\ r.pc = "write" => r.n \in 0..13
    /\ r.pc \in {"revision", "inspect"} => r.n = 4
    /\ r.pc \in {"validateCal", "validateEva"} => r.n = 5
    /\ r.pc = "overlap" => r.n = 7
    /\ r.pc \in {"verifySource", "prepare", "quantize", "publish"} => r.n = 8
    /\ r.pc \in {"verifyFp32", "openFp32", "runFp32"} => r.n = 9
    /\ r.pc \in {"verifyInt8", "openInt8", "runInt8"} => r.n = 10
    /\ r.pc = "compare" => r.n = 11
    /\ r.pc \in {"revalidate", "revalidateEva", "endRevision"} => r.n = 12
    /\ r.pc = "environment" => r.n = 13
    /\ r.pc = "return" => r.n = 14
    /\ r.out # "none" => r.pc = "done"

\* What the directory holds, seen by process p.
Owned(p) ==
    /\ run[p].pc \in Living \/ run[p].n > 0 \/ run[p].out \in {"completed", "failed"} =>
          disk.owner = p
    /\ run[p].pc \in Active => disk.records = 1..run[p].n
    /\ run[p].pc \in Living => disk.failure = None
    /\ Behind(p, 8, {}) => disk.int8 # "none"
    /\ run[p].out = "completed" =>
          disk.records = Records /\ disk.int8 # "none" /\ disk.failure = None

\* A stage that reads an input does so after it was recorded.
Recorded(p) ==
    /\ Behind(p, 4, {"inspect"}) => run[p].seen["rev"] # None
    /\ Behind(p, 4, {}) => run[p].seen["model"] = Source
    /\ Behind(p, 5, {"validateEva"}) => run[p].seen["cal"] # None
    /\ Behind(p, 5, {}) => run[p].seen["eva"] # None
    /\ Behind(p, 7, {}) => run[p].seen["cal"] # run[p].seen["eva"]
    /\ \A k \in Inputs : run[p].seen[k] # None => run[p].seen[k] \in past[k]

\* While an input is what was recorded, and never was anything else in
\* between, nothing else was used of it.
Faithful(p) ==
    /\ run[p].n < 8 => \A k \in Inputs : run[p].used[k] = {}
    /\ \A k \in Inputs \ restored : world[k] = run[p].seen[k] =>
          run[p].used[k] \subseteq {run[p].seen[k]}

\* Input k was looked at once more after its last use; it was used at all.
UsedOf(p, k, rechecked, taken) ==
    /\ rechecked /\ k \notin restored => run[p].used[k] \subseteq {run[p].seen[k]}
    /\ taken => run[p].used[k] # {}
Used(p) ==
    /\ UsedOf(p, "model", Behind(p, 9, {"openFp32", "runFp32"}),
              Behind(p, 8, {"quantize", "publish"}))
    /\ UsedOf(p, "cal", Behind(p, 12, {"revalidateEva", "endRevision"}),
              Behind(p, 8, {"publish"}))
    /\ UsedOf(p, "eva", Behind(p, 12, {"endRevision"}), Behind(p, 9, {}))
    /\ UsedOf(p, "rev", Behind(p, 12, {}), Behind(p, 8, {"quantize", "publish"}))

\* The model that was evaluated was damaged only if the published one is, or
\* was put back.
Evaluated(p) ==
    /\ Behind(p, 10, {"runInt8"}) => run[p].opened # "none"
    /\ run[p].opened = "damaged" => disk.int8 = "damaged" \/ "int8" \in restored

\* Another source model was evaluated only if there still is another one, or
\* the recorded one was put back.
OfSource(p) ==
    /\ run[p].n < 9 => run[p].fp32 = None
    /\ Behind(p, 9, {"runFp32"}) => run[p].fp32 # None
    /\ run[p].fp32 # None /\ "model" \notin restored
       /\ world["model"] = run[p].seen["model"] =>
            run[p].fp32 = run[p].seen["model"]

\* The inductive invariant.
Proper(p) ==
    /\ Position(run[p]) /\ Owned(p) /\ Recorded(p)
    /\ Faithful(p) /\ Used(p) /\ Evaluated(p) /\ OfSource(p)
Directory ==
    /\ disk.owner = None => disk.records = {} /\ disk.failure = None /\ disk.int8 = "none"
    /\ FailureExact
    /\ verdict = "valid" =>
         /\ disk.records = Records
         /\ "int8" \notin restored =>
              \A p \in Procs : run[p].n = 14 => run[p].opened = "whole"
IInv == TypeOK /\ Directory /\ \A p \in Procs : Proper(p)

-----------------------------------------------------------------------------
(* Lemmas                                                                  *)

LEMMA RecordFacts ==
    /\ Records = 1..14 /\ Len(RecordName) = 14
    /\ \A i \in 1..14 : AfterRecord(i) =
          CASE i = 4  -> "revision"     [] i = 5  -> "validateCal"
            [] i = 7  -> "overlap"      [] i = 8  -> "verifySource"
            [] i = 9  -> "verifyFp32"   [] i = 10 -> "verifyInt8"
            [] i = 11 -> "compare"      [] i = 12 -> "revalidate"
            [] i = 13 -> "environment"  [] i = 14 -> "return"
            [] OTHER  -> "write"
<1>1. Len(RecordName) = 14 /\ Records = 1..14
  BY DEF Records, RecordName
<1> QED
  BY <1>1 DEF AfterRecord, Sequence

\* Inputs have values, and None is none.
LEMMA ValueFacts ==
    /\ Inputs = {"cal", "eva", "model", "rev"}
    /\ \A k \in Inputs : Domain[k] \subseteq Values
    /\ None \notin Values /\ None \notin Procs /\ Source \in Values
BY ProductionAssumption DEF ProductionAssumption, Inputs, Domain, Values

Others(p) == \A q \in Procs \ {p} : run'[q] = run[q]
Whole == run' \in [Procs -> Run]

\* The three ways in which a stage changes the state of its process.
LEMMA GotoFacts ==
    ASSUME run \in [Procs -> Run], NEW p \in Procs, NEW l \in Living, Goto(p, l)
    PROVE  /\ Whole /\ Others(p) /\ run'[p].pc = l
           /\ run'[p].n = run[p].n /\ run'[p].out = run[p].out
           /\ run'[p].seen = run[p].seen /\ run'[p].used = run[p].used
           /\ run'[p].opened = run[p].opened /\ run'[p].fp32 = run[p].fp32
<1>1. run' = [run EXCEPT ![p] = [run[p] EXCEPT !.pc = l]] /\ run[p] \in Run
  BY DEF Goto
<1> QED
  BY <1>1 DEF Run, Whole, Others, Living

LEMMA EndFacts ==
    ASSUME run \in [Procs -> Run], NEW p \in Procs,
           NEW o \in {"completed", "failed", "refused", "uncreated", "killed"}, End(p, o)
    PROVE  /\ Whole /\ Others(p) /\ run'[p].pc = "done"
           /\ run'[p].n = run[p].n /\ run'[p].out = o
           /\ run'[p].seen = run[p].seen /\ run'[p].used = run[p].used
           /\ run'[p].opened = run[p].opened /\ run'[p].fp32 = run[p].fp32
<1>1. /\ run' = [run EXCEPT ![p] = [run[p] EXCEPT !.pc = "done", !.out = o]]
      /\ run[p] \in Run
  BY DEF End
<1> QED
  BY <1>1 DEF Run, Whole, Others

LEMMA NoteFacts ==
    ASSUME TypeOK, NEW p \in Procs, NEW k \in Inputs, NEW l \in Active, Note(p, k, l)
    PROVE  /\ Whole /\ Others(p) /\ run'[p].pc = l
           /\ run'[p].n = run[p].n /\ run'[p].out = run[p].out
           /\ run'[p].seen = [run[p].seen EXCEPT ![k] = world[k]]
           /\ run'[p].used = run[p].used /\ run'[p].opened = run[p].opened /\ run'[p].fp32 = run[p].fp32
<1>1. run \in [Procs -> Run] /\ world[k] \in Values
  BY DEF TypeOK
<1>2. [run[p].seen EXCEPT ![k] = world[k]] \in [Inputs -> Values \cup {None}]
  BY <1>1 DEF Run
<1>3. run' = [run EXCEPT ![p] = [run[p] EXCEPT !.seen = [run[p].seen EXCEPT ![k] = world[k]],
                                             !.pc = l]]
  BY <1>1 DEF Note
<1> QED
  BY ZenonT(60), <1>1, <1>2, <1>3 DEF Run, Whole, Others

LEMMA ReadFacts ==
    ASSUME TypeOK, NEW p \in Procs, NEW k \in Inputs \ {"rev"}, NEW l \in Active, Read(p, k, l)
    PROVE  /\ Whole /\ Others(p) /\ run'[p].pc = l
           /\ run'[p].n = run[p].n /\ run'[p].out = run[p].out
           /\ run'[p].seen = run[p].seen /\ run'[p].opened = run[p].opened /\ run'[p].fp32 = run[p].fp32
           /\ run'[p].used = Reads(run[p].used, k)
<1>1. run \in [Procs -> Run] /\ world \in [Inputs -> Values]
  BY DEF TypeOK
<1>2. run[p].used \in [Inputs -> SUBSET Values] /\ run[p] \in Run
  BY <1>1 DEF Run
<1>3. Reads(run[p].used, k) \in [Inputs -> SUBSET Values]
  BY <1>1, <1>2 DEF Reads
<1>4. run' = [run EXCEPT ![p] = [run[p] EXCEPT !.used = Reads(run[p].used, k), !.pc = l]]
  BY <1>1, <1>2 DEF Read
<1> QED
  BY <1>1, <1>2, <1>3, <1>4 DEF Run, Whole, Others
-----------------------------------------------------------------------------
(* What the steps of a process come to                                     *)

Keeps(p) == /\ run'[p].n = run[p].n /\ run'[p].seen = run[p].seen
            /\ run'[p].used = run[p].used /\ run'[p].opened = run[p].opened /\ run'[p].fp32 = run[p].fp32
Goes(p, l, m) == run[p].pc = l /\ run'[p].pc = m /\ run'[p].out = run[p].out
Stops(p, o) == run'[p].pc = "done" /\ run'[p].out = o /\ Keeps(p)
Owning(p) == [disk EXCEPT !.owner = p]

Refuses(p) == /\ run[p].pc = "start" /\ disk.owner # None /\ disk' = disk
              /\ Stops(p, "refused")
Breaks(p) == /\ run[p].pc = "start" /\ disk.owner = None
             /\ disk' \in {disk, Owning(p)} /\ Stops(p, "uncreated")
Creates(p) == /\ disk.owner = None /\ disk' = Owning(p)
              /\ Goes(p, "start", "config") /\ Keeps(p)
Completes(p) == run[p].pc = "return" /\ disk' = disk /\ Stops(p, "completed")
Dies(p) == run[p].pc \in Living /\ disk' = disk /\ Stops(p, "killed")
Raises(p) == /\ run[p].pc \in Active /\ disk' = disk
             /\ Goes(p, run[p].pc, "failing") /\ Keeps(p)
Retains(p) == /\ run[p].pc = "failing" /\ Stops(p, "failed")
              /\ \/ disk' = disk
                 \/ disk.failure = None /\ disk' = [disk EXCEPT !.failure = disk.records]

Writes(p) ==
    /\ run[p].pc = "write" /\ run[p].n + 1 \notin disk.records
    /\ disk' = [disk EXCEPT !.records = @ \cup {run[p].n + 1}]
    /\ run'[p].seen = run[p].seen /\ run'[p].used = run[p].used
    /\ run'[p].opened = run[p].opened /\ run'[p].fp32 = run[p].fp32 /\ run'[p].out = run[p].out
    /\ \/ run'[p].n = run[p].n + 1 /\ run'[p].pc = AfterRecord(run[p].n + 1)
       \/ run'[p].n = run[p].n /\ run'[p].pc = "failing"

Publishes(p) ==
    /\ disk.int8 = "none" /\ disk' = [disk EXCEPT !.int8 = "whole"]
    /\ Goes(p, "publish", "write") \/ Goes(p, "publish", "failing")
    /\ Keeps(p)

Passes(p) ==
    /\ disk' = disk /\ Keeps(p)
    /\ \/ Goes(p, "config", "write")
       \/ Goes(p, "overlap", "write") /\ run[p].seen["cal"] # run[p].seen["eva"]
       \/ Goes(p, "verifySource", "prepare")
       \/ Goes(p, "verifyFp32", "openFp32") /\ world["model"] = Source
       \/ Goes(p, "verifyInt8", "openInt8")
       \/ Goes(p, "compare", "write")
       \/ Goes(p, "revalidate", "revalidateEva") /\ Unchanged(p, "cal")
       \/ Goes(p, "revalidateEva", "endRevision") /\ Unchanged(p, "eva")
       \/ Goes(p, "endRevision", "write") /\ Unchanged(p, "rev")
       \/ Goes(p, "environment", "write")

Sees(p, k) == /\ run'[p].seen = [run[p].seen EXCEPT ![k] = world[k]]
              /\ run'[p].n = run[p].n /\ run'[p].used = run[p].used
              /\ run'[p].opened = run[p].opened /\ run'[p].fp32 = run[p].fp32
Notes(p) ==
    /\ disk' = disk
    /\ \/ Goes(p, "revision", "inspect") /\ Sees(p, "rev")
       \/ Goes(p, "inspect", "write") /\ Sees(p, "model") /\ world["model"] = Source
       \/ Goes(p, "validateCal", "validateEva") /\ Sees(p, "cal")
       \/ Goes(p, "validateEva", "write") /\ Sees(p, "eva")

Takes(p, k) == /\ run'[p].used = Reads(run[p].used, k)
               /\ run'[p].n = run[p].n /\ run'[p].seen = run[p].seen
               /\ run'[p].opened = run[p].opened /\ run'[p].fp32 = run[p].fp32
Uses(p) ==
    /\ disk' = disk
    /\ \/ Goes(p, "prepare", "quantize") /\ Takes(p, "model")
       \/ (Goes(p, "quantize", "quantize") \/ Goes(p, "quantize", "publish")) /\ Takes(p, "cal")
       \/ (Goes(p, "runFp32", "runFp32") \/ Goes(p, "runFp32", "write")) /\ Takes(p, "eva")
       \/ (Goes(p, "runInt8", "runInt8") \/ Goes(p, "runInt8", "write")) /\ Takes(p, "eva")

Opens(p) ==
    /\ disk' = disk /\ Goes(p, "openInt8", "runInt8")
    /\ run'[p].n = run[p].n /\ run'[p].seen = run[p].seen
    /\ run'[p].used = run[p].used /\ run'[p].fp32 = run[p].fp32
    /\ run'[p].opened = disk.int8

OpensSource(p) ==
    /\ disk' = disk /\ Goes(p, "openFp32", "runFp32")
    /\ run'[p].n = run[p].n /\ run'[p].seen = run[p].seen
    /\ run'[p].used = run[p].used /\ run'[p].opened = run[p].opened
    /\ run'[p].fp32 = world["model"]

Moved(p) ==
    \/ Refuses(p) \/ Breaks(p) \/ Creates(p) \/ Completes(p) \/ Dies(p)
    \/ Raises(p) \/ Retains(p) \/ Writes(p) \/ Publishes(p) \/ Passes(p)
    \/ Notes(p) \/ Uses(p) \/ Opens(p) \/ OpensSource(p)

ByProcess(p) == Stage(p) \/ Fail(p) \/ RetainFailure(p) \/ Kill(p)

LEMMA WriteFacts ==
    ASSUME TypeOK, NEW p \in Procs, Position(run[p]), WriteRecord(p)
    PROVE  Whole /\ Others(p) /\ Writes(p)
<1> DEFINE i == run[p].n + 1
<1>1. run \in [Procs -> Run] /\ run[p] \in Run /\ run[p].pc = "write"
  BY DEF TypeOK, WriteRecord, At
<1>2. i \in 1..14 /\ i \in Records
  <2>1. run[p].n \in 0..13
    BY <1>1 DEF Position
  <2> QED
    BY <2>1, RecordFacts
<1>3. AfterRecord(i) \in Active
  BY <1>2, RecordFacts DEF Active
<1>4. i \notin disk.records /\ disk' = [disk EXCEPT !.records = @ \cup {i}]
  BY DEF WriteRecord
<1>5. CASE run' = [run EXCEPT ![p].n = i, ![p].pc = AfterRecord(i)]
  <2>1. run' = [run EXCEPT ![p] = [run[p] EXCEPT !.n = i, !.pc = AfterRecord(i)]]
    BY <1>1, <1>5
  <2> HIDE DEF i
  <2>2. /\ Whole /\ Others(p) /\ run'[p].n = i /\ run'[p].pc = AfterRecord(i)
        /\ run'[p].seen = run[p].seen /\ run'[p].used = run[p].used
        /\ run'[p].opened = run[p].opened /\ run'[p].fp32 = run[p].fp32 /\ run'[p].out = run[p].out
    BY <1>1, <1>2, <1>3, <2>1 DEF Run, Whole, Others
  <2> QED
    BY <1>1, <1>4, <2>2 DEF Writes, i
<1>6. CASE Goto(p, "failing")
  <2>1. "failing" \in Living
    BY DEF Living
  <2> QED
    BY <1>1, <1>4, <1>6, <2>1, GotoFacts DEF Writes
<1> QED
  BY <1>5, <1>6 DEF WriteRecord

LEMMA Steps ==
    ASSUME TypeOK, NEW p \in Procs, Position(run[p]), ByProcess(p)
    PROVE  Inside /\ Whole /\ Others(p) /\ Moved(p)
<1>1. run \in [Procs -> Run]
  BY DEF TypeOK
<1> USE DEF Pure, At
<1>2. CASE CreateOutput(p)
  <2>1. Inside /\ run[p].pc = "start" /\ "config" \in Living
    BY <1>2 DEF CreateOutput, Living, Active
  <2>2. CASE disk.owner # None /\ End(p, "refused") /\ disk' = disk
    BY <1>1, <2>1, <2>2, EndFacts DEF Refuses, Stops, Keeps, Moved
  <2>3. CASE disk.owner = None /\ disk' \in {disk, Owning(p)} /\ End(p, "uncreated")
    BY <1>1, <2>1, <2>3, EndFacts DEF Breaks, Stops, Keeps, Moved
  <2>4. CASE disk.owner = None /\ disk' = Owning(p) /\ Goto(p, "config")
    BY <1>1, <2>1, <2>4, GotoFacts DEF Creates, Goes, Keeps, Moved
  <2> QED
    BY <1>2, <2>2, <2>3, <2>4 DEF CreateOutput, Owning
<1>3. CASE LoadConfiguration(p)
  <2>1. /\ Inside /\ disk' = disk /\ run[p].pc = "config" /\ Goto(p, "write")
        /\ "write" \in Living
    BY <1>3 DEF LoadConfiguration, Living, Active
  <2> QED
    BY <1>1, <1>3, <2>1, GotoFacts DEF LoadConfiguration, Passes, Goes, Keeps, Moved
<1>4. CASE CollectRevision(p)
  <2>1. /\ Inside /\ disk' = disk /\ run[p].pc = "revision" /\ Note(p, "rev", "inspect")
        /\ "rev" \in Inputs /\ "inspect" \in Active
    BY <1>4 DEF CollectRevision, Inputs, Active
  <2> QED
    BY <1>4, <2>1, NoteFacts DEF CollectRevision, Notes, Goes, Sees, Moved
<1>5. CASE InspectSource(p)
  <2>1. /\ Inside /\ disk' = disk /\ run[p].pc = "inspect" /\ Note(p, "model", "write")
        /\ "model" \in Inputs /\ "write" \in Active
    BY <1>5 DEF InspectSource, Inputs, Active
  <2> QED
    BY <1>5, <2>1, NoteFacts DEF InspectSource, Notes, Goes, Sees, Moved
<1>6. CASE ValidateCalibration(p)
  <2>1. /\ Inside /\ disk' = disk /\ run[p].pc = "validateCal" /\ Note(p, "cal", "validateEva")
        /\ "cal" \in Inputs /\ "validateEva" \in Active
    BY <1>6 DEF ValidateCalibration, Inputs, Active
  <2> QED
    BY <1>6, <2>1, NoteFacts DEF ValidateCalibration, Notes, Goes, Sees, Moved
<1>7. CASE ValidateEvaluation(p)
  <2>1. /\ Inside /\ disk' = disk /\ run[p].pc = "validateEva" /\ Note(p, "eva", "write")
        /\ "eva" \in Inputs /\ "write" \in Active
    BY <1>7 DEF ValidateEvaluation, Inputs, Active
  <2> QED
    BY <1>7, <2>1, NoteFacts DEF ValidateEvaluation, Notes, Goes, Sees, Moved
<1>8. CASE RequireNoOverlap(p)
  <2>1. /\ Inside /\ disk' = disk /\ run[p].pc = "overlap" /\ Goto(p, "write")
        /\ "write" \in Living
    BY <1>8 DEF RequireNoOverlap, Living, Active
  <2> QED
    BY <1>1, <1>8, <2>1, GotoFacts DEF RequireNoOverlap, Passes, Goes, Keeps, Moved
<1>9. CASE VerifySource(p)
  <2>1. /\ Inside /\ disk' = disk /\ run[p].pc = "verifySource" /\ Goto(p, "prepare")
        /\ "prepare" \in Living
    BY <1>9 DEF VerifySource, Living, Active
  <2> QED
    BY <1>1, <1>9, <2>1, GotoFacts DEF VerifySource, Passes, Goes, Keeps, Moved
<1>10. CASE PrepareInput(p)
  <2>1. /\ Inside /\ disk' = disk /\ run[p].pc = "prepare" /\ (Read(p, "model", "quantize"))
        /\ "model" \in Inputs \ {"rev"} /\ "quantize" \in Active
    BY <1>10 DEF PrepareInput, Inputs, Active
  <2> QED
    BY <2>1, ReadFacts DEF Uses, Goes, Takes, Moved
<1>11. CASE Quantize(p)
  <2>1. /\ Inside /\ disk' = disk /\ run[p].pc = "quantize"
        /\ (Read(p, "cal", "quantize") \/ Read(p, "cal", "publish"))
        /\ "cal" \in Inputs \ {"rev"} /\ "quantize" \in Active /\ "publish" \in Active
    BY <1>11 DEF Quantize, Inputs, Active
  <2> QED
    BY <2>1, ReadFacts DEF Uses, Goes, Takes, Moved
<1>12. CASE PublishModel(p)
  <2>1. /\ Inside /\ run[p].pc = "publish" /\ (Goto(p, "write") \/ Goto(p, "failing"))
        /\ disk.int8 = "none" /\ disk' = [disk EXCEPT !.int8 = "whole"]
        /\ "write" \in Living /\ "failing" \in Living
    BY <1>12 DEF PublishModel, Living, Active
  <2> QED
    BY <1>1, <2>1, GotoFacts DEF Publishes, Goes, Keeps, Moved
<1>13. CASE VerifyFp32(p)
  <2>1. /\ Inside /\ disk' = disk /\ run[p].pc = "verifyFp32" /\ Goto(p, "openFp32")
        /\ "openFp32" \in Living
    BY <1>13 DEF VerifyFp32, Living, Active
  <2> QED
    BY <1>1, <1>13, <2>1, GotoFacts DEF VerifyFp32, Passes, Goes, Keeps, Moved
<1>14. CASE RunFp32(p)
  <2>1. /\ Inside /\ disk' = disk /\ run[p].pc = "runFp32"
        /\ (Read(p, "eva", "runFp32") \/ Read(p, "eva", "write"))
        /\ "eva" \in Inputs \ {"rev"} /\ "runFp32" \in Active /\ "write" \in Active
    BY <1>14 DEF RunFp32, Inputs, Active
  <2> QED
    BY <2>1, ReadFacts DEF Uses, Goes, Takes, Moved
<1>15. CASE VerifyInt8(p)
  <2>1. /\ Inside /\ disk' = disk /\ run[p].pc = "verifyInt8" /\ Goto(p, "openInt8")
        /\ "openInt8" \in Living
    BY <1>15 DEF VerifyInt8, Living, Active
  <2> QED
    BY <1>1, <1>15, <2>1, GotoFacts DEF VerifyInt8, Passes, Goes, Keeps, Moved
<1>16. CASE OpenInt8(p)
  <2>1. /\ Inside /\ disk' = disk /\ run[p].pc = "openInt8" /\ "runInt8" \in Active
        /\ run' = [run EXCEPT ![p] = [run[p] EXCEPT !.opened = disk.int8, !.pc = "runInt8"]]
    BY <1>1, <1>16 DEF OpenInt8, Active
  <2>2. run[p] \in Run /\ disk.int8 \in {"none", "whole", "damaged"}
    BY <1>1 DEF TypeOK
  <2>3. /\ Whole /\ Others(p) /\ run'[p].pc = "runInt8" /\ run'[p].opened = disk.int8
        /\ run'[p].n = run[p].n /\ run'[p].seen = run[p].seen
        /\ run'[p].used = run[p].used /\ run'[p].out = run[p].out
        /\ run'[p].fp32 = run[p].fp32
    BY <1>1, <2>1, <2>2 DEF Run, Whole, Others
  <2> QED
    BY <2>1, <2>3 DEF Opens, Goes, Moved
<1>17. CASE RunInt8(p)
  <2>1. /\ Inside /\ disk' = disk /\ run[p].pc = "runInt8"
        /\ (Read(p, "eva", "runInt8") \/ Read(p, "eva", "write"))
        /\ "eva" \in Inputs \ {"rev"} /\ "runInt8" \in Active /\ "write" \in Active
    BY <1>17 DEF RunInt8, Inputs, Active
  <2> QED
    BY <2>1, ReadFacts DEF Uses, Goes, Takes, Moved
<1>18. CASE Compare(p)
  <2>1. /\ Inside /\ disk' = disk /\ run[p].pc = "compare" /\ Goto(p, "write")
        /\ "write" \in Living
    BY <1>18 DEF Compare, Living, Active
  <2> QED
    BY <1>1, <1>18, <2>1, GotoFacts DEF Compare, Passes, Goes, Keeps, Moved
<1>19. CASE RevalidateCalibration(p)
  <2>1. /\ Inside /\ disk' = disk /\ run[p].pc = "revalidate" /\ Goto(p, "revalidateEva")
        /\ "revalidateEva" \in Living
    BY <1>19 DEF RevalidateCalibration, Living, Active
  <2> QED
    BY <1>1, <1>19, <2>1, GotoFacts DEF RevalidateCalibration, Passes, Goes, Keeps, Moved
<1>20. CASE RevalidateEvaluation(p)
  <2>1. /\ Inside /\ disk' = disk /\ run[p].pc = "revalidateEva" /\ Goto(p, "endRevision")
        /\ "endRevision" \in Living
    BY <1>20 DEF RevalidateEvaluation, Living, Active
  <2> QED
    BY <1>1, <1>20, <2>1, GotoFacts DEF RevalidateEvaluation, Passes, Goes, Keeps, Moved
<1>21. CASE EndRevision(p)
  <2>1. /\ Inside /\ disk' = disk /\ run[p].pc = "endRevision" /\ Goto(p, "write")
        /\ "write" \in Living
    BY <1>21 DEF EndRevision, Living, Active
  <2> QED
    BY <1>1, <1>21, <2>1, GotoFacts DEF EndRevision, Passes, Goes, Keeps, Moved
<1>22. CASE CollectEnvironment(p)
  <2>1. /\ Inside /\ disk' = disk /\ run[p].pc = "environment" /\ Goto(p, "write")
        /\ "write" \in Living
    BY <1>22 DEF CollectEnvironment, Living, Active
  <2> QED
    BY <1>1, <1>22, <2>1, GotoFacts DEF CollectEnvironment, Passes, Goes, Keeps, Moved
<1>23. CASE WriteRecord(p)
  BY <1>23, WriteFacts DEF WriteRecord, Moved
<1>24. CASE Return(p)
  BY <1>1, <1>24, EndFacts DEF Return, Completes, Stops, Keeps, Moved
<1>25. CASE Fail(p)
  <2>1. "failing" \in Living
    BY DEF Living
  <2> QED
    BY <1>1, <1>25, <2>1, GotoFacts DEF Fail, Raises, Goes, Keeps, Moved
<1>26. CASE RetainFailure(p)
  BY <1>1, <1>26, EndFacts DEF RetainFailure, Retains, Stops, Keeps, Moved
<1>28. CASE OpenFp32(p)
  <2>1. /\ Inside /\ disk' = disk /\ run[p].pc = "openFp32" /\ "runFp32" \in Active
        /\ run' = [run EXCEPT ![p] = [run[p] EXCEPT !.fp32 = world["model"], !.pc = "runFp32"]]
    BY <1>1, <1>28 DEF OpenFp32, Active
  <2>2. run[p] \in Run /\ world["model"] \in Values
    BY <1>1, ValueFacts DEF TypeOK
  <2>3. /\ Whole /\ Others(p) /\ run'[p].pc = "runFp32" /\ run'[p].fp32 = world["model"]
        /\ run'[p].n = run[p].n /\ run'[p].seen = run[p].seen
        /\ run'[p].used = run[p].used /\ run'[p].out = run[p].out
        /\ run'[p].opened = run[p].opened
    BY <1>1, <2>1, <2>2 DEF Run, Whole, Others
  <2> QED
    BY <2>1, <2>3 DEF OpensSource, Goes, Moved
<1>27. CASE Kill(p)
  BY <1>1, <1>27, EndFacts DEF Kill, Dies, Stops, Keeps, Living, Moved
<1> QED
  BY <1>2, <1>3, <1>4, <1>5, <1>6, <1>7, <1>8, <1>9, <1>10, <1>11, <1>12, <1>13, <1>14,
     <1>15, <1>16, <1>17, <1>18, <1>19, <1>20, <1>21, <1>22, <1>23, <1>24, <1>25, <1>26,
     <1>27, <1>28 DEF ByProcess, Stage

-----------------------------------------------------------------------------
(* The invariant over the steps of a process                               *)

LEMMA PositionKept ==
    ASSUME TypeOK, NEW p \in Procs, Position(run[p]), Moved(p)
    PROVE  Position(run'[p])
<1>0. run[p].n \in 0..14
  BY RecordFacts DEF TypeOK, Run
<1>1. CASE Refuses(p)
  BY <1>0, <1>1 DEF Refuses, Stops, Keeps, Position, Active
<1>2. CASE Breaks(p)
  BY <1>0, <1>2 DEF Breaks, Stops, Keeps, Owning, Position, Active
<1>3. CASE Creates(p)
  BY <1>0, <1>3 DEF Creates, Goes, Keeps, Owning, Position, Active
<1>4. CASE Completes(p)
  BY <1>0, <1>4 DEF Completes, Stops, Keeps, Position, Active
<1>5. CASE Dies(p)
  BY <1>0, <1>5 DEF Dies, Stops, Keeps, Living, Position, Active
<1>6. CASE Raises(p)
  BY <1>0, <1>6 DEF Raises, Goes, Keeps, Position, Active
<1>7. CASE Retains(p)
  BY <1>0, <1>7 DEF Retains, Stops, Keeps, Position, Active
<1>8. CASE Writes(p)
  <2>1. run[p].n + 1 \in 1..14 /\ run[p].out = "none"
    BY <1>0, <1>8 DEF Writes, Position
  <2> QED
    BY <2>1, <1>8, RecordFacts DEF Writes, Position
<1>9. CASE Publishes(p)
  BY <1>0, <1>9 DEF Publishes, Goes, Keeps, Position, Active
<1>10. CASE Passes(p)
  BY <1>0, <1>10 DEF Passes, Goes, Keeps, Unchanged, Position, Active
<1>11. CASE Notes(p)
  BY <1>0, <1>11 DEF Notes, Goes, Sees, Position, Active
<1>12. CASE Uses(p)
  BY <1>0, <1>12 DEF Uses, Goes, Takes, Position, Active
<1>13. CASE Opens(p)
  BY <1>0, <1>13 DEF Opens, Goes, Position, Active
<1>14. CASE OpensSource(p)
  BY <1>0, <1>14 DEF OpensSource, Goes, Position, Active
<1> QED
  BY <1>1, <1>2, <1>3, <1>4, <1>5, <1>6, <1>7, <1>8, <1>9, <1>10, <1>11, <1>12, <1>13, <1>14 DEF
     Moved

\* What a step of p does to the directory: only its owner writes in it.
Shape(d) == d \in [owner: Procs \cup {None}, records: SUBSET Records,
                   int8: {"none", "whole", "damaged"}, failure: {None} \cup SUBSET Records]

LEMMA DirectoryKept ==
    ASSUME TypeOK, NEW p \in Procs, Position(run[p]), Owned(p), Directory, Moved(p)
    PROVE  /\ Shape(disk')
           /\ disk'.owner # disk.owner => disk.owner = None /\ disk'.owner = p
           /\ disk.owner \notin {None, p} => disk' = disk
           /\ disk.int8 # "none" => disk'.int8 = disk.int8
           /\ disk'.owner = None => disk' = disk
           /\ disk'.failure # None => disk'.failure = disk'.records
           /\ disk.records = Records => disk'.records = Records
<1>0. Shape(disk) /\ run[p].n \in 0..14 /\ None \notin Procs
  BY RecordFacts, ValueFacts DEF TypeOK, Run, Shape
<1>1. CASE disk' = disk
  BY <1>0, <1>1 DEF Directory, FailureExact
<1>2. CASE Breaks(p)
  BY <1>0, <1>2 DEF Breaks, Owning, Shape, Directory
<1>3. CASE Creates(p)
  BY <1>0, <1>3 DEF Creates, Owning, Shape, Directory
<1>4. CASE Retains(p)
  BY <1>0, <1>4 DEF Retains, Shape, Owned, Living, Directory, FailureExact
<1>5. CASE Writes(p)
  <2>1. run[p].n + 1 \in Records
    BY <1>0, <1>5, RecordFacts DEF Writes, Position
  <2>2. disk.owner = p /\ disk.failure = None
    BY <1>5 DEF Writes, Owned, Living, Active
  <2> QED
    BY <1>0, <1>5, <2>1, <2>2 DEF Writes, Shape
<1>6. CASE Publishes(p)
  BY <1>0, <1>6 DEF Publishes, Goes, Shape, Owned, Living, Active, Directory, FailureExact
<1> QED
  BY <1>1, <1>2, <1>3, <1>4, <1>5, <1>6
     DEF Moved, Refuses, Completes, Dies, Raises, Passes, Notes, Uses, Opens,
     OpensSource

LEMMA TypesOfProcess ==
    ASSUME TypeOK, NEW p \in Procs
    PROVE  /\ run[p].n \in 0..14 /\ None \notin Procs /\ None \notin Values
           /\ run[p].seen \in [Inputs -> Values \cup {None}]
           /\ run[p].used \in [Inputs -> SUBSET Values]
           /\ world \in [Inputs -> Values] /\ Inputs = {"cal", "eva", "model", "rev"}
           /\ run[p].opened \in {"none", "whole", "damaged"} /\ Shape(disk)
           /\ run[p].fp32 \in Values \cup {None}
           /\ \A k \in Inputs : world[k] \in past[k]
BY RecordFacts, ValueFacts DEF TypeOK, Run, Shape

LEMMA OwnedKept ==
    ASSUME TypeOK, NEW p \in Procs, Position(run[p]), Owned(p), Directory, Inside, Moved(p)
    PROVE  Owned(p)'
<1>1. CASE Refuses(p)
  BY TypesOfProcess, <1>1
     DEF Refuses, Stops, Keeps, Owned, Directory, FailureExact, Behind, Position, Active,
     Living, Shape
<1>2. CASE Breaks(p)
  BY TypesOfProcess, <1>2
     DEF Breaks, Stops, Keeps, Owning, Owned, Directory, FailureExact, Behind, Position,
     Active, Living, Shape
<1>3. CASE Creates(p)
  <2>1. /\ run'[p].n = 0 /\ run'[p].out = "none" /\ run'[p].pc = "config"
        /\ disk' = Owning(p) /\ disk.records = {} /\ disk.failure = None
    BY TypesOfProcess, <1>3 DEF Creates, Goes, Keeps, Position, Directory
  <2>2. disk'.owner = p /\ disk'.records = {} /\ disk'.failure = None /\ 1..0 = {}
    BY TypesOfProcess, <2>1 DEF Owning, Shape
  <2> QED
    BY <2>1, <2>2 DEF Owned, Behind
<1>4. CASE Completes(p)
  BY TypesOfProcess, <1>4, RecordFacts
     DEF Completes, Stops, Keeps, Owned, Directory, FailureExact, Behind, Position,
     Active, Living, Shape
<1>5. CASE Dies(p)
  BY TypesOfProcess, <1>5
     DEF Dies, Stops, Keeps, Living, Owned, Directory, FailureExact, Behind, Position,
     Active, Living, Shape
<1>6. CASE Raises(p)
  BY TypesOfProcess, <1>6
     DEF Raises, Goes, Keeps, Owned, Directory, FailureExact, Behind, Position, Active,
     Living, Shape
<1>7. CASE Retains(p)
  BY TypesOfProcess, <1>7
     DEF Retains, Stops, Keeps, Owned, Directory, FailureExact, Behind, Position, Active,
     Living, Shape
<1>8. CASE Writes(p)
  <2>1. /\ run[p].n \in 0..13 /\ disk.owner = p /\ disk.failure = None
        /\ disk.records = 1..run[p].n /\ run'[p].out = "none"
    BY TypesOfProcess, <1>8 DEF Writes, Position, Owned, Living, Active
  <2>2. /\ disk'.owner = p /\ disk'.failure = None /\ disk'.int8 = disk.int8
        /\ disk'.records = 1..run[p].n \cup {run[p].n + 1}
    BY TypesOfProcess, <2>1, <1>8 DEF Writes, Shape
  <2>3. CASE run'[p].n = run[p].n + 1 /\ run'[p].pc = AfterRecord(run[p].n + 1)
    <3>1. 1..run[p].n \cup {run[p].n + 1} = 1..(run[p].n + 1)
      BY SMTT(30), <2>1
    <3>2. Behind(p, 8, {})' => Behind(p, 8, {})
      BY <2>1, <2>3, <1>8, RecordFacts DEF Writes, Behind
    <3> QED
      BY <2>1, <2>2, <2>3, <3>1, <3>2 DEF Owned
  <2>4. CASE run'[p].n = run[p].n /\ run'[p].pc = "failing"
    BY <2>1, <2>2, <2>4, <1>8 DEF Writes, Owned, Behind, Active
  <2> QED
    BY <2>3, <2>4, <1>8 DEF Writes
<1>9. CASE Publishes(p)
  BY TypesOfProcess, <1>9
     DEF Publishes, Goes, Keeps, Owned, Directory, FailureExact, Behind, Position, Active,
     Living, Shape
<1>10. CASE Passes(p)
  BY TypesOfProcess, <1>10
     DEF Passes, Goes, Keeps, Unchanged, Owned, Directory, FailureExact, Behind, Position,
     Active, Living, Shape
<1>11. CASE Notes(p)
  BY TypesOfProcess, <1>11
     DEF Notes, Goes, Sees, Owned, Directory, FailureExact, Behind, Position, Active,
     Living, Shape
<1>12. CASE Uses(p)
  BY TypesOfProcess, <1>12
     DEF Uses, Goes, Takes, Owned, Directory, FailureExact, Behind, Position, Active,
     Living, Shape
<1>13. CASE Opens(p)
  BY TypesOfProcess, <1>13
     DEF Opens, Goes, Owned, Directory, FailureExact, Behind, Position, Active, Living,
     Shape
<1>14. CASE OpensSource(p)
  BY TypesOfProcess, <1>14
     DEF OpensSource, Goes, Owned, Directory, FailureExact, Behind, Position, Active,
     Living, Shape
<1> QED
  BY <1>1, <1>2, <1>3, <1>4, <1>5, <1>6, <1>7, <1>8, <1>9, <1>10, <1>11, <1>12, <1>13, <1>14 DEF
     Moved

LEMMA RecordedKept ==
    ASSUME TypeOK, NEW p \in Procs, Position(run[p]), Recorded(p), Inside, Moved(p)
    PROVE  Recorded(p)'
<1>1. CASE Refuses(p)
  BY TypesOfProcess, <1>1 DEF Refuses, Stops, Keeps, Recorded, Behind, Position, Inside
<1>2. CASE Breaks(p)
  BY TypesOfProcess, <1>2
     DEF Breaks, Stops, Keeps, Owning, Recorded, Behind, Position, Inside
<1>3. CASE Creates(p)
  BY TypesOfProcess, <1>3
     DEF Creates, Goes, Keeps, Owning, Recorded, Behind, Position, Inside
<1>4. CASE Completes(p)
  BY TypesOfProcess, <1>4 DEF Completes, Stops, Keeps, Recorded, Behind, Position, Inside
<1>5. CASE Dies(p)
  BY TypesOfProcess, <1>5 DEF Dies, Stops, Keeps, Living, Recorded, Behind, Position, Inside
<1>6. CASE Raises(p)
  BY TypesOfProcess, <1>6 DEF Raises, Goes, Keeps, Recorded, Behind, Position, Inside
<1>7. CASE Retains(p)
  BY TypesOfProcess, <1>7 DEF Retains, Stops, Keeps, Recorded, Behind, Position, Inside
<1>8. CASE Writes(p)
  <2>1. run[p].n \in 0..13
    BY TypesOfProcess, <1>8 DEF Writes, Position
  <2>2. CASE run'[p].n = run[p].n + 1 /\ run'[p].pc = AfterRecord(run[p].n + 1)
    BY TypesOfProcess, <2>1, <2>2, <1>8, RecordFacts
       DEF Writes, Recorded, Behind, Position, Inside
  <2>3. CASE run'[p].n = run[p].n /\ run'[p].pc = "failing"
    BY TypesOfProcess, <2>1, <2>3, <1>8, RecordFacts
       DEF Writes, Recorded, Behind, Position, Inside
  <2> QED
    BY <2>2, <2>3, <1>8 DEF Writes
<1>9. CASE Publishes(p)
  BY TypesOfProcess, <1>9 DEF Publishes, Goes, Keeps, Recorded, Behind, Position, Inside
<1>10. CASE Passes(p)
  BY TypesOfProcess, <1>10
     DEF Passes, Goes, Keeps, Unchanged, Recorded, Behind, Position, Inside
<1>11. CASE Notes(p)
  BY TypesOfProcess, <1>11 DEF Notes, Goes, Sees, Recorded, Behind, Position, Inside
<1>12. CASE Uses(p)
  BY TypesOfProcess, <1>12 DEF Uses, Goes, Takes, Recorded, Behind, Position, Inside
<1>13. CASE Opens(p)
  BY TypesOfProcess, <1>13 DEF Opens, Goes, Recorded, Behind, Position, Inside
<1>14. CASE OpensSource(p)
  BY TypesOfProcess, <1>14 DEF OpensSource, Goes, Recorded, Behind, Position, Inside
<1> QED
  BY <1>1, <1>2, <1>3, <1>4, <1>5, <1>6, <1>7, <1>8, <1>9, <1>10, <1>11, <1>12, <1>13, <1>14 DEF
     Moved

LEMMA EvaluatedKept ==
    ASSUME TypeOK, NEW p \in Procs, Position(run[p]), Owned(p), Evaluated(p),
           Inside, Moved(p)
    PROVE  Evaluated(p)'
<1> USE DEF Inside
<1>1. CASE Refuses(p)
  BY TypesOfProcess, <1>1
     DEF Refuses, Stops, Keeps, Evaluated, Owned, Behind, Position, Shape
<1>2. CASE Breaks(p)
  BY TypesOfProcess, <1>2
     DEF Breaks, Stops, Keeps, Owning, Evaluated, Owned, Behind, Position, Shape
<1>3. CASE Creates(p)
  BY TypesOfProcess, <1>3
     DEF Creates, Goes, Keeps, Owning, Evaluated, Owned, Behind, Position, Shape
<1>4. CASE Completes(p)
  BY TypesOfProcess, <1>4
     DEF Completes, Stops, Keeps, Evaluated, Owned, Behind, Position, Shape
<1>5. CASE Dies(p)
  BY TypesOfProcess, <1>5
     DEF Dies, Stops, Keeps, Living, Evaluated, Owned, Behind, Position, Shape
<1>6. CASE Raises(p)
  BY TypesOfProcess, <1>6 DEF Raises, Goes, Keeps, Evaluated, Owned, Behind, Position, Shape
<1>7. CASE Retains(p)
  BY TypesOfProcess, <1>7
     DEF Retains, Stops, Keeps, Evaluated, Owned, Behind, Position, Shape
<1>8. CASE Writes(p)
  <2>1. run[p].n \in 0..13
    BY TypesOfProcess, <1>8 DEF Writes, Position
  <2>2. CASE run'[p].n = run[p].n + 1 /\ run'[p].pc = AfterRecord(run[p].n + 1)
    BY TypesOfProcess, <2>1, <2>2, <1>8, RecordFacts
       DEF Writes, Evaluated, Owned, Behind, Position, Shape
  <2>3. CASE run'[p].n = run[p].n /\ run'[p].pc = "failing"
    BY TypesOfProcess, <2>1, <2>3, <1>8, RecordFacts
       DEF Writes, Evaluated, Owned, Behind, Position, Shape
  <2> QED
    BY <2>2, <2>3, <1>8 DEF Writes
<1>9. CASE Publishes(p)
  BY TypesOfProcess, <1>9
     DEF Publishes, Goes, Keeps, Evaluated, Owned, Behind, Position, Shape
<1>10. CASE Passes(p)
  BY TypesOfProcess, <1>10
     DEF Passes, Goes, Keeps, Unchanged, Evaluated, Owned, Behind, Position, Shape
<1>11. CASE Notes(p)
  BY TypesOfProcess, <1>11 DEF Notes, Goes, Sees, Evaluated, Owned, Behind, Position, Shape
<1>12. CASE Uses(p)
  BY TypesOfProcess, <1>12 DEF Uses, Goes, Takes, Evaluated, Owned, Behind, Position, Shape
<1>13. CASE Opens(p)
  BY TypesOfProcess, <1>13 DEF Opens, Goes, Evaluated, Owned, Behind, Position, Shape
<1>14. CASE OpensSource(p)
  BY TypesOfProcess, <1>14
     DEF OpensSource, Goes, Evaluated, Owned, Behind, Position, Shape
<1> QED
  BY <1>1, <1>2, <1>3, <1>4, <1>5, <1>6, <1>7, <1>8, <1>9, <1>10, <1>11, <1>12, <1>13, <1>14 DEF
     Moved

LEMMA OfSourceKept ==
    ASSUME TypeOK, NEW p \in Procs, Position(run[p]), Recorded(p), OfSource(p),
           Inside, Moved(p)
    PROVE  OfSource(p)'
<1>1. CASE Writes(p)
  <2>1. run[p].n \in 0..13
    BY TypesOfProcess, <1>1 DEF Writes, Position
  <2>2. CASE run'[p].n = run[p].n + 1 /\ run'[p].pc = AfterRecord(run[p].n + 1)
    BY TypesOfProcess, <2>1, <2>2, <1>1, RecordFacts
       DEF Writes, OfSource, Behind, Inside
  <2>3. CASE run'[p].n = run[p].n /\ run'[p].pc = "failing"
    BY TypesOfProcess, <2>1, <2>3, <1>1 DEF Writes, OfSource, Behind, Inside
  <2> QED
    BY <2>2, <2>3, <1>1 DEF Writes
<1>2. CASE OpensSource(p)
  BY TypesOfProcess, <1>2 DEF OpensSource, Goes, OfSource, Behind, Position, Inside
<1>3. CASE Notes(p)
  BY TypesOfProcess, <1>3 DEF Notes, Goes, Sees, OfSource, Behind, Position, Inside
<1>4. CASE Uses(p)
  BY TypesOfProcess, <1>4 DEF Uses, Goes, Takes, OfSource, Behind, Position, Inside
<1>5. CASE Passes(p)
  BY TypesOfProcess, <1>5 DEF Passes, Goes, Keeps, OfSource, Behind, Position, Inside
<1>6. CASE Publishes(p) \/ Opens(p) \/ Raises(p) \/ Creates(p)
  BY TypesOfProcess, <1>6
     DEF Publishes, Opens, Raises, Creates, Goes, Keeps, OfSource, Behind, Position, Inside
<1>7. CASE Refuses(p) \/ Breaks(p) \/ Completes(p) \/ Dies(p) \/ Retains(p)
  BY TypesOfProcess, <1>7
     DEF Refuses, Breaks, Completes, Dies, Retains, Stops, Keeps, OfSource, Behind,
     Position, Inside
<1> QED
  BY <1>1, <1>2, <1>3, <1>4, <1>5, <1>6, <1>7 DEF Moved

LEMMA FaithfulKept ==
    ASSUME TypeOK, NEW p \in Procs, Position(run[p]), Recorded(p), Faithful(p),
           Inside, Moved(p)
    PROVE  Faithful(p)'
<1>1. CASE run'[p].n = run[p].n /\ run'[p].seen = run[p].seen /\ run'[p].used = run[p].used
  BY <1>1 DEF Faithful, Inside
<1>2. CASE Writes(p)
  BY TypesOfProcess, <1>2 DEF Writes, Faithful, Inside
<1>3. CASE Notes(p)
  BY TypesOfProcess, <1>3 DEF Notes, Goes, Sees, Faithful, Position, Inside
<1>4. CASE Uses(p)
  BY TypesOfProcess, <1>4 DEF Uses, Goes, Takes, Reads, Faithful, Position, Inside
<1> QED
  BY <1>1, <1>2, <1>3, <1>4
     DEF Moved, Refuses, Breaks, Creates, Completes, Dies, Raises, Retains, Publishes,
     Passes, Opens, OpensSource, Stops, Keeps

LEMMA UsedKept ==
    ASSUME TypeOK, NEW p \in Procs, Position(run[p]), Recorded(p), Faithful(p), Used(p),
           Inside, Moved(p)
    PROVE  Used(p)'
<1>a. \A k \in {"cal", "eva", "model", "rev"} \ restored :
          world[k] = run[p].seen[k] => run[p].used[k] \subseteq {run[p].seen[k]}
  BY TypesOfProcess DEF Faithful
<1>b. /\ "model" \notin restored /\ world["model"] = run[p].seen["model"] =>
            run[p].used["model"] \subseteq {run[p].seen["model"]}
      /\ "cal" \notin restored /\ world["cal"] = run[p].seen["cal"] =>
            run[p].used["cal"] \subseteq {run[p].seen["cal"]}
      /\ "eva" \notin restored /\ world["eva"] = run[p].seen["eva"] =>
            run[p].used["eva"] \subseteq {run[p].seen["eva"]}
      /\ "rev" \notin restored /\ world["rev"] = run[p].seen["rev"] =>
            run[p].used["rev"] \subseteq {run[p].seen["rev"]}
  BY <1>a
<1>1. CASE Refuses(p)
  BY TypesOfProcess, <1>1 DEF Refuses, Stops, Keeps, Used, UsedOf, Behind, Position, Inside
<1>2. CASE Breaks(p)
  BY TypesOfProcess, <1>2
     DEF Breaks, Stops, Keeps, Owning, Used, UsedOf, Behind, Position, Inside
<1>3. CASE Creates(p)
  BY TypesOfProcess, <1>3
     DEF Creates, Goes, Keeps, Owning, Used, UsedOf, Behind, Position, Inside
<1>4. CASE Completes(p)
  BY TypesOfProcess, <1>4
     DEF Completes, Stops, Keeps, Used, UsedOf, Behind, Position, Inside
<1>5. CASE Dies(p)
  BY TypesOfProcess, <1>5
     DEF Dies, Stops, Keeps, Living, Used, UsedOf, Behind, Position, Inside
<1>6. CASE Raises(p)
  BY TypesOfProcess, <1>6 DEF Raises, Goes, Keeps, Used, UsedOf, Behind, Position, Inside
<1>7. CASE Retains(p)
  BY TypesOfProcess, <1>7 DEF Retains, Stops, Keeps, Used, UsedOf, Behind, Position, Inside
<1>8. CASE Writes(p)
  <2>1. run[p].n \in 0..13
    BY TypesOfProcess, <1>8 DEF Writes, Position
  <2>2. CASE run'[p].n = run[p].n + 1 /\ run'[p].pc = AfterRecord(run[p].n + 1)
    BY TypesOfProcess, <2>1, <2>2, <1>8, RecordFacts
       DEF Writes, Used, UsedOf, Behind, Position, Inside
  <2>3. CASE run'[p].n = run[p].n /\ run'[p].pc = "failing"
    BY TypesOfProcess, <2>1, <2>3, <1>8, RecordFacts
       DEF Writes, Used, UsedOf, Behind, Position, Inside
  <2> QED
    BY <2>2, <2>3, <1>8 DEF Writes
<1>9. CASE Publishes(p)
  BY TypesOfProcess, <1>9 DEF Publishes, Goes, Keeps, Used, UsedOf, Behind, Position, Inside
<1>10. CASE Passes(p)
  BY TypesOfProcess, <1>b, <1>10
     DEF Passes, Goes, Keeps, Unchanged, Recorded, Used, UsedOf, Behind, Position, Inside
<1>11. CASE Notes(p)
  BY TypesOfProcess, <1>11 DEF Notes, Goes, Sees, Used, UsedOf, Behind, Position, Inside
<1>12. CASE Uses(p)
  <2>1. /\ run[p].n \in {8, 9, 10} /\ run'[p].n = run[p].n /\ run'[p].seen = run[p].seen
        /\ run[p].n = 8 <=> run[p].pc \in {"prepare", "quantize"}
        /\ run[p].n = 9 <=> run[p].pc = "runFp32"
        /\ run'[p].pc \in {"quantize", "publish", "runFp32", "runInt8", "write"}
        /\ run'[p].pc = "quantize" => run[p].n = 8
        /\ run'[p].pc = "publish" => run[p].pc = "quantize"
        /\ run'[p].pc \in {"runFp32", "runInt8", "write"} => run[p].n > 8
    BY <1>12 DEF Uses, Goes, Takes, Position
  <2>2. \A j \in Inputs : run[p].used[j] \subseteq run'[p].used[j]
    BY TypesOfProcess, <1>12 DEF Uses, Takes, Reads
  <2>3. /\ run'[p].used["rev"] # {}
        /\ run[p].pc = "prepare" => run'[p].used["model"] # {}
        /\ run[p].pc = "quantize" => run'[p].used["cal"] # {}
        /\ run[p].n > 8 => run'[p].used["eva"] # {} /\ run'[p].used["model"] = run[p].used["model"]
    <3>1. ASSUME NEW k \in Inputs \ {"rev"}, Takes(p, k)
          PROVE  /\ run'[p].used[k] # {} /\ run'[p].used["rev"] # {}
                 /\ \A j \in Inputs \ {k, "rev"} : run'[p].used[j] = run[p].used[j]
      BY TypesOfProcess, <3>1 DEF Takes, Reads
    <3>2. CASE run[p].pc = "prepare" /\ Takes(p, "model")
      BY TypesOfProcess, <2>1, <3>1, <3>2
    <3>3. CASE run[p].pc = "quantize" /\ Takes(p, "cal")
      BY TypesOfProcess, <2>1, <3>1, <3>3
    <3>4. CASE run[p].pc \in {"runFp32", "runInt8"} /\ Takes(p, "eva")
      BY TypesOfProcess, <2>1, <3>1, <3>4
    <3> QED
      BY <3>2, <3>3, <3>4, <1>12 DEF Uses, Goes
  <2> QED
    BY TypesOfProcess, <2>1, <2>2, <2>3 DEF Used, UsedOf, Behind, Inside
<1>13. CASE Opens(p)
  BY TypesOfProcess, <1>13 DEF Opens, Goes, Used, UsedOf, Behind, Position, Inside
<1>14. CASE OpensSource(p)
  BY TypesOfProcess, <1>14 DEF OpensSource, Goes, Used, UsedOf, Behind, Position, Inside
<1> QED
  BY <1>1, <1>2, <1>3, <1>4, <1>5, <1>6, <1>7, <1>8, <1>9, <1>10, <1>11, <1>12, <1>13, <1>14 DEF
     Moved

\* Evidence that was found valid has every record, so nobody reaches the end
\* any more.
LEMMA VerdictKept ==
    ASSUME TypeOK, NEW p \in Procs, Position(run[p]), Directory, Inside, Whole, Others(p), Moved(p),
           disk.records = Records => disk'.records = Records,
           verdict = "valid"
    PROVE  /\ disk'.records = Records
           /\ "int8" \notin restored =>
                \A q \in Procs : run'[q].n = 14 => run'[q].opened = "whole"
<1>1. disk'.records = Records /\ run[p].n \in 0..14
  BY RecordFacts DEF Directory, TypeOK, Run
<1>2. "int8" \notin restored /\ run[p].n = 14 => run[p].opened = "whole"
  BY DEF Directory
<1>3. run'[p].n = run[p].n /\ (run[p].n = 14 => run'[p].opened = run[p].opened)
  <2>1. CASE Writes(p)
    <3>1. run[p].n + 1 \in Records /\ disk.records = Records
      BY <1>1, <2>1, RecordFacts DEF Writes, Position, Directory
    <3> QED
      BY <2>1, <3>1 DEF Writes
  <2>2. CASE Opens(p) \/ OpensSource(p)
    BY <2>2 DEF Opens, OpensSource, Goes, Position
  <2> QED
    BY <2>1, <2>2 DEF Moved, Refuses, Breaks, Creates, Completes, Dies, Raises, Retains,
       Publishes, Passes, Notes, Uses, Stops, Keeps, Sees, Takes
<1> QED
  BY <1>1, <1>2, <1>3 DEF Others, Directory

\* A process that shares neither state nor directory with the one that moves.
LEMMA BystanderKept ==
    ASSUME TypeOK, NEW p \in Procs, NEW q \in Procs \ {p}, Proper(q), run'[q] = run[q], Inside,
           disk.owner \notin {None, p} => disk' = disk,
           disk.int8 # "none" => disk'.int8 = disk.int8
    PROVE  Proper(q)'
<1>1. run[q].n \in 0..14 /\ None \notin Procs
  BY RecordFacts, ValueFacts DEF TypeOK, Run
<1>2. Position(run[q])' /\ Recorded(q)' /\ Faithful(q)' /\ Used(q)'
  BY DEF Proper, Position, Recorded, Faithful, Used, UsedOf, Behind, Inside
<1>5. OfSource(q)'
  BY DEF Proper, OfSource, Behind, Inside
<1>3. Owned(q)'
  <2>1. CASE disk' = disk
    BY <2>1 DEF Proper, Owned, Behind
  <2>2. CASE disk.owner \in {None, p}
    <3>1. disk.owner # q
      BY <1>1, <2>2
    <3>2. run[q].pc \notin Living /\ run[q].n = 0 /\ run[q].out \notin {"completed", "failed"}
      BY <1>1, <3>1 DEF Proper, Owned
    <3> QED
      BY <3>2 DEF Owned, Behind, Living
  <2> QED
    BY <2>1, <2>2
<1>4. Evaluated(q)'
  BY DEF Proper, Evaluated, Behind, Inside
<1> QED
  BY <1>2, <1>3, <1>4, <1>5 DEF Proper

LEMMA ProcessKeepsInvariant ==
    ASSUME IInv, NEW p \in Procs, ByProcess(p)
    PROVE  IInv'
<1>1. TypeOK /\ Directory /\ Proper(p) /\ Position(run[p]) /\ Owned(p)
  BY DEF IInv, Proper
<1>2. Inside /\ Whole /\ Others(p) /\ Moved(p)
  BY <1>1, Steps
<1>3. /\ Shape(disk')
      /\ disk'.owner # disk.owner => disk.owner = None /\ disk'.owner = p
      /\ disk.owner \notin {None, p} => disk' = disk
      /\ disk.int8 # "none" => disk'.int8 = disk.int8
      /\ disk'.owner = None => disk' = disk
      /\ disk'.failure # None => disk'.failure = disk'.records
      /\ disk.records = Records => disk'.records = Records
  BY <1>1, <1>2, DirectoryKept
<1>4. TypeOK'
  BY <1>1, <1>2, <1>3 DEF TypeOK, Inside, Whole, Shape
<1>5. Proper(p)'
  <2>1. Position(run'[p])
    BY <1>1, <1>2, PositionKept
  <2>2. Owned(p)'
    BY <1>1, <1>2, OwnedKept
  <2>3. Recorded(p)'
    BY <1>1, <1>2, RecordedKept DEF Proper
  <2>4. Faithful(p)'
    BY <1>1, <1>2, FaithfulKept DEF Proper
  <2>5. Used(p)'
    BY <1>1, <1>2, UsedKept DEF Proper
  <2>6. Evaluated(p)'
    BY <1>1, <1>2, EvaluatedKept DEF Proper
  <2>7. OfSource(p)'
    BY <1>1, <1>2, OfSourceKept DEF Proper
  <2> QED
    BY <2>1, <2>2, <2>3, <2>4, <2>5, <2>6, <2>7 DEF Proper
<1>6. ASSUME NEW q \in Procs \ {p} PROVE Proper(q)'
  <2>1. Proper(q) /\ run'[q] = run[q]
    BY <1>2 DEF IInv, Others
  <2> QED
    BY <1>1, <1>2, <1>3, <2>1, BystanderKept
<1>7. Directory'
  <2>1. disk'.owner = None =>
            disk'.records = {} /\ disk'.failure = None /\ disk'.int8 = "none"
    BY <1>1, <1>3 DEF Directory
  <2>2. verdict' = "valid" =>
            /\ disk'.records = Records
            /\ "int8" \notin restored' =>
                 \A q \in Procs : run'[q].n = 14 => run'[q].opened = "whole"
    BY <1>1, <1>2, <1>3, VerdictKept DEF Inside
  <2> QED
    BY <1>3, <2>1, <2>2 DEF Directory, FailureExact
<1> QED
  BY <1>4, <1>5, <1>6, <1>7 DEF IInv

-----------------------------------------------------------------------------
(* The invariant over what others do                                       *)

LEMMA ChangeKeepsInvariant ==
    ASSUME IInv, NEW k \in Inputs, NEW v \in Domain[k], Change(k, v)
    PROVE  IInv'
<1>1. /\ TypeOK /\ v \in Values /\ None \notin Values /\ k \in Inputs
      /\ UNCHANGED <<disk, run, verdict>>
  BY ValueFacts DEF IInv, Change
<1>2. /\ world \in [Inputs -> Values] /\ past \in [Inputs -> SUBSET Values]
      /\ world' = [world EXCEPT ![k] = v] /\ past' = [past EXCEPT ![k] = @ \cup {v}]
      /\ restored \subseteq restored' /\ restored' \subseteq Inputs \cup {"int8"}
      /\ v \in past[k] => k \in restored'
      /\ \A j \in Inputs : past[j] \subseteq past'[j] /\ (j # k => world'[j] = world[j])
  BY <1>1 DEF TypeOK, Change
<1>3. TypeOK'
  <2>1. changes' \in 0..MaxChanges
    BY <1>1, ProductionAssumption DEF TypeOK, Change, ProductionAssumption
  <2>2. /\ world' \in [Inputs -> Values] /\ past' \in [Inputs -> SUBSET Values]
        /\ \A j \in Inputs : world'[j] \in past'[j]
    BY <1>1, <1>2 DEF TypeOK
  <2> QED
    BY <1>1, <1>2, <2>1, <2>2 DEF TypeOK
<1>4. Directory'
  BY <1>1, <1>2 DEF IInv, Directory, FailureExact
<1>5. ASSUME NEW p \in Procs PROVE Proper(p)'
  <2>1. Proper(p) /\ run[p] \in Run
    BY <1>1 DEF IInv, TypeOK
  <2>2. Position(run[p])' /\ Owned(p)' /\ Evaluated(p)'
    BY <1>1, <1>2, <2>1 DEF Proper, Position, Owned, Evaluated, Behind
  <2>3. Recorded(p)'
    BY <1>1, <1>2, <2>1 DEF Proper, Recorded, Behind
  <2>4. Used(p)'
    BY <1>1, <1>2, <2>1 DEF Proper, Used, UsedOf, Behind
  <2>5. Faithful(p)'
    <3>1. run[p].n < 8 => \A j \in Inputs : run[p].used[j] = {}
      BY <2>1 DEF Proper, Faithful
    <3>2. ASSUME NEW j \in Inputs \ restored', world'[j] = run[p].seen[j]
          PROVE  run[p].used[j] \subseteq {run[p].seen[j]}
      <4>1. CASE j = k
        <5>1. run[p].seen[k] = v /\ v # None
          BY <1>1, <1>2, <3>2, <4>1
        <5>2. v \in past[k]
          BY <2>1, <5>1 DEF Proper, Recorded
        <5> QED
          BY <1>2, <3>2, <4>1, <5>2
      <4>2. CASE j # k
        BY <1>2, <2>1, <3>2, <4>2 DEF Proper, Faithful
      <4> QED
        BY <4>1, <4>2
    <3> QED
      BY <1>1, <3>1, <3>2 DEF Faithful
  <2>6. OfSource(p)'
    <3>1. ASSUME run[p].fp32 # None, "model" \notin restored',
                 world'["model"] = run[p].seen["model"]
          PROVE  run[p].fp32 = run[p].seen["model"]
      <4>1. "model" \in Inputs /\ run[p].seen["model"] # None
        BY <1>1, <1>2, <3>1, ValueFacts
      <4>2. run[p].seen["model"] \in past["model"]
        BY <2>1, <4>1 DEF Proper, Recorded
      <4>3. k # "model"
        BY <1>2, <3>1, <4>1, <4>2
      <4> QED
        BY <1>2, <2>1, <3>1, <4>1, <4>3 DEF Proper, OfSource
    <3> QED
      BY <1>1, <2>1, <3>1 DEF Proper, OfSource, Behind
  <2> QED
    BY <2>2, <2>3, <2>4, <2>5, <2>6 DEF Proper
<1> QED
  BY <1>3, <1>4, <1>5 DEF IInv

LEMMA DamageKeepsInvariant == ASSUME IInv, Damage PROVE IInv'
<1>1. /\ TypeOK /\ Directory /\ disk.int8 # "none" /\ Shape(disk)
      /\ UNCHANGED <<world, past, run, verdict>>
  BY DEF IInv, Damage, TypeOK, Shape
<1>2. /\ Shape(disk') /\ disk'.int8 # "none" /\ disk'.owner = disk.owner
      /\ disk'.records = disk.records /\ disk'.failure = disk.failure
      /\ disk'.int8 = "damaged" \/ "int8" \in restored'
      /\ restored \subseteq restored' /\ restored' \subseteq restored \cup {"int8"}
  BY <1>1 DEF Shape, Damage
<1>3. TypeOK'
  <2>1. changes' \in 0..MaxChanges
    BY <1>1, ProductionAssumption DEF TypeOK, Damage, ProductionAssumption
  <2> QED
    BY <1>1, <1>2, <2>1 DEF TypeOK, Shape
<1>4. Directory'
  BY <1>1, <1>2 DEF Directory, FailureExact
<1>5. ASSUME NEW p \in Procs PROVE Proper(p)'
  <2>1. Proper(p)
    BY DEF IInv
  <2> QED
    BY <1>1, <1>2, <2>1
       DEF Proper, Position, Owned, Recorded, Faithful, Used, UsedOf, Evaluated, OfSource,
       Behind
<1> QED
  BY <1>3, <1>4, <1>5 DEF IInv

\* The model that validates is whole, so the one that was evaluated was.
LEMMA ValidateKeepsInvariant == ASSUME IInv, Validate PROVE IInv'
<1>1. TypeOK /\ UNCHANGED <<world, past, restored, changes, disk, run>>
  BY DEF IInv, Validate
<1>2. TypeOK'
  BY <1>1 DEF TypeOK, Validate
<1>3. \A p \in Procs : Proper(p)'
  BY <1>1
     DEF IInv, Proper, Position, Owned, Recorded, Faithful, Used, UsedOf, Evaluated,
     OfSource, Behind
<1>4. verdict' = "valid" =>
          /\ disk.records = Records
          /\ "int8" \notin restored =>
               \A p \in Procs : run[p].n = 14 => run[p].opened = "whole"
  <2>1. ASSUME disk.int8 = "whole", "int8" \notin restored, NEW p \in Procs, run[p].n = 14
        PROVE  run[p].opened = "whole"
    <3>1. run[p].opened # "none" /\ run[p].opened # "damaged"
      BY <2>1 DEF IInv, Proper, Evaluated, Behind
    <3> QED
      BY <1>1, <3>1 DEF TypeOK, Run
  <2> QED
    BY <2>1 DEF Validate
<1>5. Directory'
  BY <1>1, <1>4 DEF IInv, Directory, FailureExact
<1> QED
  BY <1>2, <1>3, <1>5 DEF IInv

LEMMA InitInvariant == Init => IInv
<1> SUFFICES ASSUME Init PROVE IInv
  OBVIOUS
<1>1. TypeOK
  BY ProductionAssumption, RecordFacts, ValueFacts
     DEF Init, TypeOK, Run, ProductionAssumption, Inputs
<1>2. Directory
  BY DEF Init, Directory, FailureExact
<1>3. ASSUME NEW p \in Procs PROVE Proper(p)
  <2>1. /\ run[p].pc = "start" /\ run[p].n = 0 /\ run[p].out = "none"
        /\ run[p].opened = "none" /\ run[p].fp32 = None /\ run[p].seen = [k \in Inputs |-> None]
        /\ run[p].used = [k \in Inputs |-> {}]
    BY DEF Init
  <2>2. Position(run[p]) /\ Owned(p) /\ Recorded(p) /\ Evaluated(p)
    BY <2>1 DEF Position, Owned, Recorded, Evaluated, Behind, Active, Living
  <2>3. Faithful(p) /\ Used(p) /\ OfSource(p)
    BY <2>1 DEF Faithful, Used, UsedOf, OfSource, Behind
  <2> QED
    BY <2>2, <2>3 DEF Proper
<1> QED
  BY <1>1, <1>2, <1>3 DEF IInv

LEMMA Inductive == Spec => []IInv
<1>1. IInv /\ [Next]_vars => IInv'
  <2> SUFFICES ASSUME IInv, [Next]_vars PROVE IInv'
    OBVIOUS
  <2>1. CASE UNCHANGED vars
    BY <2>1
       DEF vars, IInv, TypeOK, Directory, FailureExact, Proper, Position, Owned, Recorded,
       Faithful, Used, UsedOf, Evaluated, OfSource, Behind
  <2>2. ASSUME NEW p \in Procs, Stage(p) \/ Fail(p) \/ RetainFailure(p) \/ Kill(p) PROVE IInv'
    BY <2>2, ProcessKeepsInvariant DEF ByProcess
  <2>3. ASSUME NEW k \in Inputs, NEW v \in Domain[k], Change(k, v) PROVE IInv'
    BY <2>3, ChangeKeepsInvariant
  <2> QED
    BY <2>1, <2>2, <2>3, DamageKeepsInvariant, ValidateKeepsInvariant DEF Next
<1> QED
  BY <1>1, InitInvariant, PTL DEF Spec

-----------------------------------------------------------------------------
(* Theorems                                                                *)

\* Every variable of the run stays in its type.
THEOREM TypeCorrect == Spec => []TypeOK
BY Inductive, PTL DEF IInv

\* A completed run has left all its evidence, a model and no failure, with
\* any number of processes started on the same output.
THEOREM CompletedIsComplete == Spec => []EvidenceComplete
<1>1. IInv => EvidenceComplete
  BY DEF IInv, Proper, Owned, EvidenceComplete
<1> QED
  BY <1>1, Inductive, PTL

\* The failure record names exactly the records that are there.
THEOREM FailuresExact == Spec => []FailureExact
BY Inductive, PTL DEF IInv, Directory

\* What a reported run worked with is what it recorded, whatever others
\* change in between, as long as they do not change it back; and if the
\* source model is the recorded one now, it is the one that was evaluated.
THEOREM ReportsWhatItUsed == Spec => []UsedAsRecorded
<1>1. ASSUME IInv, NEW p \in Procs, run[p].n >= Report
      PROVE  /\ \A k \in Inputs \ restored : run[p].used[k] = {run[p].seen[k]}
             /\ "model" \notin restored /\ world["model"] = run[p].seen["model"] =>
                   run[p].fp32 = run[p].seen["model"]
  <2>1. run[p].n > 12 /\ run[p].n > 9 /\ run[p].n > 8 /\ run[p] \in Run
    BY <1>1, RecordFacts DEF Report, IInv, TypeOK, Run
  <2>2. ASSUME NEW k \in Inputs \ restored
        PROVE  run[p].used[k] = {run[p].seen[k]}
    <3>1. Used(p) /\ k \in {"cal", "eva", "model", "rev"}
      BY <1>1, ValueFacts DEF IInv, Proper
    <3>2. run[p].used[k] \subseteq {run[p].seen[k]} /\ run[p].used[k] # {}
      BY <2>1, <2>2, <3>1 DEF Used, UsedOf, Behind
    <3> QED
      BY <3>2
  <2>3. OfSource(p)
    BY <1>1 DEF IInv, Proper
  <2> QED
    BY <2>1, <2>2, <2>3 DEF OfSource, Behind
<1>2. IInv => UsedAsRecorded
  BY <1>1 DEF UsedAsRecorded
<1> QED
  BY <1>2, Inductive, PTL

\* A model is never evaluated with what it was calibrated with.
THEOREM CalibrationNotEvaluated == Spec => []DisjointData
<1>1. ASSUME IInv PROVE DisjointData
  <2> SUFFICES ASSUME NEW p \in Procs, run[p].n >= Report, {"cal", "eva"} \cap restored = {}
               PROVE  run[p].used["cal"] \cap run[p].used["eva"] = {}
    BY DEF DisjointData
  <2>1. run[p].n > 12 /\ run[p].n > 7 /\ run[p] \in Run
    BY <1>1, RecordFacts DEF Report, IInv, TypeOK, Run
  <2>2. Used(p) /\ Recorded(p) /\ "cal" \notin restored /\ "eva" \notin restored
    BY <1>1 DEF IInv, Proper
  <2>3. /\ run[p].used["cal"] \subseteq {run[p].seen["cal"]}
        /\ run[p].used["eva"] \subseteq {run[p].seen["eva"]}
        /\ run[p].seen["cal"] # run[p].seen["eva"]
    BY <2>1, <2>2 DEF Used, UsedOf, Recorded, Behind
  <2> QED
    BY <2>3
<1> QED
  BY <1>1, Inductive, PTL

\* Evidence that validates is about a model that was whole when evaluated,
\* unless it was exchanged and put back.
THEOREM ValidIsEvaluated == Spec => []ValidModelEvaluated
<1>1. IInv => ValidModelEvaluated
  BY RecordFacts DEF IInv, Directory, ValidModelEvaluated
<1> QED
  BY <1>1, Inductive, PTL

-----------------------------------------------------------------------------
(* The output directory implements EvidenceDirectory                       *)

\* Who has not started yet does not have the directory.
Newcomers == \A p \in Procs : run[p].pc = "start" => disk.owner # p

LEMMA NewcomersKept == ASSUME IInv, Newcomers, [Next]_vars PROVE Newcomers'
<1>1. ASSUME NEW p \in Procs, ByProcess(p) PROVE Newcomers'
  <2>1. /\ TypeOK /\ Position(run[p]) /\ Owned(p) /\ Directory
        /\ Others(p) /\ Moved(p)
    BY <1>1, Steps DEF IInv, Proper
  <2>2. disk'.owner # disk.owner => disk'.owner = p
    BY <2>1, DirectoryKept
  <2>3. run'[p].pc # "start"
    <3>1. AfterRecord(run[p].n + 1) # "start" \/ ~ Writes(p)
      BY <2>1, RecordFacts DEF Writes, Position
    <3> QED
      BY <2>1, <3>1
         DEF Moved, Refuses, Breaks, Creates, Completes, Dies, Raises, Retains, Writes,
         Publishes, Passes, Notes, Uses, Opens, OpensSource, Goes, Stops
  <2> QED
    BY <2>1, <2>2, <2>3 DEF Newcomers, Others
<1>2. CASE UNCHANGED <<run, disk>>
  BY <1>2 DEF Newcomers
<1>3. CASE Damage
  BY <1>3 DEF Damage, Newcomers, IInv, TypeOK
<1> QED
  BY <1>1, <1>2, <1>3 DEF Next, vars, ByProcess, Change, Validate

Said == [p \in Procs |-> run[p].out]
Directories == <<disk.owner, disk.records, disk.failure>>

\* What a step does to the answers.
LEMMA SaidFacts ==
    ASSUME TypeOK, NEW p \in Procs, Whole, Others(p)
    PROVE  /\ run'[p].out = run[p].out => Said' = Said
           /\ Said' = [Said EXCEPT ![p] = run'[p].out]
BY DEF Said, Others, Whole

\* Each step of a process is one on the abstract directory, or none.
LEMMA StepImplements ==
    ASSUME IInv, Newcomers, NEW p \in Procs, ByProcess(p)
    PROVE  [Evidence!AbstractNext]_(Evidence!avars)
<1>1. /\ TypeOK /\ Position(run[p]) /\ Owned(p) /\ Directory
      /\ Whole /\ Others(p) /\ Moved(p)
  BY Steps DEF IInv, Proper
<1>2. /\ run'[p].out = run[p].out => Said' = Said
      /\ \A a : run'[p].out = a => Said' = [Said EXCEPT ![p] = a]
  BY <1>1, SaidFacts
<1>3. run[p].pc # "done" => Said[p] = "none"
  BY <1>1 DEF Position, Said, TypeOK, Run
<1>4. Shape(disk) /\ run[p].n \in 0..14 /\ Len(RecordName) = 14 /\ Records = 1..14
  BY <1>1, TypesOfProcess, RecordFacts
<1>5. CASE run'[p].out = run[p].out /\ UNCHANGED Directories
  BY <1>2, <1>5 DEF Evidence!avars, Said, Directories
<1>6. CASE Creates(p) \/ (Breaks(p) /\ disk' = Owning(p))
  <2>1. /\ Said[p] = "none" /\ disk.owner = None /\ disk'.owner = p
        /\ disk'.records = disk.records /\ disk'.failure = disk.failure
    BY <1>3, <1>4, <1>6 DEF Creates, Breaks, Goes, Owning, Shape
  <2>2. Said' = Said \/ Said' = [Said EXCEPT ![p] = "uncreated"]
    BY <1>2, <1>6 DEF Creates, Breaks, Goes, Stops
  <2>3. Evidence!Acquire(p)
    BY <2>1, <2>2 DEF Evidence!Acquire, Evidence!Waiting, Evidence!Tell, Said
  <2> QED
    BY <2>3 DEF Evidence!AbstractNext
<1>7. CASE (Breaks(p) /\ disk' = disk) \/ Dies(p) \/ Retains(p)
  <2>1. /\ Said[p] = "none" /\ disk'.owner = disk.owner /\ disk'.records = disk.records
        /\ disk'.failure = disk.failure \/ Retains(p)
    BY <1>3, <1>4, <1>7 DEF Breaks, Dies, Retains, Living, Active, Shape
  <2>2. \/ Said' = [Said EXCEPT ![p] = "uncreated"] /\ disk'.failure = disk.failure
        \/ Said' = [Said EXCEPT ![p] = "killed"] /\ disk'.failure = disk.failure
        \/ /\ Said' = [Said EXCEPT ![p] = "failed"]
           /\ \/ disk'.failure = disk.failure
              \/ /\ disk.owner = p /\ disk.failure = None
                 /\ disk'.failure = disk.records
    BY <1>1, <1>2, <1>4, <1>7
       DEF Breaks, Dies, Retains, Stops, Owned, Living, Shape
  <2>3. Evidence!GiveUp(p)
    BY <2>1, <2>2 DEF Evidence!GiveUp, Evidence!Waiting, Evidence!Tell, Said
  <2> QED
    BY <2>3 DEF Evidence!AbstractNext
<1>8. CASE Refuses(p)
  <2>1. /\ Said[p] = "none" /\ disk' = disk /\ disk.owner \notin {None, p}
        /\ Said' = [Said EXCEPT ![p] = "refused"]
    BY <1>2, <1>3, <1>8 DEF Refuses, Stops, Newcomers
  <2>2. Evidence!Refuse(p)
    BY <2>1 DEF Evidence!Refuse, Evidence!Waiting, Evidence!Tell, Said
  <2> QED
    BY <2>2 DEF Evidence!AbstractNext
<1>9. CASE Completes(p)
  <2>1. /\ Said[p] = "none" /\ disk' = disk /\ disk.owner = p
        /\ disk.failure = None /\ disk.records = 1..14
        /\ Said' = [Said EXCEPT ![p] = "completed"]
    BY <1>1, <1>2, <1>3, <1>9 DEF Completes, Stops, Owned, Living, Active, Position
  <2>2. Evidence!Complete(p)
    BY <1>4, <2>1 DEF Evidence!Complete, Evidence!Waiting, Evidence!Tell, Said
  <2> QED
    BY <2>2 DEF Evidence!AbstractNext
<1>10. CASE Writes(p)
  <2> DEFINE i == run[p].n + 1
  <2>1. i \in 1..14 /\ disk.records = 1..(i - 1) /\ disk.owner = p /\ disk.failure = None
    BY <1>1, <1>4, <1>10 DEF Writes, Owned, Position, Living, Active
  <2>2. disk'.records = 1..i /\ disk'.owner = disk.owner /\ disk'.failure = disk.failure
    BY <1>4, <1>10, <2>1 DEF Writes, Shape
  <2>3. Said[p] = "none" /\ Said' = Said
    BY <1>2, <1>3, <1>10 DEF Writes
  <2> HIDE DEF i
  <2>4. Evidence!AppendRecord(p, i)
    BY <2>1, <2>2, <2>3 DEF Evidence!AppendRecord, Evidence!Waiting, Said
  <2> QED
    BY <1>4, <2>1, <2>4 DEF Evidence!AbstractNext
<1>11. CASE Publishes(p) \/ Raises(p) \/ Passes(p) \/ Notes(p) \/ Uses(p) \/ Opens(p)
           \/ OpensSource(p)
  <2>1. run'[p].out = run[p].out
    BY <1>11 DEF Publishes, Raises, Passes, Notes, Uses, Opens, OpensSource, Goes
  <2>2. UNCHANGED Directories
    BY <1>4, <1>11 DEF Publishes, Raises, Passes, Notes, Uses, Opens, OpensSource, Shape,
       Directories
  <2> QED
    BY <1>5, <2>1, <2>2
<1>12. Breaks(p) => disk' = disk \/ disk' = Owning(p)
  BY DEF Breaks
<1> QED
  BY <1>1, <1>6, <1>7, <1>8, <1>9, <1>10, <1>11, <1>12 DEF Moved

\* The output directory of a production run is numbered, complete when the
\* run says so, and written to by one process only, whoever else is started
\* on it and whatever fails: it is an EvidenceDirectory.
THEOREM Refinement == Spec => Implements
<1>1. Init => Evidence!AbstractInit /\ Newcomers
  BY ProductionAssumption DEF ProductionAssumption, Init, Evidence!AbstractInit, Newcomers
<1>2. IInv /\ Newcomers /\ [Next]_vars => [Evidence!AbstractNext]_(Evidence!avars)
  <2> SUFFICES ASSUME IInv, Newcomers, [Next]_vars
               PROVE  [Evidence!AbstractNext]_(Evidence!avars)
    OBVIOUS
  <2>1. CASE UNCHANGED <<run, Directories>>
    BY <2>1 DEF Evidence!avars, Directories
  <2>2. CASE Damage
    BY <2>1, <2>2 DEF Damage, IInv, TypeOK, Directories
  <2>3. ASSUME NEW k \in Inputs, NEW v \in Domain[k], Change(k, v)
        PROVE  UNCHANGED <<run, Directories>>
    BY <2>3 DEF Change, Directories
  <2>4. CASE Validate \/ UNCHANGED vars
    BY <2>1, <2>4 DEF Validate, vars, Directories
  <2> QED
    BY <2>1, <2>2, <2>3, <2>4, StepImplements DEF Next, ByProcess
<1>3. IInv /\ Newcomers /\ [Next]_vars => Newcomers'
  BY NewcomersKept
<1> QED
  BY <1>1, <1>2, <1>3, Inductive, PTL DEF Spec, Implements, Evidence!AbstractSpec
=============================================================================
