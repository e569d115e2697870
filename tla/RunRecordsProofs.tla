--------------------------- MODULE RunRecordsProofs ---------------------------
(***************************************************************************)
(* Proofs about RunRecords, for any commands, files and payloads, and for  *)
(* any record that is there at the beginning.                              *)
(***************************************************************************)
EXTENDS RunRecords, TLAPS

\* A record on file: a command's, accepted under the target it was given, or
\* the earlier one.
Accepted(d) ==
    \/ d = Earlier
    \/ d.by \in Runners /\ Acceptable(d.result, d.by \in Emulated)

Saving == {"check", "temp", "recheck", "replace"}

\* What is true of one command between its steps: its result once parsed was
\* acceptable; what it saw before it wrote is gone only if it was forced; and
\* there is no record of it unless it has succeeded.
Sound(r) ==
    LET d == run[r] IN
    /\ d.pc \in Saving \cup {"parse"} => d.result \in Payload
    /\ d.pc \in Saving =>
          Acceptable(d.result, r \in Emulated) /\ Output[r] \in Files
    /\ d.pc = "recheck" /\ d.before # None => file[Output[r]] # None
    /\ d.pc \in {"replace", "ok"} /\ Output[r] # None =>
          r \in Forced \/ d.before = None
    /\ d.pc # "ok" => \A f \in Files : file[f] # None => file[f].by # r

\* What rvai compare has loaded was on file, and a ratio follows its rule.
Shown(s) ==
    /\ \A d \in {s.left, s.right} :
          d # None => Accepted(d) /\ Loadable(d.result)
    /\ s.ratio => /\ s.left # None /\ s.right # None
                  /\ HasRatio(s.left.result, s.right.result)

\* The inductive invariant.
IInv ==
    /\ TypeOK
    /\ \A f \in Files : file[f] # None => Accepted(file[f])
    /\ Shown(shown)
    /\ \A r \in Runners : Sound(r)

LEMMA InitIInv == Init => IInv
<1> SUFFICES ASSUME Init PROVE IInv
  OBVIOUS
<1> USE RecordAssumption DEF RecordAssumption
<1>1. TypeOK
  BY DEF Init, TypeOK, Nothing, Working, Over
<1>2. Shown(shown)
  BY DEF Init, Shown, Nothing
<1>3. \A r \in Runners : Sound(r)
  BY DEF Init, Sound, Saving
<1> QED
  BY <1>1, <1>2, <1>3 DEF IInv, Init, Accepted

\* A step of a command that writes no file and leaves comparisons alone, by
\* what it makes of the command's own state.
LEMMA LocalStep ==
    ASSUME IInv, NEW r \in Runners, UNCHANGED <<file, shown>>,
           temp' \subseteq Runners, run' \in [Runners -> [
               pc: Working \cup Over \cup {"start"},
               result: Payload \cup {None}, before: Record \cup {None}]],
           \A q \in Runners \ {r} : run'[q] = run[q], Sound(r)'
    PROVE  IInv'
<1>1. TypeOK'
  BY DEF IInv, TypeOK
<1>2. \A q \in Runners \ {r} : Sound(q)'
  BY DEF IInv, Sound
<1>3. Shown(shown)' /\ \A f \in Files : file'[f] # None => Accepted(file'[f])
  BY DEF IInv, Shown, Accepted
<1> QED
  BY <1>1, <1>2, <1>3 DEF IInv

LEMMA StepIInv ==
    ASSUME IInv, NEW r \in Runners, Step(r) \/ Kill(r)
    PROVE  IInv'
<1> USE RecordAssumption DEF RecordAssumption, At, Goto
<1>1. TypeOK /\ Sound(r)
  BY DEF IInv
<1>2. CASE Launch(r)
  BY <1>1, <1>2, LocalStep DEF Launch, TypeOK, Sound, Saving, Working, Over
<1>3. CASE Finish(r)
  BY <1>1, <1>3, LocalStep DEF Finish, TypeOK, Sound, Saving, Working, Over
<1>4. CASE Parse(r)
  BY <1>1, <1>4, LocalStep DEF Parse, TypeOK, Sound, Saving, Working, Over
<1>5. CASE Check(r)
  BY <1>1, <1>5, LocalStep DEF Check, TypeOK, Sound, Saving, Working, Over
<1>6. CASE WriteTemp(r)
  BY <1>1, <1>6, LocalStep DEF WriteTemp, TypeOK, Sound, Saving, Working, Over
<1>7. CASE Recheck(r)
  <2>1. PICK l \in {"replace", "refused"} :
            run' = [run EXCEPT ![r].pc = l] /\ (l = "replace" => Free(r))
    BY <1>7 DEF Recheck
  <2>2. Sound(r)'
    BY <1>1, <1>7, <2>1 DEF Recheck, Free, TypeOK, Sound, Saving
  <2>3. UNCHANGED <<file, shown>> /\ temp' \subseteq Runners
    BY <1>1, <1>7 DEF Recheck, TypeOK
  <2> QED
    BY <1>1, <2>1, <2>2, <2>3, LocalStep DEF TypeOK, Working, Over
<1>8. CASE Fail(r)
  BY <1>1, <1>8, LocalStep DEF Fail, TypeOK, Sound, Saving, Working, Over
<1>9. CASE Kill(r)
  BY <1>1, <1>9, LocalStep DEF Kill, TypeOK, Sound, Saving, Working, Over
<1>10. CASE Replace(r)
  <2> DEFINE o == Output[r]
  <2>1. o \in Files /\ RecordOf(r) \in Record /\ RecordOf(r).by = r
    BY <1>1, <1>10 DEF Replace, Sound, Saving, RecordOf, Record
  <2>2. Accepted(RecordOf(r))
    BY <1>1, <1>10 DEF Replace, Sound, Saving, RecordOf, Accepted
  <2>3. /\ file'[o] = RecordOf(r) /\ file'[o] # None
        /\ \A f \in Files \ {o} : file'[f] = file[f]
        /\ run'[r] = [run[r] EXCEPT !.pc = "ok"]
        /\ \A q \in Runners \ {r} : run'[q] = run[q]
    BY <1>1, <1>10, <2>1 DEF Replace, TypeOK
  <2>4. TypeOK'
    BY <1>1, <1>10, <2>1 DEF Replace, TypeOK, Working, Over
  <2>5. \A f \in Files : file'[f] # None => Accepted(file'[f])
    BY <2>2, <2>3 DEF IInv
  <2>6. Shown(shown)'
    BY <1>10 DEF Replace, IInv, Shown
  <2>7. Sound(r)'
    BY <1>1, <1>10, <2>3 DEF Replace, TypeOK, Sound, Saving
  <2>8. \A q \in Runners \ {r} : Sound(q)'
    <3> SUFFICES ASSUME NEW q \in Runners \ {r} PROVE Sound(q)'
      OBVIOUS
    <3>1. run'[q] = run[q] /\ Sound(q)
      BY <2>3 DEF IInv
    <3>2. \A f \in Files : file[f] # None => file'[f] # None
      BY <2>3
    <3>3. ASSUME \A f \in Files : file[f] # None => file[f].by # q
          PROVE  \A f \in Files : file'[f] # None => file'[f].by # q
      BY <2>1, <2>3, <3>3
    <3> QED
      BY <3>1, <3>2, <3>3 DEF Sound, Saving
  <2> QED
    BY <2>4, <2>5, <2>6, <2>7, <2>8 DEF IInv, Accepted
<1> QED
  BY <1>2, <1>3, <1>4, <1>5, <1>6, <1>7, <1>8, <1>9, <1>10 DEF Step

\* rvai compare reads records that are on file.
LEMMA CompareIInv ==
    ASSUME IInv,
           CompareAgain \/ \E f \in Files : LoadLeft(f) \/ Compare(f)
    PROVE  IInv'
<1>1. UNCHANGED <<file, temp, run>>
  BY DEF CompareAgain, LoadLeft, Compare
<1>2. shown' \in [left: Record \cup {None}, right: Record \cup {None},
                  ratio: BOOLEAN] /\ Shown(shown')
  <2>1. CASE CompareAgain
    BY <2>1 DEF CompareAgain, Nothing, Shown
  <2>2. CASE \E f \in Files : LoadLeft(f)
    BY ZenonT(60), <2>2 DEF LoadLeft, Nothing, Shown, IInv, TypeOK
  <2>3. CASE \E f \in Files : Compare(f)
    <3>1. PICK f \in Files : Compare(f)
      BY <2>3
    <3>2. HasRatio(shown.left.result, file[f].result) \in BOOLEAN
      BY DEF HasRatio
    <3> QED
      BY <3>1, <3>2 DEF Compare, Shown, IInv, TypeOK
  <2> QED
    BY <2>1, <2>2, <2>3
<1>3. TypeOK'
  BY <1>1, <1>2 DEF IInv, TypeOK
<1>4. \A r \in Runners : Sound(r)'
  BY <1>1 DEF IInv, Sound
<1> QED
  BY <1>1, <1>2, <1>3, <1>4 DEF IInv, Accepted, Shown

THEOREM Inductive == Spec => []IInv
<1>1. ASSUME IInv, [Next]_vars PROVE IInv'
  <2>1. CASE UNCHANGED vars
    BY <1>1, <2>1 DEF vars, IInv, TypeOK, Sound, Shown, Accepted
  <2> QED
    BY <1>1, <2>1, StepIInv, CompareIInv DEF Next
<1> QED
  BY <1>1, InitIInv, PTL DEF Spec

\* Commands, files and comparisons keep their types (rvai run, compare).
THEOREM TypeCorrect == Spec => []TypeOK
<1>1. IInv => TypeOK
  BY DEF IInv
<1> QED
  BY <1>1, Inductive, PTL

\* No latency ratio relates anything but two native, verified runs of one
\* workload, whatever the programs printed (results/compare.py).
THEOREM Trusted == Spec => []RatioTrusted
<1>1. IInv => RatioTrusted
  <2> SUFFICES ASSUME IInv, shown.ratio PROVE RatioTrusted
    BY DEF RatioTrusted
  <2> USE RecordAssumption DEF RecordAssumption
  <2> DEFINE l == shown.left
             r == shown.right
  <2>1. /\ l \in Record /\ Accepted(l) /\ Loadable(l.result)
        /\ r \in Record /\ Accepted(r) /\ Loadable(r.result)
        /\ HasRatio(l.result, r.result)
    BY DEF IInv, TypeOK, Shown
  <2>2. ASSUME NEW d \in Record, Accepted(d), Loadable(d.result),
               d.result.representative
        PROVE  d.by \notin Emulated /\ d.result.env = "native" /\ d.result.finite
    BY <2>2 DEF Accepted, Acceptable, Loadable, Consistent, FitsTarget, Record, Payload
  <2>3. l.result.mean > 0
    BY <2>1 DEF HasRatio, Record, Payload
  <2> QED
    BY <2>1, <2>2, <2>3 DEF RatioTrusted, HasRatio
<1> QED
  BY <1>1, Inductive, PTL

\* Without --force, what was at the output when the record was written out is
\* not replaced (save_run_record's second look).
THEOREM Kept == Spec => []PresentKept
<1>1. IInv => PresentKept
  BY DEF IInv, Sound, PresentKept
<1> QED
  BY <1>1, Inductive, PTL

\* A command that failed or was refused has no record on file.
THEOREM NoRecordOnError == Spec => []ErrorMeansNoRecord
<1>1. IInv => ErrorMeansNoRecord
  BY DEF IInv, Sound, ErrorMeansNoRecord
<1> QED
  BY <1>1, Inductive, PTL
=============================================================================
