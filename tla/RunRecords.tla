------------------------------ MODULE RunRecords ------------------------------
(***************************************************************************)
(* Benchmark runs, the records they leave, and what rvai compare says of   *)
(* two records.  rvai run starts the benchmark program natively or under   *)
(* QEMU, accepts its output (adapters/builtin.py) and saves a record       *)
(* (results/store.py); rvai compare loads two records and gives the ratio  *)
(* of their latencies where that means something (results/compare.py).     *)
(*                                                                         *)
(* The program is whatever RVAI_BENCH_BIN names, so what it prints is any  *)
(* of a set of payloads.  Names, counts and the reported sizes that must   *)
(* agree for a ratio are one value, the workload; finite says that none of *)
(* the reported numbers is Infinity.  Only runs write records.             *)
(***************************************************************************)
EXTENDS Naturals

CONSTANTS
    Runners,   \* rvai run commands
    Emulated,  \* those with --target qemu-riscv64
    Forced,    \* those with --force
    Files,     \* paths of records
    Output,    \* the --output of each command, or None
    Payloads,  \* what a program may print, if it is JSON of the right form
    Earlier,   \* a record that may be there at the beginning
    None

Payload == [env: {"native", "qemu-user"}, arch: {"riscv64", "host"},
            representative: BOOLEAN, verified: BOOLEAN,
            workload: {1, 2}, mean: {0, 1}, finite: BOOLEAN]
Record == [by: Runners \cup {"earlier"}, result: Payload]

ASSUME RecordAssumption ==
    /\ Emulated \subseteq Runners /\ Forced \subseteq Runners
    /\ Output \in [Runners -> Files \cup {None}]
    /\ Payloads \subseteq Payload
    /\ Earlier \in Record /\ Earlier.by = "earlier"
    /\ None \notin Files \cup Record /\ "earlier" \notin Runners

VARIABLES
    file,     \* the record at each path, or None
    temp,     \* commands whose temporary file exists
    run,      \* the state of each command
    shown     \* rvai compare: the records loaded and whether it gave a ratio

vars == <<file, temp, run, shown>>

Working == {"running", "parse", "check", "temp", "recheck", "replace"}
Over == {"ok", "refused", "failed", "killed"}

\* before is history: what was at the output when the temporary file was made.
TypeOK ==
    /\ file \in [Files -> Record \cup {None}]
    /\ temp \subseteq Runners
    /\ run \in [Runners -> [pc: Working \cup Over \cup {"start"},
                            result: Payload \cup {None},
                            before: Record \cup {None}]]
    /\ shown \in [left: Record \cup {None}, right: Record \cup {None},
                  ratio: BOOLEAN]

Nothing == [left |-> None, right |-> None, ratio |-> FALSE]

Init ==
    /\ file \in [Files -> {None, Earlier}]
    /\ temp = {}
    /\ run = [r \in Runners |-> [pc |-> "start", result |-> None, before |-> None]]
    /\ shown = Nothing

-----------------------------------------------------------------------------
At(r, l) == run[r].pc = l
Goto(r, l) == run' = [run EXCEPT ![r].pc = l]
Free(r) == r \in Forced \/ file[Output[r]] = None
RecordOf(r) == [by |-> r, result |-> run[r].result]

\* The target is there and the program starts.
Launch(r) ==
    /\ At(r, "start")
    /\ Goto(r, "running")
    /\ UNCHANGED <<file, temp, shown>>

Finish(r) ==
    /\ At(r, "running")
    /\ \E p \in Payloads : run' = [run EXCEPT ![r].result = p, ![r].pc = "parse"]
    /\ UNCHANGED <<file, temp, shown>>

\* Faulty variant: the result is not held against the selected target.
FitsAnyTarget(p, emulated) == TRUE

\* BuiltinAdapter._validate_target_result
FitsTarget(p, emulated) ==
    IF emulated
    THEN p.arch = "riscv64" /\ p.env = "qemu-user" /\ ~p.representative
    ELSE p.env = "native"

\* ExecutionInfo.validate_performance_representative, for a program's output
\* as well as for a record that is loaded
Consistent(p) == p.representative <=> p.env = "native"

\* BuiltinAdapter.parse_result; json.loads reads Infinity, and as a latency or
\* a throughput it is not negative.
Acceptable(p, emulated) ==
    /\ Consistent(p)
    /\ p.verified
    /\ FitsTarget(p, emulated)

Parse(r) ==
    /\ At(r, "parse")
    /\ Acceptable(run[r].result, r \in Emulated)
    /\ Goto(r, IF Output[r] = None THEN "ok" ELSE "check")
    /\ UNCHANGED <<file, temp, shown>>

Check(r) ==
    /\ At(r, "check")
    /\ Goto(r, IF Free(r) THEN "temp" ELSE "refused")
    /\ UNCHANGED <<file, temp, shown>>

\* Faulty variant: the record is written in place.
WriteInPlace(r) ==
    /\ At(r, "temp")
    /\ run' = [run EXCEPT ![r].before = file[Output[r]], ![r].pc = "recheck"]
    /\ file' = [file EXCEPT ![Output[r]] = RecordOf(r)]
    /\ UNCHANGED <<temp, shown>>

WriteTemp(r) ==
    /\ At(r, "temp")
    /\ temp' = temp \cup {r}
    /\ run' = [run EXCEPT ![r].before = file[Output[r]], ![r].pc = "recheck"]
    /\ UNCHANGED <<file, shown>>

\* Faulty variant: the destination is not looked for again.
RecheckNot(r) ==
    /\ At(r, "recheck")
    /\ Goto(r, "replace")
    /\ UNCHANGED <<file, temp, shown>>

Recheck(r) ==
    /\ At(r, "recheck")
    /\ \/ Free(r) /\ Goto(r, "replace") /\ UNCHANGED temp
       \/ ~Free(r) /\ Goto(r, "refused") /\ temp' \in {temp, temp \ {r}}
    /\ UNCHANGED <<file, shown>>

\* Faulty variant: the result is saved without the record around it.
ReplaceBare(r) ==
    /\ At(r, "replace")
    /\ file' = [file EXCEPT ![Output[r]] = run[r].result]
    /\ temp' = temp \ {r}
    /\ Goto(r, "ok")
    /\ UNCHANGED shown

\* os.replace
Replace(r) ==
    /\ At(r, "replace")
    /\ file' = [file EXCEPT ![Output[r]] = RecordOf(r)]
    /\ temp' = temp \ {r}
    /\ Goto(r, "ok")
    /\ UNCHANGED shown

\* The program fails, prints something else or exceeds its 300 seconds, its
\* result is not acceptable, or the file system reports an error.
Fail(r) ==
    /\ run[r].pc \in Working \cup {"start"}
    /\ Goto(r, "failed")
    /\ temp' \in {temp, temp \ {r}}
    /\ UNCHANGED <<file, shown>>

Kill(r) ==
    /\ run[r].pc \in Working
    /\ Goto(r, "killed")
    /\ UNCHANGED <<file, temp, shown>>

-----------------------------------------------------------------------------
\* load_run_record: model_dump_json has written null for Infinity, which is
\* not a number.
Loadable(p) == Consistent(p) /\ p.finite

\* _compare_performance
HasRatio(left, right) ==
    /\ left.representative /\ right.representative
    /\ left.workload = right.workload
    /\ left.verified /\ right.verified
    /\ left.mean # 0

\* rvai compare loads the left record, then the right one.
LoadLeft(f) ==
    /\ shown.left = None
    /\ file[f] # None /\ Loadable(file[f].result)
    /\ shown' = [Nothing EXCEPT !.left = file[f]]
    /\ UNCHANGED <<file, temp, run>>

Compare(f) ==
    /\ shown.left # None /\ shown.right = None
    /\ file[f] # None /\ Loadable(file[f].result)
    /\ shown' = [left |-> shown.left, right |-> file[f],
                 ratio |-> HasRatio(shown.left.result, file[f].result)]
    /\ UNCHANGED <<file, temp, run>>

CompareAgain ==
    /\ shown # Nothing
    /\ shown' = Nothing
    /\ UNCHANGED <<file, temp, run>>

Step(r) ==
    \/ Launch(r) \/ Finish(r) \/ Parse(r) \/ Check(r) \/ WriteTemp(r)
    \/ Recheck(r) \/ Replace(r) \/ Fail(r)

Next ==
    \/ \E r \in Runners : Step(r) \/ Kill(r)
    \/ \E f \in Files : LoadLeft(f) \/ Compare(f)
    \/ CompareAgain

Spec == Init /\ [][Next]_vars

-----------------------------------------------------------------------------
(* Properties                                                              *)

\* A ratio is given only for two runs that were really native ones, as they
\* were started and not only as they say, of the same verified workload, and
\* it is a ratio of numbers, the divisor not being zero.
RatioTrusted ==
    shown.ratio =>
        /\ \A d \in {shown.left, shown.right} :
              d.by \notin Emulated /\ d.result.env = "native" /\ d.result.verified
              /\ d.result.finite
        /\ shown.left.result.workload = shown.right.result.workload
        /\ shown.left.result.mean > 0

\* Without --force, a record that was there before the new one was written
\* out stays: only a record that appears after the second look is lost.
PresentKept ==
    \A r \in Runners \ Forced :
        run[r].pc = "ok" /\ Output[r] # None => run[r].before = None

\* A command that reports an error has not left its record behind.
ErrorMeansNoRecord ==
    \A r \in Runners : run[r].pc \in {"refused", "failed"} =>
        \A f \in Files : file[f] # None => file[f].by # r

\* Stated by the documentation of save_run_record, and false: a record is
\* replaced only by a command that was given --force.
NoAccidentalOverwrite ==
    [][\A f \in Files : file[f] # None /\ file'[f] # file[f] =>
          \E r \in Forced : run[r].pc = "replace" /\ run'[r].pc = "ok"]_vars
=============================================================================
