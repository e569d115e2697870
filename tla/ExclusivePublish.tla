--------------------------- MODULE ExclusivePublish ---------------------------
(***************************************************************************)
(* How the model pipeline publishes a file it must never replace: several  *)
(* processes, each with its own payload for one destination, as            *)
(* write_canonical_json (model_pipeline/io.py) does it for every evidence  *)
(* record and quantize_static_qdq (model_pipeline/quantize.py) for the     *)
(* INT8 model.  Both write a temporary file beside the destination, fsync  *)
(* it, link(2) it to the destination, which fails if that exists, unlink   *)
(* the temporary name and fsync the directory.                             *)
(*                                                                         *)
(* A loss of power keeps the bytes of a file that was fsynced and the      *)
(* directory entries that were there at the last fsync of the directory;   *)
(* entries made or removed later may or may not be on disk.  The directory *)
(* exists throughout: run_production_pipeline creates it.                  *)
(***************************************************************************)
EXTENDS Naturals

CONSTANTS
    Writers,    \* processes that publish to the destination
    Checking,   \* those that look for the destination first (quantize)
    None,       \* no file at the destination
    MaxLosses   \* bound on losses of power

ASSUME PublishAssumption ==
    /\ Checking \subseteq Writers
    /\ None \notin Writers
    /\ MaxLosses \in Nat

VARIABLES
    entry,    \* whose file the destination names, or None
    kept,     \* what the destination names on disk at the last fsync
    data,     \* how much of each writer's file is written
    temp,     \* writers whose temporary name is in the directory
    pc,       \* where each writer is
    answer,   \* what its caller was told
    losses

vars == <<entry, kept, data, temp, pc, answer, losses>>

Working == {"create", "write", "fsync", "link", "unlink", "sync"}
Linked == {"unlink", "sync"}

TypeOK ==
    /\ entry \in Writers \cup {None}
    /\ kept \in Writers \cup {None}
    /\ data \in [Writers -> {"none", "partial", "whole", "synced", "torn"}]
    /\ temp \subseteq Writers
    /\ pc \in [Writers -> Working \cup {"start", "done"}]
    /\ answer \in [Writers ->
          {"none", "ok", "exists", "failed", "unsynced", "killed"}]
    /\ losses \in 0..MaxLosses

Init ==
    /\ entry = None /\ kept = None
    /\ data = [w \in Writers |-> "none"]
    /\ temp = {}
    /\ pc = [w \in Writers |-> "start"]
    /\ answer = [w \in Writers |-> "none"]
    /\ losses = 0

-----------------------------------------------------------------------------
At(w, l) == pc[w] = l
Goto(w, l) == pc' = [pc EXCEPT ![w] = l]
End(w, a) == Goto(w, "done") /\ answer' = [answer EXCEPT ![w] = a]

\* The finally clause: unlink the temporary file, if it can be unlinked.
CleanUp(w) == temp' \in {temp, temp \ {w}}

Start(w) ==
    /\ At(w, "start")
    /\ \/ /\ w \in Checking /\ entry # None
          /\ End(w, "exists")
       \/ /\ w \in Checking => entry = None
          /\ Goto(w, "create") /\ UNCHANGED answer
    /\ UNCHANGED <<entry, kept, data, temp, losses>>

\* tempfile.mkstemp
CreateTemp(w) ==
    /\ At(w, "create")
    /\ temp' = temp \cup {w}
    /\ data' = [data EXCEPT ![w] = "partial"]
    /\ Goto(w, "write")
    /\ UNCHANGED <<entry, kept, answer, losses>>

\* The payload is written and flushed; quantize also checks what ONNX Runtime
\* wrote, and hashes it for the quantization record.
WriteTemp(w) ==
    /\ At(w, "write")
    /\ data' = [data EXCEPT ![w] = "whole"]
    /\ Goto(w, "fsync")
    /\ UNCHANGED <<entry, kept, temp, answer, losses>>

\* Faulty variant: the file is linked without having been fsynced.
SkipSync(w) ==
    /\ At(w, "fsync")
    /\ Goto(w, "link")
    /\ UNCHANGED <<entry, kept, data, temp, answer, losses>>

SyncTemp(w) ==
    /\ At(w, "fsync")
    /\ data' = [data EXCEPT ![w] = "synced"]
    /\ Goto(w, "link")
    /\ UNCHANGED <<entry, kept, temp, answer, losses>>

\* Faulty variant: rename instead of link, which replaces what is there.
RenameTemp(w) ==
    /\ At(w, "link")
    /\ entry' = w
    /\ Goto(w, "unlink")
    /\ UNCHANGED <<kept, data, temp, answer, losses>>

\* os.link: the one step at which the destination appears.
LinkTemp(w) ==
    /\ At(w, "link")
    /\ \/ /\ entry = None
          /\ entry' = w
          /\ Goto(w, "unlink")
          /\ UNCHANGED <<temp, answer>>
       \/ /\ entry # None
          /\ End(w, "exists") /\ CleanUp(w)
          /\ UNCHANGED entry
    /\ UNCHANGED <<kept, data, losses>>

UnlinkTemp(w) ==
    /\ At(w, "unlink")
    /\ temp' = temp \ {w}
    /\ Goto(w, "sync")
    /\ UNCHANGED <<entry, kept, data, answer, losses>>

\* Faulty variant: success is reported without the directory being fsynced.
ReturnUnsynced(w) ==
    /\ At(w, "sync")
    /\ End(w, "ok")
    /\ UNCHANGED <<entry, kept, data, temp, losses>>

\* fsync of the directory makes the entry durable, whoever linked it.
SyncDirectory(w) ==
    /\ At(w, "sync")
    /\ kept' = entry
    /\ End(w, "ok")
    /\ UNCHANGED <<entry, data, temp, losses>>

\* Faulty variant: the error names the step that failed, not what became of
\* the destination.
FailAtStep(w) ==
    /\ pc[w] \in Working
    /\ End(w, pc[w])
    /\ CleanUp(w)
    /\ UNCHANGED <<entry, kept, data, losses>>

\* An OSError (for quantize also a check that fails): the message tells
\* "not published" from "published but not fully synchronized".
Fail(w) ==
    /\ pc[w] \in Working
    /\ End(w, IF pc[w] \in Linked THEN "unsynced" ELSE "failed")
    /\ CleanUp(w)
    /\ UNCHANGED <<entry, kept, data, losses>>

Kill(w) ==
    /\ pc[w] \in Working
    /\ End(w, "killed")
    /\ UNCHANGED <<entry, kept, data, temp, losses>>

\* Power is lost: every process is gone, unsynced bytes may be torn, and any
\* temporary name that ever was may be there.
LosePower ==
    /\ losses < MaxLosses
    /\ losses' = losses + 1
    /\ entry' \in {entry, kept}
    /\ kept' = entry'
    /\ data' \in {d \in [Writers -> {"none", "partial", "whole", "synced", "torn"}] :
          \A w \in Writers :
             IF data[w] = "whole" THEN d[w] \in {"whole", "torn"}
                                  ELSE d[w] = data[w]}
    /\ temp' \in SUBSET {w \in Writers : data[w] # "none"}
    /\ pc' = [w \in Writers |-> IF pc[w] \in Working THEN "done" ELSE pc[w]]
    /\ answer' = [w \in Writers |->
                     IF pc[w] \in Working THEN "killed" ELSE answer[w]]

Step(w) ==
    \/ Start(w) \/ CreateTemp(w) \/ WriteTemp(w) \/ SyncTemp(w)
    \/ LinkTemp(w) \/ UnlinkTemp(w) \/ SyncDirectory(w) \/ Fail(w)

Next ==
    \/ \E w \in Writers : Step(w) \/ Kill(w)
    \/ LosePower

Spec == Init /\ [][Next]_vars

-----------------------------------------------------------------------------
(* Properties                                                              *)

\* The destination never names a file that is partly written or not yet on
\* disk, so that no loss of power can leave a torn record behind.
DestinationWhole == entry # None => data[entry] = "synced"

\* What the caller is told is true, and stays true through any later failure
\* of anybody: after success the writer's own file is at the destination and
\* on disk; after a refusal or "not published" it is not and never will be.
AnswersTrue ==
    \A w \in Writers :
        /\ answer[w] = "ok" => entry = w /\ kept = w
        /\ answer[w] \in {"exists", "failed"} => entry # w

\* The protocol implements a register that is written at most once.
WO == INSTANCE WriteOnce WITH value <- entry, durable <- kept
Implements == WO!AbstractSpec
=============================================================================
