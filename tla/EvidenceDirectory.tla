--------------------------- MODULE EvidenceDirectory ---------------------------
(***************************************************************************)
(* What the pipeline expects of the output directory of a command that     *)
(* leaves evidence: one of several commands gets it, and numbers its       *)
(* records.  They appear one after the other, none is skipped, replaced or *)
(* removed, and nothing is added to the directory of a command that has    *)
(* ended.  A failure names the records that are there.  The answer each    *)
(* command gives is about the directory:                                   *)
(*   "completed"  all the records are mine, and no failure is on record    *)
(*   "failed"     not all of it went well                                  *)
(*   "refused"    somebody else has the directory                          *)
(*   "uncreated"  the directory could not be set up; it may be there       *)
(*   "killed"     nobody was there to hear the answer                      *)
(*   "gone"       it was given, and nobody remembers it                    *)
(***************************************************************************)
EXTENDS Naturals

CONSTANTS
    Writers,
    Size,       \* how many records there are
    None        \* no writer and no failure

VARIABLES
    owner,      \* the writer that has the directory, or None
    records,    \* the records in it
    failure,    \* the records a retained failure names, or None
    answer      \* what each writer said

avars == <<owner, records, failure, answer>>

Waiting(w) == answer[w] = "none"
Tell(w, a) == answer' = [answer EXCEPT ![w] = a]

AbstractInit ==
    /\ owner = None
    /\ records = {}
    /\ failure = None
    /\ answer = [w \in Writers |-> "none"]

Acquire(w) ==
    /\ Waiting(w)
    /\ owner = None
    /\ owner' = w
    /\ UNCHANGED answer \/ Tell(w, "uncreated")
    /\ UNCHANGED <<records, failure>>

\* The next record.  An error may be reported although the record is there,
\* and with the last one the command may end.
AppendRecord(w, i) ==
    /\ Waiting(w)
    /\ owner = w
    /\ failure = None
    /\ records = 1..(i - 1)
    /\ records' = 1..i
    /\ \/ UNCHANGED answer
       \/ Tell(w, "failed")
       \/ i = Size /\ Tell(w, "completed")
    /\ UNCHANGED <<owner, failure>>

Complete(w) ==
    /\ Waiting(w)
    /\ owner = w
    /\ failure = None
    /\ records = 1..Size
    /\ Tell(w, "completed")
    /\ UNCHANGED <<owner, records, failure>>

Refuse(w) ==
    /\ Waiting(w)
    /\ owner \notin {None, w}
    /\ Tell(w, "refused")
    /\ UNCHANGED <<owner, records, failure>>

GiveUp(w) ==
    /\ Waiting(w)
    /\ \/ \E a \in {"failed", "uncreated", "killed"} : Tell(w, a)
          /\ UNCHANGED failure
       \/ /\ owner = w
          /\ failure = None
          /\ failure' = records
          /\ Tell(w, "failed")
    /\ UNCHANGED <<owner, records>>

Forget(w) ==
    /\ ~Waiting(w)
    /\ Tell(w, "gone")
    /\ UNCHANGED <<owner, records, failure>>

AbstractNext ==
    \E w \in Writers :
        \/ Acquire(w) \/ Complete(w) \/ Refuse(w) \/ GiveUp(w) \/ Forget(w)
        \/ \E i \in 1..Size : AppendRecord(w, i)

AbstractSpec == AbstractInit /\ [][AbstractNext]_avars
=============================================================================
