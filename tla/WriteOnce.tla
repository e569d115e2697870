------------------------------ MODULE WriteOnce ------------------------------
(***************************************************************************)
(* What the pipeline expects of publishing a file that must never be       *)
(* replaced: a register that one of several writers sets, once.  Every     *)
(* writer gets one answer, and the answer is true.                         *)
(*   "ok"        the value is mine and survives a loss of power             *)
(*   "exists"    somebody else's value was there                           *)
(*   "failed"    my value was not published                                *)
(*   "unsynced"  my value is published, but may not survive a power loss   *)
(*   "killed"    nobody was there to hear the answer                       *)
(***************************************************************************)
CONSTANTS
    Writers,
    None        \* no value; not a writer

VARIABLES
    value,    \* the writer whose value readers see, or None
    durable,  \* the writer whose value the disk is known to keep
    answer    \* what each writer was told

avars == <<value, durable, answer>>

Waiting(w) == answer[w] = "none"
Tell(w, a) == answer' = [answer EXCEPT ![w] = a]

AbstractInit ==
    /\ value = None
    /\ durable = None
    /\ answer = [w \in Writers |-> "none"]

Publish(w) ==
    /\ Waiting(w)
    /\ value = None
    /\ value' = w
    /\ UNCHANGED <<durable, answer>>

Succeed(w) ==
    /\ Waiting(w)
    /\ value = w
    /\ durable' = w
    /\ Tell(w, "ok")
    /\ UNCHANGED value

Refuse(w) ==
    /\ Waiting(w)
    /\ value \notin {None, w}
    /\ Tell(w, "exists")
    /\ UNCHANGED <<value, durable>>

GiveUp(w) ==
    /\ Waiting(w)
    /\ \/ value # w /\ Tell(w, "failed")
       \/ value = w /\ Tell(w, "unsynced")
       \/ Tell(w, "killed")
    /\ UNCHANGED <<value, durable>>

\* The value may fall back to what is known to be on disk; the writers that
\* were at work are gone, and with them any that had set the value.
LosePower ==
    /\ value' \in {value, durable}
    /\ durable' = value'
    /\ \E gone \in SUBSET {w \in Writers : Waiting(w)} :
          /\ {w \in Writers : Waiting(w)} \cap {value} \subseteq gone
          /\ answer' = [w \in Writers |->
                           IF w \in gone THEN "killed" ELSE answer[w]]

AbstractNext ==
    \/ \E w \in Writers : Publish(w) \/ Succeed(w) \/ Refuse(w) \/ GiveUp(w)
    \/ LosePower

AbstractSpec == AbstractInit /\ [][AbstractNext]_avars
=============================================================================
