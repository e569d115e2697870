----------------------- MODULE ExclusivePublishProofs -----------------------
(***************************************************************************)
(* Proofs about ExclusivePublish, for any set of writers and any number of *)
(* losses of power: its invariants, and that it implements WriteOnce.      *)
(***************************************************************************)
EXTENDS ExclusivePublish, TLAPS

\* What is true of one writer between its steps, whatever the others do.
Sound(w) ==
    /\ pc[w] # "done" <=> answer[w] = "none"
    /\ pc[w] \in Linked \cup {"link"} => data[w] = "synced"
    /\ pc[w] \in Linked => entry = w
    /\ entry = w => data[w] = "synced" /\ pc[w] \in Linked \cup {"done"}
    /\ answer[w] = "ok" => entry = w /\ kept = w
    /\ answer[w] \in {"exists", "failed"} => entry # w

\* The inductive invariant.
IInv ==
    /\ TypeOK
    /\ kept # None => entry = kept
    /\ \A w \in Writers : Sound(w)

LEMMA InitIInv == Init => IInv
BY PublishAssumption
DEF PublishAssumption, Init, IInv, TypeOK, Sound, Working, Linked

LEMMA StepIInv ==
    ASSUME IInv, NEW w \in Writers, Step(w) \/ Kill(w)
    PROVE  IInv'
<1> USE PublishAssumption DEF PublishAssumption, Working, Linked
<1>1. TypeOK
  BY DEF IInv
<1>2. TypeOK'
  BY <1>1 DEF TypeOK, Step, Kill, Start, CreateTemp, WriteTemp, SyncTemp,
     LinkTemp, UnlinkTemp, SyncDirectory, Fail, Goto, End, CleanUp, At
<1>3. Sound(w)
  BY DEF IInv
<1>4. \A v \in Writers \ {w} :
        pc'[v] = pc[v] /\ answer'[v] = answer[v] /\ data'[v] = data[v]
  BY <1>1 DEF TypeOK, Step, Kill, Start, CreateTemp, WriteTemp, SyncTemp,
     LinkTemp, UnlinkTemp, SyncDirectory, Fail, Goto, End
<1>5. CASE UNCHANGED <<entry, kept>>
  <2>1. Sound(w)'
    BY <1>1, <1>3, <1>5
    DEF Sound, TypeOK, Step, Kill, Start, CreateTemp, WriteTemp, SyncTemp,
        LinkTemp, UnlinkTemp, SyncDirectory, Fail, Goto, End, At
  <2> QED
    BY <1>2, <1>4, <1>5, <2>1 DEF IInv, Sound
<1>6. CASE LinkTemp(w) /\ entry = None
  BY <1>1, <1>2, <1>3, <1>4, <1>6
  DEF IInv, Sound, TypeOK, LinkTemp, Goto, At
<1>7. CASE SyncDirectory(w)
  BY <1>1, <1>2, <1>3, <1>4, <1>7
  DEF IInv, Sound, TypeOK, SyncDirectory, Goto, End, At
<1> QED
  BY <1>5, <1>6, <1>7
  DEF Step, Kill, Start, CreateTemp, WriteTemp, SyncTemp, LinkTemp, UnlinkTemp,
      Fail

LEMMA LosePowerIInv ==
    ASSUME IInv, LosePower
    PROVE  IInv'
<1> USE PublishAssumption DEF PublishAssumption, Working, Linked
<1>1. TypeOK
  BY DEF IInv
<1>2. TypeOK'
  BY <1>1 DEF TypeOK, LosePower
<1>3. entry' \in {entry, kept} /\ kept' = entry'
  BY DEF LosePower
<1>4. ASSUME NEW w \in Writers PROVE Sound(w)'
  <2>1. /\ data[w] = "synced" => data'[w] = "synced"
        /\ pc'[w] = IF pc[w] \in Working THEN "done" ELSE pc[w]
        /\ answer'[w] = IF pc[w] \in Working THEN "killed" ELSE answer[w]
    BY DEF LosePower
  <2> QED
    BY <1>1, <1>3, <2>1 DEF IInv, Sound, TypeOK
<1> QED
  BY <1>2, <1>3, <1>4 DEF IInv

\* IInv holds in every reachable state, whoever is killed and whenever power
\* is lost.
THEOREM Inductive == Spec => []IInv
<1>1. IInv /\ [Next]_vars => IInv'
  <2> SUFFICES ASSUME IInv, [Next]_vars PROVE IInv'
    OBVIOUS
  <2>1. CASE UNCHANGED vars
    BY <2>1 DEF vars, IInv, TypeOK, Sound
  <2> QED
    BY <2>1, StepIInv, LosePowerIInv DEF Next
<1> QED
  BY <1>1, InitIInv, PTL DEF Spec

\* The model never leaves its types, for any set of writers.
THEOREM TypeCorrect == Spec => []TypeOK
<1>1. IInv => TypeOK
  BY DEF IInv
<1> QED
  BY <1>1, Inductive, PTL

\* The destination never names a torn or unfinished file.
THEOREM NeverTorn == Spec => []DestinationWhole
<1>1. IInv => DestinationWhole
  BY DEF IInv, DestinationWhole, Sound, TypeOK
<1> QED
  BY <1>1, Inductive, PTL

\* Every answer is true and stays true: success is durable, refusal final.
THEOREM Truthful == Spec => []AnswersTrue
<1>1. IInv => AnswersTrue
  BY DEF IInv, AnswersTrue, Sound
<1> QED
  BY <1>1, Inductive, PTL

\* Publishing implements the write-once register: link is where the value is
\* set, the fsync of the directory is where success is told, a loss of power
\* is one, and everything else is an answer or a stutter.
THEOREM Refinement == Spec => Implements
<1> USE PublishAssumption DEF PublishAssumption, Working, Linked
<1>1. Init => WO!AbstractInit
  BY DEF Init, WO!AbstractInit
<1>2. IInv /\ [Next]_vars => [WO!AbstractNext]_(WO!avars)
  <2> SUFFICES ASSUME IInv, [Next]_vars
               PROVE  [WO!AbstractNext]_(WO!avars)
    OBVIOUS
  <2> USE DEF At, Goto, End, WO!AbstractNext, WO!avars, WO!Waiting, WO!Tell
  <2>1. ASSUME NEW w \in Writers, Step(w) \/ Kill(w)
        PROVE  [WO!AbstractNext]_(WO!avars)
    <3>1. TypeOK /\ Sound(w)
      BY DEF IInv
    <3>2. CASE UNCHANGED <<entry, kept, answer>>
      BY <3>2
    <3>3. CASE UNCHANGED <<entry, kept>> /\ answer' = [answer EXCEPT ![w] = "exists"]
      <4>1. answer[w] = "none" /\ entry \notin {None, w}
        BY <2>1, <3>1, <3>3
        DEF Sound, TypeOK, Step, Kill, Start, CreateTemp, WriteTemp, SyncTemp,
            LinkTemp, UnlinkTemp, SyncDirectory, Fail
      <4> QED
        BY <3>3, <4>1 DEF WO!Refuse
    <3>4. CASE Fail(w)
      BY <3>1, <3>4 DEF Sound, Fail, WO!GiveUp
    <3>5. CASE Kill(w)
      BY <3>1, <3>5 DEF Sound, Kill, WO!GiveUp
    <3>6. CASE LinkTemp(w) /\ entry = None
      BY <3>1, <3>6 DEF Sound, LinkTemp, WO!Publish
    <3>7. CASE SyncDirectory(w)
      BY <3>1, <3>7 DEF Sound, SyncDirectory, WO!Succeed
    <3> QED
      BY <2>1, <3>2, <3>3, <3>4, <3>5, <3>6, <3>7
      DEF Step, Start, CreateTemp, WriteTemp, SyncTemp, LinkTemp, UnlinkTemp
  <2>2. CASE LosePower
    <3> DEFINE gone == {w \in Writers : pc[w] \in Working}
    <3>1. gone \in SUBSET {w \in Writers : WO!Waiting(w)}
      BY DEF IInv, Sound
    <3>2. {w \in Writers : WO!Waiting(w)} \cap {entry} \subseteq gone
      BY DEF IInv, Sound
    <3>3. answer' = [w \in Writers |->
                        IF w \in gone THEN "killed" ELSE answer[w]]
      BY <2>2 DEF LosePower
    <3> QED
      BY <2>2, <3>1, <3>2, <3>3 DEF LosePower, WO!LosePower
  <2>3. CASE UNCHANGED vars
    BY <2>3 DEF vars
  <2> QED
    BY <2>1, <2>2, <2>3 DEF Next
<1> QED
  BY <1>1, <1>2, Inductive, PTL DEF Spec, Implements, WO!AbstractSpec
=============================================================================
