--------------------------- MODULE ChangesProofs ---------------------------
(***************************************************************************)
(* Proofs about Changes, for any users, devices, number of overlapping     *)
(* calls, tasks and failures: the types, that the handlers implement the   *)
(* workflow in which no stage is skipped, and what the snapshot lists      *)
(* hold.                                                                   *)
(***************************************************************************)
EXTENDS Changes, TLAPS

\* A call works from something the change has been: the transition it is about to
\* commit starts from a state that was reached, by somebody who may; a restore
\* past its check had an approved change that covered its device.
CallOK(c) ==
  /\ calls[c].op = "move" =>
       /\ TRANSITIONS[calls[c].name].source \cap reached # {}
       /\ calls[c].name = "approve" => calls[c].user \in Approver \ {Requester}
  /\ calls[c].op = "check" => "approved" \in reached /\ calls[c].device \in listed
  /\ calls[c].op = "push" => calls[c].device \in pushed

FlowInv ==
  /\ state \in reached
  /\ devices \subseteq listed
  /\ \A c \in Call : CallOK(c)

IInv == TypeOK /\ FlowInv

-----------------------------------------------------------------------------
\* The table of transitions, entry by entry.
LEMMA Table ==
  /\ Names = {"submit", "approve", "reject", "implement", "close", "cancel"}
  /\ TRANSITIONS["submit"].source = {"draft", "rejected"}
  /\ TRANSITIONS["submit"].target = "pending_approval"
  /\ TRANSITIONS["approve"].source = {"pending_approval"}
  /\ TRANSITIONS["approve"].target = "approved"
  /\ TRANSITIONS["approve"].holders = Approver
  /\ TRANSITIONS["reject"].source = {"pending_approval"}
  /\ TRANSITIONS["reject"].target = "rejected"
  /\ TRANSITIONS["implement"].source = {"approved"}
  /\ TRANSITIONS["implement"].target = "implemented"
  /\ TRANSITIONS["close"].source = {"implemented"}
  /\ TRANSITIONS["close"].target = "closed"
  /\ TRANSITIONS["cancel"].source = {"draft", "pending_approval", "approved", "rejected"}
  /\ TRANSITIONS["cancel"].target = "cancelled"
BY DEF Names, TRANSITIONS

\* What a transition leads from and to is a step of the workflow, and only "approve"
\* leads to "approved".
LEMMA TableSteps ==
  ASSUME NEW n \in Names, NEW s \in TRANSITIONS[n].source
  PROVE  /\ <<s, TRANSITIONS[n].target>> \in Workflow!Steps
         /\ TRANSITIONS[n].target = "approved" <=> n = "approve"
<1>1. CASE n = "submit"    BY <1>1, Table DEF Workflow!Steps
<1>2. CASE n = "approve"   BY <1>2, Table DEF Workflow!Steps
<1>3. CASE n = "reject"    BY <1>3, Table DEF Workflow!Steps
<1>4. CASE n = "implement" BY <1>4, Table DEF Workflow!Steps
<1>5. CASE n = "close"     BY <1>5, Table DEF Workflow!Steps
<1>6. CASE n = "cancel"    BY <1>6, Table DEF Workflow!Steps
<1> QED BY <1>1, <1>2, <1>3, <1>4, <1>5, <1>6, Table

Moves == [op: {"move"}, name: Names, user: User, devices: SUBSET Device, task: 0..MaxTasks]
Edits == [op: {"edit"}, devices: SUBSET Device]
Restores == [op: {"check", "push"}, device: Device]

\* What a call holds depends on what it does.
LEMMA Shapes ==
  ASSUME NEW x \in Calls
  PROVE  /\ x.op = "move" => x \in Moves
         /\ x.op = "edit" => x \in Edits
         /\ x.op \in {"check", "push"} => x \in Restores
BY DEF Calls, Moves, Edits, Restores

\* Every shape is one of a call.
LEMMA ShapesAreCalls ==
  /\ Idle \in Calls /\ Moves \subseteq Calls /\ Edits \subseteq Calls /\ Restores \subseteq Calls
BY DEF Calls, Moves, Edits, Restores, Idle

\* The targets of the table are states.
LEMMA Targets ==
  ASSUME NEW n \in Names
  PROVE  TRANSITIONS[n].target \in
           {"draft", "pending_approval", "approved", "rejected", "implemented", "closed", "cancelled"}
BY Table

-----------------------------------------------------------------------------
\* Types

\* The types hold of the initial states.
LEMMA InitType == Init => TypeOK
<1> SUFFICES ASSUME Init PROVE TypeOK
  OBVIOUS
<1>1. calls \in [Call -> Calls]
  BY ShapesAreCalls DEF Init
<1>2. tasks \in [Task -> [phase: Phase, at: {"none", "queued", "read", "done"}, saw: SUBSET Task]]
  BY DEF Init, Phase
<1> QED BY <1>1, <1>2, ConstantsAssumption DEF Init, TypeOK

\* Every step keeps them.
LEMMA TypeStep == TypeOK /\ [Next]_vars => TypeOK'
<1> SUFFICES ASSUME TypeOK, [Next]_vars PROVE TypeOK'
  OBVIOUS
<1> USE DEF row, history
<1>0. CASE UNCHANGED vars
  BY <1>0 DEF vars, TypeOK
<1>1. ASSUME NEW c \in Call, Handle(c) PROVE TypeOK'
  <2> calls[c] \in Calls
    BY DEF TypeOK
  <2>d. ASSUME NEW w \in Calls, Do(c, w) PROVE calls' \in [Call -> Calls]
    BY <2>d DEF Do, TypeOK
  <2>1. ASSUME NEW n \in Names, NEW u \in User, ReadTransition(c, n, u) PROVE TypeOK'
    <3>1. [op |-> "move", name |-> n, user |-> u, devices |-> devices, task |-> 0] \in Calls
      BY ConstantsAssumption DEF Calls, TypeOK
    <3> QED BY <2>1, <2>d, <3>1 DEF ReadTransition, TypeOK
  <2>2. ASSUME NEW k \in Task, QueueSnapshot(c, k) PROVE TypeOK'
    <3>1. calls[c] \in Moves
      BY <2>2, Shapes DEF QueueSnapshot
    <3>2. [calls[c] EXCEPT !.task = k] \in Moves
      BY <3>1, ConstantsAssumption DEF Moves, Task
    <3>3. calls' \in [Call -> Calls]
      BY <2>2, <2>d, <3>2, ShapesAreCalls DEF QueueSnapshot
    <3>4. tasks' \in [Task -> [phase: Phase, at: {"none", "queued", "read", "done"}, saw: SUBSET Task]]
      BY <2>2 DEF QueueSnapshot, TypeOK, PhaseOf, Phase
    <3> QED BY <2>2, <3>3, <3>4 DEF QueueSnapshot, TypeOK
  <2>3. CASE CommitTransition(c)
    <3>1. calls[c] \in Moves
      BY <2>3, Shapes DEF CommitTransition
    <3>2. calls[c].name \in Names /\ calls[c].user \in User
      BY <3>1 DEF Moves
    <3>3. state' \in {"draft", "pending_approval", "approved", "rejected", "implemented", "closed", "cancelled"}
      BY <2>3, <3>2, Targets DEF CommitTransition
    <3>4. calls' \in [Call -> Calls]
      BY <2>3, <2>d, ShapesAreCalls DEF CommitTransition
    <3> QED BY <2>3, <3>2, <3>3, <3>4 DEF CommitTransition, TypeOK
  <2>4. ASSUME NEW u \in User, NEW new \in SUBSET Device, ReadEdit(c, u, new) PROVE TypeOK'
    <3>1. [op |-> "edit", devices |-> new] \in Calls
      BY DEF Calls
    <3> QED BY <2>4, <2>d, <3>1 DEF ReadEdit, TypeOK
  <2>5. CASE CommitEdit(c)
    <3>1. calls[c].devices \in SUBSET Device
      BY <2>5, Shapes DEF CommitEdit, Edits
    <3>2. calls' \in [Call -> Calls]
      BY <2>5, <2>d, ShapesAreCalls DEF CommitEdit
    <3> QED BY <2>5, <3>1, <3>2 DEF CommitEdit, TypeOK
  <2>6. ASSUME NEW d \in Device, CheckRestore(c, d) PROVE TypeOK'
    <3>1. [op |-> "check", device |-> d] \in Calls
      BY DEF Calls
    <3> QED BY <2>6, <2>d, <3>1 DEF CheckRestore, TypeOK
  <2>7. CASE PushRestore(c)
    <3>1. calls[c].device \in Device
      BY <2>7, Shapes DEF PushRestore, Restores
    <3>2. [op |-> "push", device |-> calls[c].device] \in Calls
      BY <3>1 DEF Calls
    <3> QED BY <2>7, <2>d, <3>1, <3>2 DEF PushRestore, TypeOK
  <2>8. CASE RefuseRestore(c)
    BY <2>8, <2>d, ShapesAreCalls DEF RefuseRestore, TypeOK
  <2>9. CASE RecordRestore(c)
    <3>1. calls[c].device \in Device
      BY <2>9, Shapes DEF RecordRestore, Restores
    <3> QED BY <2>9, <2>d, <3>1, ShapesAreCalls DEF RecordRestore, TypeOK
  <2>10. CASE FailCall(c)
    <3>1. calls' \in [Call -> Calls] /\ faults' \in 0..MaxFaults
      BY <2>10, <2>d, ShapesAreCalls, ConstantsAssumption DEF FailCall, TypeOK
    <3>2. undone' \subseteq Phase
      BY <2>10 DEF FailCall, TypeOK, PhaseOf, Phase
    <3> QED BY <2>10, <3>1, <3>2 DEF FailCall, TypeOK
  <2> QED BY <1>1, <2>1, <2>2, <2>3, <2>4, <2>5, <2>6, <2>7, <2>8, <2>9, <2>10 DEF Handle
<1>2. ASSUME NEW k \in Task, Work(k) \/ RetrySnapshot(k) PROVE TypeOK'
  <2> tasks[k] \in [phase: Phase, at: {"none", "queued", "read", "done"}, saw: SUBSET Task]
    BY DEF TypeOK
  <2>1. CASE TakeSnapshot(k)
    <3>1. snapshots[tasks[k].phase] \in SUBSET Task
      BY DEF TypeOK
    <3>2. tasks' \in [Task -> [phase: Phase, at: {"none", "queued", "read", "done"}, saw: SUBSET Task]]
      BY <2>1, <3>1 DEF TakeSnapshot, TypeOK
    <3> QED BY <2>1, <3>2 DEF TakeSnapshot, TypeOK
  <2>2. CASE RecordSnapshot(k)
    <3>1. tasks' \in [Task -> [phase: Phase, at: {"none", "queued", "read", "done"}, saw: SUBSET Task]]
      BY <2>2 DEF RecordSnapshot, At, TypeOK
    <3>2. snapshots' \in [Phase -> SUBSET Task] /\ clashed' \subseteq Task
      BY <2>2 DEF RecordSnapshot, TypeOK
    <3> QED BY <2>2, <3>1, <3>2 DEF RecordSnapshot, TypeOK
  <2>3. CASE RetrySnapshot(k)
    <3>1. tasks' \in [Task -> [phase: Phase, at: {"none", "queued", "read", "done"}, saw: SUBSET Task]]
      BY <2>3 DEF RetrySnapshot, TypeOK
    <3>2. faults' \in 0..MaxFaults
      BY <2>3, ConstantsAssumption DEF RetrySnapshot, TypeOK
    <3> QED BY <2>3, <3>1, <3>2 DEF RetrySnapshot, TypeOK
  <2> QED BY <1>2, <2>1, <2>2, <2>3 DEF Work
<1> QED BY <1>0, <1>1, <1>2 DEF Next

\* Every variable stays within its type.
THEOREM Typed == Spec => []TypeOK
<1> QED BY InitType, TypeStep, PTL DEF Spec

-----------------------------------------------------------------------------
\* The workflow

\* What the history of the change remembers only grows, so the calls a step leaves
\* alone keep working from something the change has been.
LEMMA OthersKeep ==
  ASSUME TypeOK, FlowInv, NEW c \in Call, NEW w, Do(c, w), CallOK(c)',
         reached \subseteq reached', listed \subseteq listed', pushed \subseteq pushed'
  PROVE  \A o \in Call : CallOK(o)'
<1>1. ASSUME NEW o \in Call, o # c PROVE CallOK(o)'
  <2>1. calls'[o] = calls[o]
    BY <1>1 DEF Do, TypeOK
  <2>2. CallOK(o)
    BY DEF FlowInv
  <2> QED BY <2>1, <2>2 DEF CallOK
<1> QED BY <1>1

\* The calls stay and the history grows: every call keeps what it works from.
LEMMA NobodyMoves ==
  ASSUME FlowInv, UNCHANGED calls,
         reached \subseteq reached', listed \subseteq listed', pushed \subseteq pushed'
  PROVE  \A o \in Call : CallOK(o)'
BY DEF FlowInv, CallOK

\* A call that has ended has nothing to work from.
LEMMA IdleOK ==
  ASSUME TypeOK, NEW c \in Call, Do(c, Idle)
  PROVE  CallOK(c)'
BY DEF Do, TypeOK, Idle, CallOK

\* At first no call is under way and the abstract workflow is at its beginning.
LEMMA InitFlow == Init => FlowInv /\ Workflow!Init
BY DEF Init, FlowInv, CallOK, Idle, Workflow!Init

\* Every step keeps the invariant and is a step of the workflow, or none.
LEMMA FlowStep == IInv /\ [Next]_vars => FlowInv' /\ [Workflow!Next]_(Workflow!vars)
<1> SUFFICES ASSUME TypeOK, FlowInv, [Next]_vars
             PROVE  FlowInv' /\ [Workflow!Next]_(Workflow!vars)
  BY DEF IInv
<1> USE DEF row, history
<1> DEFINE Quiet == UNCHANGED <<state, reached, approver, devices, listed, pushed, recorded>>
<1>q. ASSUME Quiet, \A o \in Call : CallOK(o)'
      PROVE  FlowInv' /\ [Workflow!Next]_(Workflow!vars)
  BY <1>q DEF FlowInv, Workflow!vars
<1>0. CASE UNCHANGED vars
  BY <1>0, <1>q, NobodyMoves DEF vars
<1>1. ASSUME NEW c \in Call, Handle(c)
      PROVE  FlowInv' /\ [Workflow!Next]_(Workflow!vars)
  <2> calls[c] \in Calls /\ CallOK(c)
    BY DEF TypeOK, FlowInv
  <2>d. ASSUME NEW w, Do(c, w) PROVE calls'[c] = w
    BY <2>d DEF Do, TypeOK
  <2>1. ASSUME NEW n \in Names, NEW u \in User, ReadTransition(c, n, u)
        PROVE  FlowInv' /\ [Workflow!Next]_(Workflow!vars)
    <3>1. calls'[c] = [op |-> "move", name |-> n, user |-> u, devices |-> devices, task |-> 0]
      BY <2>1, <2>d DEF ReadTransition
    <3>2. TRANSITIONS[n].source \cap reached # {}
      BY <2>1 DEF ReadTransition, MayApply, FlowInv
    <3>3. n = "approve" => u \in Approver \ {Requester}
      BY <2>1, Table DEF ReadTransition, MayApply
    <3>4. CallOK(c)'
      BY <2>1, <3>1, <3>2, <3>3 DEF CallOK, ReadTransition
    <3> QED BY <2>1, <3>4, <1>q, OthersKeep DEF ReadTransition
  <2>2. ASSUME NEW k \in Task, QueueSnapshot(c, k)
        PROVE  FlowInv' /\ [Workflow!Next]_(Workflow!vars)
    <3>1. calls[c] \in Moves
      BY <2>2, Shapes DEF QueueSnapshot
    <3>2. calls'[c] = [calls[c] EXCEPT !.task = k]
      BY <2>2, <2>d DEF QueueSnapshot
    <3>3. /\ calls'[c].op = calls[c].op /\ calls'[c].name = calls[c].name
          /\ calls'[c].user = calls[c].user
      BY <3>1, <3>2 DEF Moves
    <3>4. CallOK(c)'
      BY <2>2, <3>3 DEF CallOK, QueueSnapshot
    <3> QED BY <2>2, <3>4, <1>q, OthersKeep DEF QueueSnapshot
  <2>3. CASE CommitTransition(c)
    <3> DEFINE n == calls[c].name
    <3>1. n \in Names
      BY <2>3, Shapes DEF CommitTransition, Moves
    <3>2. PICK s \in reached : s \in TRANSITIONS[n].source
      BY <2>3 DEF CommitTransition, CallOK
    <3>3. /\ <<s, TRANSITIONS[n].target>> \in Workflow!Steps
          /\ TRANSITIONS[n].target = "approved" <=> n = "approve"
      BY <3>1, <3>2, TableSteps
    <3>4. Workflow!MoveFrom(s)
      BY <2>3, <3>3 DEF Workflow!MoveFrom, CommitTransition, CallOK
    <3>5. CallOK(c)'
      BY <2>3, IdleOK DEF CommitTransition
    <3>6. \A o \in Call : CallOK(o)'
      BY <2>3, <3>5, OthersKeep DEF CommitTransition
    <3> QED BY <2>3, <3>2, <3>4, <3>6 DEF CommitTransition, FlowInv, Workflow!Next
  <2>4. ASSUME NEW u \in User, NEW new \in SUBSET Device, ReadEdit(c, u, new)
        PROVE  FlowInv' /\ [Workflow!Next]_(Workflow!vars)
    <3>1. calls'[c] = [op |-> "edit", devices |-> new]
      BY <2>4, <2>d DEF ReadEdit
    <3>2. CallOK(c)'
      BY <3>1 DEF CallOK
    <3> QED BY <2>4, <3>2, <1>q, OthersKeep DEF ReadEdit
  <2>5. CASE CommitEdit(c)
    <3>1. calls[c].devices \in SUBSET Device
      BY <2>5, Shapes DEF CommitEdit, Edits
    <3>2. Workflow!Edit
      BY <2>5, <3>1 DEF CommitEdit, Workflow!Edit
    <3>3. \A o \in Call : CallOK(o)'
      BY <2>5, IdleOK, OthersKeep DEF CommitEdit
    <3> QED BY <2>5, <3>2, <3>3 DEF CommitEdit, FlowInv, Workflow!Next
  <2>6. ASSUME NEW d \in Device, CheckRestore(c, d)
        PROVE  FlowInv' /\ [Workflow!Next]_(Workflow!vars)
    <3>1. calls'[c] = [op |-> "check", device |-> d]
      BY <2>6, <2>d DEF CheckRestore
    <3>2. CallOK(c)'
      BY <2>6, <3>1 DEF CheckRestore, CallOK, FlowInv
    <3> QED BY <2>6, <3>2, <1>q, OthersKeep DEF CheckRestore
  <2>7. CASE PushRestore(c)
    <3>1. calls'[c] = [op |-> "push", device |-> calls[c].device]
      BY <2>7, <2>d DEF PushRestore
    <3>2. CallOK(c)'
      BY <2>7, <3>1 DEF PushRestore, CallOK
    <3>3. \A o \in Call : CallOK(o)'
      BY <2>7, <3>2, OthersKeep DEF PushRestore
    <3>4. Workflow!Push(calls[c].device) /\ "approved" \in reached /\ calls[c].device \in listed
      BY <2>7 DEF PushRestore, Workflow!Push, CallOK
    <3> QED BY <2>7, <3>3, <3>4 DEF PushRestore, FlowInv, Workflow!Next
  <2>8. CASE RefuseRestore(c)
    BY <2>8, <1>q, IdleOK, OthersKeep DEF RefuseRestore
  <2>9. CASE RecordRestore(c)
    <3>1. calls[c].device \in Device
      BY <2>9, Shapes DEF RecordRestore, Restores
    <3>2. Workflow!Record(calls[c].device)
      BY <2>9 DEF RecordRestore, Workflow!Record, CallOK
    <3>3. \A o \in Call : CallOK(o)'
      BY <2>9, IdleOK, OthersKeep DEF RecordRestore
    <3> QED BY <2>9, <3>1, <3>2, <3>3 DEF RecordRestore, FlowInv, Workflow!Next
  <2>10. CASE FailCall(c)
    BY <2>10, <1>q, IdleOK, OthersKeep DEF FailCall
  <2> QED BY <1>1, <2>1, <2>2, <2>3, <2>4, <2>5, <2>6, <2>7, <2>8, <2>9, <2>10 DEF Handle
<1>2. ASSUME NEW k \in Task, Work(k) \/ RetrySnapshot(k)
      PROVE  FlowInv' /\ [Workflow!Next]_(Workflow!vars)
  BY <1>2, <1>q, NobodyMoves DEF Work, TakeSnapshot, RecordSnapshot, RetrySnapshot
<1> QED BY <1>0, <1>1, <1>2 DEF Next

\* Whatever calls and tasks overlap, the handlers implement the workflow in which no
\* stage is skipped and nobody approves a change of their own.
THEOREM ChangesImplements == Spec => Implements
<1>1. Init => IInv /\ Workflow!Init
  BY InitType, InitFlow DEF IInv
<1>2. IInv /\ [Next]_vars => IInv' /\ [Workflow!Next]_(Workflow!vars)
  BY TypeStep, FlowStep DEF IInv
<1> QED BY <1>1, <1>2, PTL DEF Spec, Implements, Workflow!Spec

\* The promise of the workflow is kept by every one of its steps.
LEMMA PromiseStep ==
  ASSUME Workflow!Promise, [Workflow!Next]_(Workflow!vars)
  PROVE  Workflow!Promise'
<1> USE DEF Workflow!Promise
<1>1. ASSUME NEW s \in reached, Workflow!MoveFrom(s) PROVE Workflow!Promise'
  BY <1>1 DEF Workflow!MoveFrom, Workflow!Steps
<1>2. CASE Workflow!Edit
  BY <1>2 DEF Workflow!Edit
<1>3. ASSUME NEW d \in listed, "approved" \in reached, Workflow!Push(d) PROVE Workflow!Promise'
  BY <1>3 DEF Workflow!Push
<1>4. ASSUME NEW d \in Device, Workflow!Record(d) PROVE Workflow!Promise'
  BY <1>4 DEF Workflow!Record
<1>5. CASE UNCHANGED Workflow!vars
  BY <1>5 DEF Workflow!vars
<1> QED BY <1>1, <1>2, <1>3, <1>4, <1>5 DEF Workflow!Next

\* So the handlers keep it, however they overlap: a change that is implemented or closed was
\* submitted and approved by another user than its requester, a device was pushed to only
\* under an approved change that covered it, and what is recorded was pushed.
THEOREM WorkflowKept == Spec => []Workflow!Promise
<1>1. Workflow!Init => Workflow!Promise
  BY DEF Workflow!Init, Workflow!Promise
<1>2. Workflow!Promise /\ [Workflow!Next]_(Workflow!vars) => Workflow!Promise'
  BY PromiseStep
<1> QED BY <1>1, <1>2, ChangesImplements, PTL DEF Implements, Workflow!Spec

-----------------------------------------------------------------------------
\* The snapshot lists

\* A task that holds a list misses none that was recorded before: what it read has them,
\* or they were recorded under its eyes.
KeptInv ==
  /\ SnapshotsKept
  /\ \A k \in Task : tasks[k].at = "read" =>
       \A j \in Task : tasks[j].at = "done" /\ tasks[j].phase = tasks[k].phase =>
         j \in tasks[k].saw \cup clashed

TaskRecord == [phase: Phase, at: {"none", "queued", "read", "done"}, saw: SUBSET Task]

\* No task moves.
LEMMA KeptStays ==
  ASSUME KeptInv, UNCHANGED <<tasks, snapshots, clashed>>
  PROVE  KeptInv'
BY DEF KeptInv, SnapshotsKept

\* One task moves, to something else than "read" or "done", and no list changes.
LEMMA KeptElsewhere ==
  ASSUME TypeOK, KeptInv, NEW k \in Task, NEW r \in TaskRecord,
         tasks' = [tasks EXCEPT ![k] = r], r.at \in {"none", "queued"},
         UNCHANGED <<snapshots, clashed>>
  PROVE  KeptInv'
<1>1. tasks'[k] = r /\ \A j \in Task : j # k => tasks'[j] = tasks[j]
  BY DEF TypeOK
<1> QED BY <1>1 DEF KeptInv, SnapshotsKept

\* Every step keeps what the lists of snapshots rest on.
LEMMA KeptStep == TypeOK /\ KeptInv /\ [Next]_vars => KeptInv'
<1> SUFFICES ASSUME TypeOK, KeptInv, [Next]_vars PROVE KeptInv'
  OBVIOUS
<1> USE DEF row, history
<1>0. CASE UNCHANGED vars
  BY <1>0, KeptStays DEF vars
<1>1. ASSUME NEW c \in Call, Handle(c) PROVE KeptInv'
  <2>1. ASSUME NEW k \in Task, QueueSnapshot(c, k) PROVE KeptInv'
    <3> DEFINE r == [phase |-> PhaseOf(calls[c].name), at |-> "queued", saw |-> {}]
    <3>1. r \in TaskRecord
      BY DEF TaskRecord, PhaseOf, Phase
    <3> QED BY <2>1, <3>1, KeptElsewhere DEF QueueSnapshot
  <2> QED BY <1>1, <2>1, KeptStays DEF Handle, ReadTransition, CommitTransition, ReadEdit, CommitEdit,
             CheckRestore, PushRestore, RefuseRestore, RecordRestore, FailCall
<1>2. ASSUME NEW k \in Task, TakeSnapshot(k) PROVE KeptInv'
  <2>1. /\ tasks'[k].at = "read" /\ tasks'[k].phase = tasks[k].phase
        /\ tasks'[k].saw = snapshots[tasks[k].phase]
        /\ \A j \in Task : j # k => tasks'[j] = tasks[j]
    BY <1>2 DEF TakeSnapshot, TypeOK
  <2>2. UNCHANGED <<snapshots, clashed>>
    BY <1>2 DEF TakeSnapshot
  <2> QED BY <2>1, <2>2 DEF KeptInv, SnapshotsKept
<1>3. ASSUME NEW k \in Task, RecordSnapshot(k) PROVE KeptInv'
  <2>1. /\ tasks'[k].at = "done" /\ tasks'[k].phase = tasks[k].phase
        /\ \A j \in Task : j # k => tasks'[j] = tasks[j]
    BY <1>3 DEF RecordSnapshot, At, TypeOK
  <2>2. tasks[k].at = "read" /\ tasks[k].phase \in Phase
    BY <1>3 DEF RecordSnapshot, TypeOK
  <2>3. /\ snapshots'[tasks[k].phase] = tasks[k].saw \cup {k}
        /\ \A p \in Phase : p # tasks[k].phase => snapshots'[p] = snapshots[p]
    BY <1>3, <2>2 DEF RecordSnapshot, TypeOK
  <2>4. clashed \subseteq clashed' /\ (Rivals(k) # {} => k \in clashed')
    BY <1>3 DEF RecordSnapshot
  <2>5. SnapshotsKept'
    <3> SUFFICES ASSUME NEW j \in Task, tasks'[j].at = "done"
                 PROVE  j \in snapshots'[tasks'[j].phase] \cup clashed'
      BY DEF SnapshotsKept
    <3>1. CASE j = k
      BY <3>1, <2>1, <2>3
    <3>2. CASE j # k /\ tasks[j].phase = tasks[k].phase
      BY <3>2, <2>1, <2>2, <2>3, <2>4 DEF KeptInv
    <3>3. CASE j # k /\ tasks[j].phase # tasks[k].phase
      <4>1. tasks[j].phase \in Phase /\ j \in snapshots[tasks[j].phase] \cup clashed
        BY <3>3, <2>1 DEF KeptInv, SnapshotsKept, TypeOK
      <4> QED BY <3>3, <4>1, <2>1, <2>3, <2>4
    <3> QED BY <3>1, <3>2, <3>3
  <2>6. ASSUME NEW i \in Task, tasks'[i].at = "read",
               NEW j \in Task, tasks'[j].at = "done", tasks'[j].phase = tasks'[i].phase
        PROVE  j \in tasks'[i].saw \cup clashed'
    <3>1. i # k /\ tasks'[i] = tasks[i]
      BY <2>1, <2>6
    <3>2. CASE j = k
      BY <3>1, <3>2, <2>1, <2>4, <2>6 DEF Rivals
    <3>3. CASE j # k
      BY <3>1, <3>3, <2>1, <2>4, <2>6 DEF KeptInv
    <3> QED BY <3>2, <3>3
  <2> QED BY <2>5, <2>6 DEF KeptInv
<1>4. ASSUME NEW k \in Task, RetrySnapshot(k) PROVE KeptInv'
  <2>1. /\ tasks'[k].at = "queued"
        /\ \A j \in Task : j # k => tasks'[j] = tasks[j]
    BY <1>4 DEF RetrySnapshot, TypeOK
  <2>2. UNCHANGED <<snapshots, clashed>>
    BY <1>4 DEF RetrySnapshot
  <2> QED BY <2>1, <2>2 DEF KeptInv, SnapshotsKept
<1> QED BY <1>0, <1>1, <1>2, <1>3, <1>4 DEF Next, Work

\* However tasks overlap, fail and are delivered again: a finished task is in the list of
\* its phase, unless another held an older list as it was recorded.
THEOREM ListsKept == Spec => []SnapshotsKept
<1>1. Init => KeptInv
  BY DEF Init, KeptInv, SnapshotsKept
<1>2. KeptInv => SnapshotsKept
  BY DEF KeptInv
<1> QED BY <1>1, <1>2, InitType, TypeStep, KeptStep, PTL DEF Spec

-----------------------------------------------------------------------------
\* The phases there may be a snapshot of, for what SnapshotsFollow lists.
Reasons ==
  {p \in Phase :
     \/ (IF p = "pre" THEN "approved" ELSE "implemented") \in reached
     \/ p \in undone
     \/ \E c \in Call : calls[c].op = "move" /\ calls[c].task # 0 /\ PhaseOf(calls[c].name) = p}

\* Every queued task has such a reason, and only approvals and implementations queue one.
FollowInv ==
  /\ SnapshotsFollow
  /\ \A k \in Task : tasks[k].at # "none" => tasks[k].phase \in Reasons
  /\ \A c \in Call : calls[c].op = "move" /\ calls[c].task # 0 => calls[c].name \in {"approve", "implement"}

\* The property, in terms of the phases for which a snapshot has a reason.
LEMMA FollowsReason == SnapshotsFollow <=> \A p \in Phase : snapshots[p] # {} => p \in Reasons
BY DEF SnapshotsFollow, Reasons

\* A reason is never taken back: the call that is one commits or is undone.
LEMMA ReasonStays ==
  ASSUME TypeOK, FollowInv, NEW p \in Phase, p \in Reasons, [Next]_vars
  PROVE  p \in Reasons'
<1> USE DEF row, history
<1>1. reached \subseteq reached' /\ undone \subseteq undone'
  BY DEF vars, Next, Handle, Work, ReadTransition, QueueSnapshot, CommitTransition, ReadEdit, CommitEdit,
         CheckRestore, PushRestore, RefuseRestore, RecordRestore, FailCall, TakeSnapshot, RecordSnapshot,
         RetrySnapshot
<1>2. CASE (IF p = "pre" THEN "approved" ELSE "implemented") \in reached \/ p \in undone
  BY <1>1, <1>2 DEF Reasons
<1>3. ASSUME NEW c \in Call, calls[c].op = "move", calls[c].task # 0, PhaseOf(calls[c].name) = p
      PROVE  p \in Reasons'
  <2>1. calls[c].name \in {"approve", "implement"}
    BY <1>3 DEF FollowInv
  <2>2. CASE calls'[c] = calls[c]
    BY <1>3, <2>2 DEF Reasons
  <2>3. CASE CommitTransition(c)
    BY <1>3, <2>1, <2>3, Table DEF CommitTransition, PhaseOf, Reasons
  <2>4. CASE FailCall(c)
    BY <1>3, <2>4 DEF FailCall, Reasons
  <2>5. CASE UNCHANGED calls
    BY <2>2, <2>5
  <2>6. ASSUME NEW o \in Call, Handle(o) PROVE calls'[c] = calls[c] \/ CommitTransition(c) \/ FailCall(c)
    <3>1. CASE o # c
      BY <2>6, <3>1 DEF Handle, Do, ReadTransition, QueueSnapshot, CommitTransition, ReadEdit, CommitEdit,
         CheckRestore, PushRestore, RefuseRestore, RecordRestore, FailCall, TypeOK
    <3>2. CASE o = c
      <4>1. calls[c] # Idle
        BY <1>3 DEF Idle
      <4>2. /\ \A n \in Names, u \in User : ~ReadTransition(c, n, u)
            /\ \A u \in User, new \in SUBSET Device : ~ReadEdit(c, u, new)
            /\ \A d \in Device : ~CheckRestore(c, d)
        BY <4>1 DEF ReadTransition, ReadEdit, CheckRestore
      <4>3. ~CommitEdit(c) /\ ~PushRestore(c) /\ ~RefuseRestore(c) /\ ~RecordRestore(c)
        BY <1>3 DEF CommitEdit, PushRestore, RefuseRestore, RecordRestore
      <4>4. \A k \in Task : ~QueueSnapshot(c, k)
        BY <1>3 DEF QueueSnapshot
      <4> QED BY <2>6, <3>2, <4>2, <4>3, <4>4 DEF Handle
    <3> QED BY <3>1, <3>2
  <2>7. CASE \E k \in Task : Work(k) \/ RetrySnapshot(k)
    BY <2>5, <2>7 DEF Work, TakeSnapshot, RecordSnapshot, RetrySnapshot
  <2> QED BY <2>2, <2>3, <2>4, <2>5, <2>6, <2>7 DEF Next, vars
<1> QED BY <1>2, <1>3 DEF Reasons

\* The call that queues a task is the reason for it.
LEMMA FollowStep == TypeOK /\ FollowInv /\ [Next]_vars => FollowInv'
<1> SUFFICES ASSUME TypeOK, FollowInv, [Next]_vars PROVE FollowInv'
  OBVIOUS
<1> USE DEF row, history
<1> DEFINE Tasked == \A k \in Task : tasks[k].at # "none" => tasks[k].phase \in Reasons
           Queued == \A c \in Call : calls[c].op = "move" /\ calls[c].task # 0 =>
                       calls[c].name \in {"approve", "implement"}
           Listed == \A p \in Phase : snapshots[p] # {} => p \in Reasons
<1>i. Tasked /\ Queued /\ Listed
  BY FollowsReason DEF FollowInv
<1>g. Tasked' /\ Queued' /\ Listed' => FollowInv'
  BY DEF FollowInv, SnapshotsFollow, Reasons
<1>r. \A p \in Phase : p \in Reasons => p \in Reasons'
  BY ReasonStays
<1>p. \A k \in Task : tasks[k].phase \in Phase
  BY DEF TypeOK
<1> HIDE DEF Tasked, Queued, Listed
<1>l. UNCHANGED snapshots => Listed'
  BY <1>i, <1>r DEF Listed
<1>t. UNCHANGED tasks => Tasked'
  BY <1>i, <1>r, <1>p DEF Tasked
<1>u. UNCHANGED calls => Queued'
  BY <1>i DEF Queued
<1>0. CASE UNCHANGED vars
  BY <1>0, <1>g, <1>l, <1>t, <1>u DEF vars
<1>1. ASSUME NEW c \in Call, Handle(c) PROVE FollowInv'
  <2>o. ASSUME NEW w, Do(c, w), w.op = "move" /\ w.task # 0 => w.name \in {"approve", "implement"}
        PROVE  Queued'
    BY <2>o, <1>i DEF Do, TypeOK, Queued
  <2>1. ASSUME NEW k \in Task, QueueSnapshot(c, k) PROVE FollowInv'
    <3>1. calls[c] \in Moves
      BY <2>1, Shapes DEF QueueSnapshot, TypeOK
    <3> DEFINE w == [calls[c] EXCEPT !.task = k]
    <3>2. w.op = "move" /\ w.task = k /\ k # 0 /\ w.name = calls[c].name
      BY <2>1, <3>1 DEF Moves, Task, QueueSnapshot
    <3>3. Queued'
      BY <2>1, <3>2, <2>o DEF QueueSnapshot
    <3>4. calls'[c] = w
      BY <2>1 DEF QueueSnapshot, Do, TypeOK
    <3>5. PhaseOf(calls[c].name) \in Reasons'
      BY <3>2, <3>4 DEF Reasons, Phase, PhaseOf
    <3>6. tasks'[k].phase = PhaseOf(calls[c].name) /\ \A j \in Task : j # k => tasks'[j] = tasks[j]
      BY <2>1 DEF QueueSnapshot, TypeOK
    <3>7. Tasked'
      BY <3>5, <3>6, <1>i, <1>r, <1>p DEF Tasked
    <3> QED BY <2>1, <3>3, <3>7, <1>g, <1>l DEF QueueSnapshot
  <2>2. ASSUME NEW n \in Names, NEW u \in User, ReadTransition(c, n, u) PROVE Queued'
    BY <2>2, <2>o DEF ReadTransition
  <2>3. ASSUME NEW u \in User, NEW new \in SUBSET Device, ReadEdit(c, u, new) PROVE Queued'
    BY <2>3, <2>o DEF ReadEdit
  <2>4. ASSUME NEW d \in Device, CheckRestore(c, d) PROVE Queued'
    BY <2>4, <2>o DEF CheckRestore
  <2>5. CASE PushRestore(c)
    <3>1. Queued'
      BY <2>5, <2>o DEF PushRestore
    <3> QED BY <2>5, <3>1, <1>g, <1>l, <1>t DEF PushRestore
  <2>6. ASSUME Do(c, Idle) PROVE Queued'
    BY <2>6, <2>o DEF Idle
  <2> QED BY <1>1, <2>1, <2>2, <2>3, <2>4, <2>5, <2>6, <1>g, <1>l, <1>t
      DEF Handle, ReadTransition, CommitTransition, ReadEdit, CommitEdit, CheckRestore, RefuseRestore,
          RecordRestore, FailCall
<1>2. ASSUME NEW k \in Task, TakeSnapshot(k) \/ RecordSnapshot(k) \/ RetrySnapshot(k) PROVE FollowInv'
  <2>1. tasks[k].at # "none" /\ tasks[k].phase \in Reasons'
    BY <1>2, <1>i, <1>r, <1>p DEF TakeSnapshot, RecordSnapshot, RetrySnapshot, Tasked
  <2>2. \A j \in Task : tasks'[j].phase = tasks[j].phase /\ (j # k => tasks'[j] = tasks[j])
    BY <1>2 DEF TakeSnapshot, RecordSnapshot, RetrySnapshot, At, TypeOK
  <2>3. Tasked'
    BY <2>1, <2>2, <1>i, <1>r, <1>p DEF Tasked
  <2>4. \A p \in Phase : p # tasks[k].phase => snapshots'[p] = snapshots[p]
    BY <1>2, <1>p DEF TakeSnapshot, RecordSnapshot, RetrySnapshot, TypeOK
  <2>5. Listed'
    BY <2>1, <2>4, <1>i, <1>r DEF Listed
  <2> QED BY <1>2, <2>3, <2>5, <1>u, <1>g DEF TakeSnapshot, RecordSnapshot, RetrySnapshot
<1> QED BY <1>0, <1>1, <1>2 DEF Next, Work

\* However calls fail and tasks are delayed: the lists hold snapshots of a change that
\* was approved or implemented, or whose transition is under way or was undone.
THEOREM ListsFollow == Spec => []SnapshotsFollow
<1>1. Init => FollowInv
  BY DEF Init, FollowInv, SnapshotsFollow, Idle
<1>2. FollowInv => SnapshotsFollow
  BY DEF FollowInv
<1> QED BY <1>1, <1>2, InitType, TypeStep, FollowStep, PTL DEF Spec
=============================================================================
