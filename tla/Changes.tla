------------------------------ MODULE Changes ------------------------------
(***************************************************************************)
(* One change request, the handlers and the tasks that work on it at the   *)
(* same time.  Every handler is a transaction of its own that reads the    *)
(* row without a lock, decides, and writes the columns it changed when it  *)
(* commits (READ COMMITTED): services/changes.py, api/v1/activity.py       *)
(* (transitions and edits), api/v1/configs.py (restore) and the snapshot   *)
(* task of workers/tasks.py, queued before its transition commits.         *)
(***************************************************************************)
EXTENDS Naturals

CONSTANTS
  User, Requester,  \* people; the one who created the change
  Writer, Approver, \* who holds changes:write, changes:approve (superusers hold both)
  Device,
  Nobody,           \* no user
  Call,             \* requests the API handles at the same time
  MaxTasks,         \* bound: snapshot tasks queued
  MaxFaults         \* bound: handlers and tasks that fail half-way

ASSUME ConstantsAssumption ==
  /\ Requester \in User /\ Nobody \notin User
  /\ Writer \subseteq User /\ Approver \subseteq User
  /\ MaxTasks \in Nat /\ MaxFaults \in Nat

VARIABLES
  state, approver, devices,  \* the row: state, approved_by, device_ids
  snapshots,  \* the row: pre_backup_ids and post_backup_ids, a backup by its task
  calls,      \* of each call: what it is doing and what it has read
  tasks,      \* of each snapshot task: its phase, where it is and the list it read
  pushed,     \* devices whose configuration was replaced
  recorded,   \* devices with a config_restores row of status "pushed"
  faults,
  reached,    \* history: states the change has been in, as its comments tell
  listed,     \* history: devices it has covered
  undone,     \* history: phases for which a task was queued and the transition undone
  clashed     \* history: tasks that wrote while another of their phase held an older list

vars == <<state, approver, devices, snapshots, calls, tasks, pushed, recorded,
          faults, reached, listed, undone, clashed>>
row     == <<state, approver, devices>>
history == <<reached, listed, undone, clashed>>

Task  == 1..MaxTasks
Phase == {"pre", "post"}
Idle  == [op |-> "idle"]

\* Mutant: submit leads to a state that does not exist.
TransitionsMisspelt ==
  [submit    |-> [source |-> {"draft", "rejected"},  target |-> "pending", holders |-> Writer],
   approve   |-> [source |-> {"pending_approval"},   target |-> "approved",         holders |-> Approver],
   reject    |-> [source |-> {"pending_approval"},   target |-> "rejected",         holders |-> Approver],
   implement |-> [source |-> {"approved"},           target |-> "implemented",      holders |-> Writer],
   close     |-> [source |-> {"implemented"},        target |-> "closed",           holders |-> Writer],
   cancel    |-> [source |-> {"draft", "pending_approval", "approved", "rejected"},
                  target |-> "cancelled", holders |-> Writer]]

\* TRANSITIONS of services/changes.py.
TRANSITIONS ==
  [submit    |-> [source |-> {"draft", "rejected"},  target |-> "pending_approval", holders |-> Writer],
   approve   |-> [source |-> {"pending_approval"},   target |-> "approved",         holders |-> Approver],
   reject    |-> [source |-> {"pending_approval"},   target |-> "rejected",         holders |-> Approver],
   implement |-> [source |-> {"approved"},           target |-> "implemented",      holders |-> Writer],
   close     |-> [source |-> {"implemented"},        target |-> "closed",           holders |-> Writer],
   cancel    |-> [source |-> {"draft", "pending_approval", "approved", "rejected"},
                  target |-> "cancelled", holders |-> Writer]]
Names == DOMAIN TRANSITIONS

\* Mutant: the phases of the snapshots are exchanged.
PhaseOfSwapped(n) == IF n = "approve" THEN "post" ELSE "pre"

\* The phase of the snapshot a transition takes, if it takes one.
PhaseOf(n) == IF n = "approve" THEN "pre" ELSE "post"

Init ==
  /\ state = "draft" /\ approver = Nobody
  /\ devices \in SUBSET Device
  /\ snapshots = [p \in Phase |-> {}]
  /\ calls = [c \in Call |-> Idle]
  /\ tasks = [k \in Task |-> [phase |-> "pre", at |-> "none", saw |-> {}]]
  /\ pushed = {} /\ recorded = {} /\ faults = 0
  /\ reached = {"draft"} /\ listed = devices /\ undone = {} /\ clashed = {}

Do(c, what) == calls' = [calls EXCEPT ![c] = what]

-----------------------------------------------------------------------------
(* POST /changes/{id}/transition                                            *)

\* Mutant: the requester may approve.
MayApplyOwn(n, u) ==
  /\ state \in TRANSITIONS[n].source
  /\ u \in TRANSITIONS[n].holders

\* apply_transition's conditions, on the row as the handler reads it.
MayApply(n, u) ==
  /\ state \in TRANSITIONS[n].source
  /\ u \in TRANSITIONS[n].holders
  /\ n = "approve" => u # Requester

ReadTransition(c, n, u) ==
  /\ calls[c] = Idle
  /\ MayApply(n, u)
  /\ Do(c, [op |-> "move", name |-> n, user |-> u, devices |-> devices, task |-> 0])
  /\ UNCHANGED <<row, snapshots, tasks, pushed, recorded, faults, history>>

\* Tasks not queued yet; they are queued in their order.
Free == {k \in Task : tasks[k].at = "none"}

\* backup_devices.delay, with take_backup and a broker that answers.
QueueSnapshot(c, k) ==
  /\ calls[c].op = "move" /\ calls[c].task = 0
  /\ calls[c].name \in {"approve", "implement"}
  /\ calls[c].devices # {}
  /\ k \in Free /\ \A j \in Free : k <= j
  /\ Do(c, [calls[c] EXCEPT !.task = k])
  /\ tasks' = [tasks EXCEPT ![k] = [phase |-> PhaseOf(calls[c].name), at |-> "queued", saw |-> {}]]
  /\ UNCHANGED <<row, snapshots, pushed, recorded, faults, history>>

\* The commit writes the columns apply_transition set, the comment and the audit event.
CommitTransition(c) ==
  /\ calls[c].op = "move"
  /\ LET t == TRANSITIONS[calls[c].name] IN
     /\ state' = t.target
     /\ reached' = reached \cup {t.target}
  /\ approver' = IF calls[c].name = "approve" THEN calls[c].user ELSE approver
  /\ Do(c, Idle)
  /\ UNCHANGED <<devices, snapshots, tasks, pushed, recorded, faults, listed, undone, clashed>>

-----------------------------------------------------------------------------
(* PATCH /changes/{id}                                                      *)

\* An edit of the list of devices; one that leaves it as it is writes nothing of it.
ReadEdit(c, u, new) ==
  /\ calls[c] = Idle
  /\ u \in Writer
  /\ state \in {"draft", "rejected"}
  /\ new # devices
  /\ Do(c, [op |-> "edit", devices |-> new])
  /\ UNCHANGED <<row, snapshots, tasks, pushed, recorded, faults, history>>

CommitEdit(c) ==
  /\ calls[c].op = "edit"
  /\ devices' = calls[c].devices
  /\ listed' = listed \cup devices'
  /\ Do(c, Idle)
  /\ UNCHANGED <<state, approver, snapshots, tasks, pushed, recorded, faults, reached, undone, clashed>>

-----------------------------------------------------------------------------
(* POST /devices/{id}/restore, not a dry run                                *)

\* An approved change that covers the device, then the pre-restore snapshot.
CheckRestore(c, d) ==
  /\ calls[c] = Idle
  /\ state = "approved" /\ d \in devices
  /\ Do(c, [op |-> "check", device |-> d])
  /\ UNCHANGED <<row, snapshots, tasks, pushed, recorded, faults, history>>

\* scrapli_cfg_push: the device commits the configuration, ...
PushRestore(c) ==
  /\ calls[c].op = "check"
  /\ pushed' = pushed \cup {calls[c].device}
  /\ Do(c, [op |-> "push", device |-> calls[c].device])
  /\ UNCHANGED <<row, snapshots, tasks, recorded, faults, history>>

\* ... or refuses it, which is recorded as failed.
RefuseRestore(c) ==
  /\ calls[c].op = "check"
  /\ Do(c, Idle)
  /\ UNCHANGED <<row, snapshots, tasks, pushed, recorded, faults, history>>

\* The record, the audit event and the backup afterwards, in one commit.
RecordRestore(c) ==
  /\ calls[c].op = "push"
  /\ recorded' = recorded \cup {calls[c].device}
  /\ Do(c, Idle)
  /\ UNCHANGED <<row, snapshots, tasks, pushed, faults, history>>

\* The handler fails or its process dies: the transaction is rolled back, what it queued
\* or pushed is not.
FailCall(c) ==
  /\ calls[c] # Idle
  /\ faults < MaxFaults
  /\ faults' = faults + 1
  /\ undone' = IF calls[c].op = "move" /\ calls[c].task # 0
               THEN undone \cup {PhaseOf(calls[c].name)} ELSE undone
  /\ Do(c, Idle)
  /\ UNCHANGED <<row, snapshots, tasks, pushed, recorded, reached, listed, clashed>>

-----------------------------------------------------------------------------
(* The snapshot task                                                        *)

At(k, where) == tasks' = [tasks EXCEPT ![k].at = where]

\* run_backups, then the change is read with its list.
TakeSnapshot(k) ==
  /\ tasks[k].at = "queued"
  /\ tasks' = [tasks EXCEPT ![k].at = "read", ![k].saw = snapshots[tasks[k].phase]]
  /\ UNCHANGED <<row, snapshots, calls, pushed, recorded, faults, history>>

\* Tasks of k's phase that hold a list from before k's commit.
Rivals(k) == {j \in Task \ {k} : tasks[j].at = "read" /\ tasks[j].phase = tasks[k].phase}

\* Mutant: the ids replace the list instead of extending it.
RecordSnapshotAlone(k) ==
  /\ tasks[k].at = "read"
  /\ snapshots' = [snapshots EXCEPT ![tasks[k].phase] = {k}]
  /\ clashed' = IF Rivals(k) # {} THEN clashed \cup {k} ELSE clashed
  /\ At(k, "done")
  /\ UNCHANGED <<row, calls, pushed, recorded, faults, reached, listed, undone>>

\* The list it read and its own ids are written back as the task commits.
RecordSnapshot(k) ==
  /\ tasks[k].at = "read"
  /\ snapshots' = [snapshots EXCEPT ![tasks[k].phase] = tasks[k].saw \cup {k}]
  /\ clashed' = IF Rivals(k) # {} THEN clashed \cup {k} ELSE clashed
  /\ At(k, "done")
  /\ UNCHANGED <<row, calls, pushed, recorded, faults, reached, listed, undone>>

\* The worker dies or a Git error stops the batch: nothing is written, the task is
\* delivered again (acks_late, BACKUP_RETRY).
RetrySnapshot(k) ==
  /\ tasks[k].at = "read"
  /\ faults < MaxFaults
  /\ faults' = faults + 1
  /\ tasks' = [tasks EXCEPT ![k].at = "queued", ![k].saw = {}]
  /\ UNCHANGED <<row, snapshots, calls, pushed, recorded, history>>

-----------------------------------------------------------------------------

Handle(c) ==
  \/ \E n \in Names, u \in User : ReadTransition(c, n, u)
  \/ \E k \in Task : QueueSnapshot(c, k)
  \/ CommitTransition(c)
  \/ \E u \in User, new \in SUBSET Device : ReadEdit(c, u, new)
  \/ CommitEdit(c)
  \/ \E d \in Device : CheckRestore(c, d)
  \/ PushRestore(c) \/ RefuseRestore(c) \/ RecordRestore(c)
  \/ FailCall(c)

Work(k) == TakeSnapshot(k) \/ RecordSnapshot(k)

Next ==
  \/ \E c \in Call : Handle(c)
  \/ \E k \in Task : Work(k) \/ RetrySnapshot(k)

\* Queued tasks are run; nobody has to call the API.
Fairness == \A k \in Task : WF_vars(Work(k))

Spec == Init /\ [][Next]_vars
FairSpec == Spec /\ Fairness

-----------------------------------------------------------------------------
(* Properties                                                               *)

Calls ==
  [op: {"idle"}]
    \cup [op: {"move"}, name: Names, user: User, devices: SUBSET Device, task: 0..MaxTasks]
    \cup [op: {"edit"}, devices: SUBSET Device]
    \cup [op: {"check", "push"}, device: Device]

TypeOK ==
  /\ state \in {"draft", "pending_approval", "approved", "rejected", "implemented", "closed", "cancelled"}
  /\ approver \in User \cup {Nobody}
  /\ devices \in SUBSET Device
  /\ snapshots \in [Phase -> SUBSET Task]
  /\ calls \in [Call -> Calls]
  /\ tasks \in [Task -> [phase: Phase, at: {"none", "queued", "read", "done"}, saw: SUBSET Task]]
  /\ pushed \subseteq Device /\ recorded \subseteq Device
  /\ faults \in 0..MaxFaults
  /\ undone \subseteq Phase /\ clashed \subseteq Task

Workflow == INSTANCE ChangeWorkflow WITH
  User <- User, Requester <- Requester, Approver <- Approver, Device <- Device, Nobody <- Nobody,
  state <- state, reached <- reached, approver <- approver,
  devices <- devices, listed <- listed, pushed <- pushed, recorded <- recorded

\* Whatever handlers overlap, no stage is skipped: a change is approved only by another
\* user than the requester after it was submitted, implemented only after an approval,
\* and a device it covered is pushed to only after one.
Implements == Workflow!Spec

\* "Workflow: draft -> pending_approval -> approved -> implemented -> closed"
\* (api/v1/activity.py), "only draft or rejected changes can be edited": a step is
\* taken from the state the change is in.
FollowsWorkflow == Workflow!StrictSpec

\* A pre-change snapshot is of a change that was approved, a post-change snapshot of one
\* that was implemented: unless the transition that queued it is still under way or was
\* undone.
SnapshotsFollow ==
  \A p \in Phase : snapshots[p] # {} =>
    \/ (IF p = "pre" THEN "approved" ELSE "implemented") \in reached
    \/ p \in undone
    \/ \E c \in Call : calls[c].op = "move" /\ calls[c].task # 0 /\ PhaseOf(calls[c].name) = p

\* The snapshot of a finished task is linked to the change, unless another task of its
\* phase had read the list before and wrote it back.
SnapshotsKept ==
  \A k \in Task : tasks[k].at = "done" => k \in snapshots[tasks[k].phase] \cup clashed
=============================================================================
