------------------------------- MODULE Backup -------------------------------
(***************************************************************************)
(* Configuration backups of one tenant: Celery workers and API requests    *)
(* ("workers") collect the configurations of a batch of devices, commit    *)
(* each changed one to the tenant's shared Git repository and record what  *)
(* they did as ConfigBackup rows, in one database transaction per batch.   *)
(* The transaction rolls back when the batch fails; the commits do not.    *)
(* A failed batch is retried, and the hourly schedule backs up everything. *)
(***************************************************************************)
EXTENDS Naturals, Sequences, SequencesExt

CONSTANTS
  Device,     \* devices of the tenant, one file each
  Worker,     \* backup tasks and requests that may run at a time
  Scope,      \* sets of devices each worker may be given (all of them, in general)
  Content,    \* device configurations, after prepare()
  Absent,     \* no file
  None,       \* no worker, no device, no row
  MaxChanges, \* configuration changes on the devices (a bound of the model)
  MaxFails    \* batches that fail (a bound of the model)

ASSUME BackupAssumption ==
  /\ Absent \notin Content /\ None \notin Worker \cup Device
  /\ Scope \in [Worker -> SUBSET ((SUBSET Device) \ {{}})]
  /\ MaxChanges \in Nat /\ MaxFails \in Nat

VARIABLES
  device,    \* what each device runs
  worktree,  \* the files of the working tree
  index,     \* the files staged in .git/index
  log,       \* main, oldest first: each commit is the tree it holds
  lock,      \* holder of the repository lock
  pc,        \* where each worker is
  got,       \* configurations the worker has collected and not recorded yet
  todo,      \* devices it has not processed
  cur,       \* the device it is processing
  seen,      \* the last row for that device when it began
  sha,       \* what store.write returned or was adopted; 0 stands for None
  rows,      \* ConfigBackup rows of its open transaction
  latest,    \* committed row with the greatest collected_at, per device
  fresh,     \* open rows later than the latest one, by collected_at
  changes, fails,
  recorded,  \* commits a committed row marks as a change (history)
  mishaps    \* what happened that the protocol does not claim to survive (history)

repo     == <<worktree, index, log>>
database == <<latest, recorded>>
open     == <<rows, fresh>>
batch    == <<got, todo>>
step     == <<cur, seen, sha>>
vars     == <<device, repo, lock, pc, batch, step, open, database, changes, fails, mishaps>>

File    == Content \cup {Absent}
Row     == [commit : Nat, content : Content, changed : BOOLEAN]
Steps   == {"idle", "pick", "compare", "add", "commit", "adopt", "row"}
Mishaps == {"torn", "crossed", "shared"}

ASSUME RowAssumption == None \notin Row

TypeOK ==
  /\ device \in [Device -> Content]
  /\ worktree \in [Device -> File] /\ index \in [Device -> File]
  /\ log \in Seq([Device -> File])
  /\ lock \in Worker \cup {None}
  /\ pc \in [Worker -> Steps]
  /\ got \in [Worker -> [Device -> File]] /\ todo \in [Worker -> SUBSET Device]
  /\ cur \in [Worker -> Device \cup {None}] /\ seen \in [Worker -> Row \cup {None}]
  /\ sha \in [Worker -> Nat]
  /\ rows \in [Worker -> [Device -> Row \cup {None}]]
  /\ latest \in [Device -> Row \cup {None}]
  /\ fresh \in [Device -> Seq(Worker)]
  /\ changes \in 0..MaxChanges /\ fails \in 0..MaxFails
  /\ recorded \in [Device -> SUBSET Nat]
  /\ mishaps \subseteq Mishaps

\* The file of device d as of commit i; commit 0 comes before the first one.
At(i, d)    == IF i = 0 THEN Absent ELSE log[i][d]
HeadFile(d) == At(Len(log), d)

\* GitConfigStore.last_commit: the newest commit that touches the file.
LastCommit(d) ==
  LET touching == {i \in DOMAIN log : log[i][d] # At(i - 1, d)}
  IN  IF touching = {} THEN 0 ELSE CHOOSE i \in touching : \A j \in touching : j <= i

Init ==
  /\ device \in [Device -> Content]
  /\ worktree = [d \in Device |-> Absent] /\ index = worktree /\ log = <<>>
  /\ lock = None
  /\ pc = [w \in Worker |-> "idle"]
  /\ got = [w \in Worker |-> [d \in Device |-> Absent]] /\ todo = [w \in Worker |-> {}]
  /\ cur = [w \in Worker |-> None] /\ seen = [w \in Worker |-> None]
  /\ sha = [w \in Worker |-> 0]
  /\ rows = [w \in Worker |-> [d \in Device |-> None]]
  /\ latest = [d \in Device |-> None] /\ fresh = [d \in Device |-> <<>>]
  /\ changes = 0 /\ fails = 0
  /\ recorded = [d \in Device |-> {}] /\ mishaps = {}

-----------------------------------------------------------------------------
\* An engineer changes a device.
DeviceChange(d) ==
  /\ changes < MaxChanges /\ changes' = changes + 1
  /\ \E c \in Content \ {device[d]} : device' = [device EXCEPT ![d] = c]
  /\ UNCHANGED <<repo, lock, pc, batch, step, open, database, fails, mishaps>>

Goto(w, s) == pc' = [pc EXCEPT ![w] = s]
Mark(m, happened) == mishaps' = mishaps \cup {x \in {m} : happened}

\* The devices a batch holds.
Held(w) == {d \in Device : got[w][d] # Absent \/ rows[w][d] # None}

\* Mutant: devices that could not be collected are processed like the others.
BeginAll(w, ds) ==
  /\ pc[w] = "idle"
  /\ got' = [got EXCEPT ![w] = [d \in Device |-> IF d \in ds THEN device[d] ELSE Absent]]
  /\ todo' = [todo EXCEPT ![w] = Device]
  /\ Goto(w, "pick")
  /\ Mark("shared", \E v \in Worker : Held(v) \cap ds # {})
  /\ UNCHANGED <<device, repo, lock, step, open, database, changes, fails>>

\* run_backups: the batch is collected first; a device that cannot be collected gets a
\* "failed" row, which later backups disregard.
Begin(w, ds) ==
  /\ pc[w] = "idle"
  /\ got' = [got EXCEPT ![w] = [d \in Device |-> IF d \in ds THEN device[d] ELSE Absent]]
  /\ todo' = [todo EXCEPT ![w] = ds]
  /\ Goto(w, "pick")
  /\ Mark("shared", \E v \in Worker : Held(v) \cap ds # {})
  /\ UNCHANGED <<device, repo, lock, step, open, database, changes, fails>>

\* process_result: the device's last row is read before the repository lock is taken.
Pick(w, d) ==
  /\ pc[w] = "pick" /\ d \in todo[w]
  /\ todo' = [todo EXCEPT ![w] = @ \ {d}]
  /\ cur' = [cur EXCEPT ![w] = d] /\ seen' = [seen EXCEPT ![w] = latest[d]]
  /\ Goto(w, "compare")
  /\ UNCHANGED <<device, repo, lock, got, sha, open, database, changes, fails, mishaps>>

\* GitConfigStore.write, under the lock: nothing to do when the file holds this content.
Same(w) ==
  /\ pc[w] = "compare" /\ lock = None
  /\ worktree[cur[w]] = got[w][cur[w]]
  /\ Goto(w, "adopt")
  /\ UNCHANGED <<device, repo, lock, batch, step, open, database, changes, fails, mishaps>>

\* Mutant: the file is replaced before the lock is taken.
ReplaceUnlocked(w) ==
  /\ pc[w] = "compare" /\ worktree[cur[w]] # got[w][cur[w]]
  /\ worktree' = [worktree EXCEPT ![cur[w]] = got[w][cur[w]]]
  /\ Goto(w, "add")
  /\ UNCHANGED <<device, index, log, lock, batch, step, open, database, changes, fails, mishaps>>

\* Otherwise the file is replaced,
Replace(w) ==
  /\ pc[w] = "compare" /\ lock = None
  /\ worktree[cur[w]] # got[w][cur[w]]
  /\ lock' = w
  /\ worktree' = [worktree EXCEPT ![cur[w]] = got[w][cur[w]]]
  /\ Goto(w, "add")
  /\ UNCHANGED <<device, index, log, batch, step, open, database, changes, fails, mishaps>>

\* Mutant: the lock is released once the file is staged.
AddUnlocking(w) ==
  /\ pc[w] = "add"
  /\ index' = [index EXCEPT ![cur[w]] = worktree[cur[w]]]
  /\ lock' = None
  /\ Goto(w, "commit")
  /\ UNCHANGED <<device, worktree, log, batch, step, open, database, changes, fails, mishaps>>

\* staged,
Add(w) ==
  /\ pc[w] = "add"
  /\ index' = [index EXCEPT ![cur[w]] = worktree[cur[w]]]
  /\ Goto(w, "commit")
  /\ UNCHANGED <<device, worktree, log, lock, batch, step, open, database, changes, fails, mishaps>>

\* and committed - with whatever else is staged.
Commit(w) ==
  /\ pc[w] = "commit"
  /\ log' = Append(log, index)
  /\ sha' = [sha EXCEPT ![w] = Len(log) + 1]
  /\ lock' = None
  /\ Goto(w, "row")
  /\ Mark("crossed", \E v \in Worker \ {w} : pc[v] = "adopt" /\ cur[v] = cur[w])
  /\ UNCHANGED <<device, worktree, index, batch, cur, seen, open, database, changes, fails>>

\* Mutant: HEAD is adopted whether or not the database has recorded it.
AdoptAlways(w) ==
  /\ pc[w] = "adopt"
  /\ sha' = [sha EXCEPT ![w] = LastCommit(cur[w])]
  /\ Goto(w, "row")
  /\ UNCHANGED <<device, repo, lock, batch, cur, seen, open, database, changes, fails, mishaps>>

\* Mutant: a retry does not adopt what the failed attempt committed.
AdoptNever(w) ==
  /\ pc[w] = "adopt"
  /\ Goto(w, "row")
  /\ UNCHANGED <<device, repo, lock, batch, step, open, database, changes, fails, mishaps>>

\* The file matched.  A HEAD the database never recorded is taken for the commit of an
\* earlier attempt that failed afterwards.  The lock is no longer held.
Adopt(w) ==
  /\ pc[w] = "adopt"
  /\ LET head == LastCommit(cur[w]) IN
     sha' = [sha EXCEPT ![w] = IF seen[w] # None /\ seen[w].commit = head THEN 0 ELSE head]
  /\ Goto(w, "row")
  /\ UNCHANGED <<device, repo, lock, batch, cur, seen, open, database, changes, fails, mishaps>>

StepDone(w) ==
  /\ cur' = [cur EXCEPT ![w] = None] /\ seen' = [seen EXCEPT ![w] = None]
  /\ sha' = [sha EXCEPT ![w] = 0]

\* The commit a row without a change of its own refers to.
KnownCommit(w) ==
  IF seen[w] # None /\ seen[w].commit # 0 THEN seen[w].commit ELSE LastCommit(cur[w])

\* The ConfigBackup row, stamped now and flushed.
InsertRow(w) ==
  /\ pc[w] = "row"
  /\ LET d == cur[w] IN
     /\ rows' = [rows EXCEPT ![w][d] =
                  [commit  |-> IF sha[w] # 0 THEN sha[w] ELSE KnownCommit(w),
                   content |-> got[w][d],
                   changed |-> sha[w] # 0]]
     /\ fresh' = [fresh EXCEPT ![d] = Append(@, w)]
     /\ got' = [got EXCEPT ![w][d] = Absent]
  /\ Goto(w, "pick") /\ StepDone(w)
  /\ UNCHANGED <<device, repo, lock, todo, database, changes, fails, mishaps>>

\* What a worker leaves behind when its batch ends, one way or the other.
Finish(w) ==
  /\ Goto(w, "idle")
  /\ got' = [got EXCEPT ![w] = [d \in Device |-> Absent]]
  /\ todo' = [todo EXCEPT ![w] = {}]
  /\ StepDone(w)
  /\ rows' = [rows EXCEPT ![w] = [d \in Device |-> None]]

\* Where the open row of worker w stands among those of a device.
Place(s, w) == CHOOSE i \in DOMAIN s : s[i] = w

\* session(): the rows of the batch become visible together.  One that is not the latest
\* by collected_at changes nothing for later backups.
CommitRows(w) ==
  /\ pc[w] = "pick" /\ todo[w] = {}
  /\ latest' = [d \in Device |-> IF Contains(fresh[d], w) THEN rows[w][d] ELSE latest[d]]
  /\ fresh' = [d \in Device |->
       IF Contains(fresh[d], w)
       THEN SubSeq(fresh[d], Place(fresh[d], w) + 1, Len(fresh[d]))
       ELSE fresh[d]]
  /\ recorded' = [d \in Device |->
       IF rows[w][d] # None /\ rows[w][d].changed
       THEN recorded[d] \cup {rows[w][d].commit} ELSE recorded[d]]
  /\ Finish(w)
  /\ UNCHANGED <<device, repo, lock, changes, fails, mishaps>>

\* The batch fails anywhere: an exception, a time limit, a killed worker, the database
\* commit itself.  Its transaction rolls back and its lock goes; the repository stays.
Fail(w) ==
  /\ pc[w] # "idle" /\ fails < MaxFails /\ fails' = fails + 1
  /\ lock' = IF lock = w THEN None ELSE lock
  /\ fresh' = [d \in Device |->
       IF Contains(fresh[d], w) THEN RemoveAt(fresh[d], Place(fresh[d], w)) ELSE fresh[d]]
  /\ Mark("torn", pc[w] \in {"add", "commit"})
  /\ Finish(w)
  /\ UNCHANGED <<device, repo, database, changes>>

-----------------------------------------------------------------------------
Work(w) ==
  \/ \E d \in Device : Pick(w, d)
  \/ Same(w) \/ Replace(w) \/ Add(w) \/ Commit(w) \/ Adopt(w) \/ InsertRow(w) \/ CommitRows(w)

Next ==
  \/ \E d \in Device : DeviceChange(d)
  \/ \E w \in Worker :
       \/ \E ds \in Scope[w] : Begin(w, ds)
       \/ Work(w)
       \/ Fail(w)

\* The schedule keeps starting backups of all devices, and a batch that has begun ends.
Fairness == \A w \in Worker :
  /\ WF_vars(Device \in Scope[w] /\ Begin(w, Device))
  /\ WF_vars(Work(w))

Spec == Init /\ [][Next]_vars
FairSpec == Spec /\ Fairness

-----------------------------------------------------------------------------
(* Properties                                                               *)

Clean(ms) == mishaps \cap ms = {}

\* A restore pushes the file at the row's commit: through overlapping batches, retries
\* and database failures that is the configuration the row was made of, as long as no
\* batch failed between a file and its commit (torn) and no commit came between
\* another batch's comparison and its look at HEAD (crossed).
RowMatchesCommit ==
  Clean({"torn", "crossed"}) => \A d \in Device :
    \A r \in {latest[d]} \cup {rows[w][d] : w \in Worker} :
      r # None => At(r.commit, d) = r.content

\* Outside write() the working tree, the index and HEAD hold the same file, which is what
\* lets write() compare with the working tree alone.
FileIsCommitted ==
  Clean({"torn"}) => \A d \in Device : lock = None \/ cur[lock] # d =>
    worktree[d] = index[d] /\ index[d] = HeadFile(d)

\* A commit is recorded as a change once, by the attempt that made it or by the retry
\* that adopts it, unless two batches hold the device at the same time.
RecordedOnce ==
  Clean({"torn", "shared"}) => \A d \in Device, w \in Worker :
    rows[w][d] # None /\ rows[w][d].changed => rows[w][d].commit \notin recorded[d]

History == INSTANCE ConfigHistory WITH
  Device <- Device, Content <- Content, Absent <- Absent, None <- None,
  log <- log, latest <- latest, recorded <- recorded,
  broken <- ~Clean({"torn", "crossed"})

\* The repository and the database are one history, step by step: a commit changes the
\* file of one device although it takes the whole index, and what a batch makes visible
\* is true of Git, also when the batch adopted a commit of an attempt that failed.
ImplementsHistory == History!Spec

\* Once the devices are left alone, the newest commit of each file holds what the device
\* runs and the database records that commit, failed batches in between or not.
Converges ==
  \A d \in Device :
    <>[](\/ "torn" \in mishaps
         \/ /\ latest[d] # None /\ latest[d].content = device[d] /\ HeadFile(d) = device[d]
            /\ latest[d].commit = LastCommit(d) /\ LastCommit(d) \in recorded[d])

\* "Every change is a commit" (git_store.py), and a retry adopts what a failed attempt
\* committed "instead of recording unchanged": what a row records is in Git.
RecordedIsCommitted ==
  \A d \in Device : latest[d] # None => \E i \in DOMAIN log : log[i][d] = latest[d].content

\* "The file already matches, but if Git HEAD for it is a commit the database never
\* recorded ...: adopt that commit" (engine.py): the commit adopted holds what the file
\* matched.
AdoptedMatches ==
  [][\A w \in Worker : Adopt(w) /\ sha'[w] # 0 => At(sha'[w], cur[w]) = got[w][cur[w]]]_vars
=============================================================================
