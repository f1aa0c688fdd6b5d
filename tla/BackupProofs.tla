---------------------------- MODULE BackupProofs ----------------------------
(***************************************************************************)
(* Proofs about Backup, for any devices, workers, contents and any number  *)
(* of changes and failures: outside write() the working tree, the index    *)
(* and HEAD agree on every file, a row holds what Git holds at its commit, *)
(* a commit is recorded as a change once, and commits and rows together    *)
(* implement ConfigHistory.                                                *)
(***************************************************************************)
EXTENDS Backup, SequenceTheorems, TLAPS

\* The types the argument needs.
RepoType ==
  /\ worktree \in [Device -> File] /\ index \in [Device -> File]
  /\ log \in Seq([Device -> File])
  /\ pc \in [Worker -> Steps] /\ cur \in [Worker -> Device \cup {None}]
  /\ got \in [Worker -> [Device -> File]]
  /\ device \in [Device -> Content] /\ lock \in Worker \cup {None}

\* The lock is held by the one worker between the replacement and the commit.
LockInv ==
  \A w \in Worker :
    /\ lock = w <=> pc[w] \in {"add", "commit"}
    /\ pc[w] \in {"compare", "add", "commit"} => cur[w] \in Device

\* A file no worker is writing is the same in all three places; the one being written
\* is in the index what it is in HEAD until it is staged, and then what it is in the
\* working tree.
RepoInv ==
  "torn" \notin mishaps => \A d \in Device :
    /\ lock = None \/ cur[lock] # d => worktree[d] = index[d] /\ index[d] = HeadFile(d)
    /\ lock # None /\ cur[lock] = d =>
         /\ pc[lock] = "add" => index[d] = HeadFile(d)
         /\ pc[lock] = "commit" => index[d] = worktree[d]

IInv == RepoType /\ LockInv /\ RepoInv

-----------------------------------------------------------------------------
\* What a step of worker w outside write() does: the repository and its lock stay, only
\* the worker moves, and it knows its device when it is about to compare.
Quiet(w) ==
  /\ UNCHANGED <<worktree, index, log, lock, device>>
  /\ mishaps \subseteq mishaps'
  /\ pc[w] \notin {"add", "commit"}
  /\ \E s \in Steps \ {"add", "commit"}, x \in Device \cup {None} :
       /\ pc' = [pc EXCEPT ![w] = s] /\ cur' = [cur EXCEPT ![w] = x]
       /\ s = "compare" => x \in Device
  /\ got' \in [Worker -> [Device -> File]]

\* These are such steps.
LEMMA QuietSteps ==
  ASSUME RepoType, NEW w \in Worker,
         \/ \E ds \in Scope[w] : Begin(w, ds)
         \/ \E d \in Device : Pick(w, d)
         \/ Same(w) \/ Adopt(w) \/ InsertRow(w) \/ CommitRows(w),
         pc[w] = "compare" => cur[w] \in Device
  PROVE  Quiet(w)
<1> USE DEF RepoType, Quiet, Goto, Steps, File
<1>1. ASSUME NEW ds \in Scope[w], Begin(w, ds) PROVE Quiet(w)
  <2>1. /\ UNCHANGED <<worktree, index, log, lock, device, cur>>
        /\ mishaps \subseteq mishaps' /\ pc[w] = "idle"
        /\ pc' = [pc EXCEPT ![w] = "pick"]
    BY <1>1 DEF Begin, repo, step, Mark
  <2>2. got' \in [Worker -> [Device -> File]]
    BY <1>1 DEF Begin
  <2>3. cur' = [cur EXCEPT ![w] = cur[w]] /\ cur[w] \in Device \cup {None}
    BY <2>1
  <2> QED
    BY <2>1, <2>2, <2>3
<1>2. ASSUME NEW d \in Device, Pick(w, d) PROVE Quiet(w)
  BY <1>2 DEF Pick, repo
<1>3. CASE Same(w)
  <2>1. cur' = [cur EXCEPT ![w] = cur[w]]
    BY <1>3 DEF Same, step
  <2> QED
    BY <1>3, <2>1 DEF Same, repo, batch
<1>4. CASE Adopt(w)
  <2>1. /\ UNCHANGED <<worktree, index, log, lock, device, cur, got, mishaps>>
        /\ pc[w] = "adopt" /\ pc' = [pc EXCEPT ![w] = "row"]
    BY <1>4 DEF Adopt, repo, batch
  <2>2. cur' = [cur EXCEPT ![w] = cur[w]] /\ cur[w] \in Device \cup {None}
    BY <2>1
  <2> QED
    BY <2>1, <2>2
<1>5. CASE InsertRow(w)
  <2>1. /\ UNCHANGED <<worktree, index, log, lock, device, mishaps>> /\ pc[w] = "row"
        /\ pc' = [pc EXCEPT ![w] = "pick"] /\ cur' = [cur EXCEPT ![w] = None]
    BY <1>5 DEF InsertRow, StepDone, repo
  <2>2. got' = [got EXCEPT ![w] = [got[w] EXCEPT ![cur[w]] = Absent]]
    BY <1>5 DEF InsertRow
  <2>3. got' \in [Worker -> [Device -> File]]
    BY <2>2
  <2>4. \E s \in Steps \ {"add", "commit"}, x \in Device \cup {None} :
          /\ pc' = [pc EXCEPT ![w] = s] /\ cur' = [cur EXCEPT ![w] = x]
          /\ s = "compare" => x \in Device
    <3> WITNESS "pick" \in Steps \ {"add", "commit"}, None \in Device \cup {None}
    <3> QED
      BY <2>1
  <2> QED
    BY <2>1, <2>3, <2>4
<1>6. CASE CommitRows(w)
  <2>1. /\ UNCHANGED <<worktree, index, log, lock, device, mishaps>> /\ pc[w] = "pick"
        /\ pc' = [pc EXCEPT ![w] = "idle"] /\ cur' = [cur EXCEPT ![w] = None]
    BY <1>6 DEF CommitRows, Finish, StepDone, repo
  <2>2. got' \in [Worker -> [Device -> File]]
    BY <1>6 DEF CommitRows, Finish
  <2>3. \E s \in Steps \ {"add", "commit"}, x \in Device \cup {None} :
          /\ pc' = [pc EXCEPT ![w] = s] /\ cur' = [cur EXCEPT ![w] = x]
          /\ s = "compare" => x \in Device
    <3> WITNESS "idle" \in Steps \ {"add", "commit"}, None \in Device \cup {None}
    <3> QED
      BY <2>1
  <2> QED
    BY <2>1, <2>2, <2>3
<1> QED
  BY <1>1, <1>2, <1>3, <1>4, <1>5, <1>6

\* Such a step keeps the invariant.
LEMMA QuietKeeps ==
  ASSUME IInv, NEW w \in Worker, Quiet(w)
  PROVE  IInv'
<1> USE DEF IInv, RepoType, Steps
<1> PICK s \in Steps \ {"add", "commit"}, x \in Device \cup {None} :
      /\ pc' = [pc EXCEPT ![w] = s] /\ cur' = [cur EXCEPT ![w] = x]
      /\ s = "compare" => x \in Device
  BY DEF Quiet
<1>1. RepoType'
  BY DEF Quiet
<1>2. LockInv'
  BY DEF Quiet, LockInv
<1>3. lock = None \/ lock # w
  BY DEF Quiet, LockInv
<1>4. lock # None => cur'[lock] = cur[lock] /\ pc'[lock] = pc[lock]
  BY <1>3
<1>5. RepoInv'
  BY <1>4 DEF Quiet, RepoInv, HeadFile, At
<1> QED
  BY <1>1, <1>2, <1>5

\* The file is replaced: from now on it differs from the index and from HEAD.
LEMMA ReplaceKeeps ==
  ASSUME BackupAssumption, IInv, NEW w \in Worker, Replace(w)
  PROVE  IInv'
<1> USE DEF IInv, RepoType, Steps, Replace, Goto, repo, batch, step
<1>1. cur[w] \in Device /\ w # None
  BY DEF LockInv, BackupAssumption
<1>2. RepoType'
  BY <1>1
<1>3. LockInv'
  BY <1>1 DEF LockInv
<1>4. RepoInv'
  BY <1>1 DEF RepoInv, HeadFile, At
<1> QED
  BY <1>2, <1>3, <1>4

\* Staging brings the index in line with the working tree.
LEMMA AddKeeps ==
  ASSUME BackupAssumption, IInv, NEW w \in Worker, Add(w)
  PROVE  IInv'
<1> USE DEF IInv, RepoType, Steps, Add, Goto, repo, batch, step
<1>1. cur[w] \in Device /\ w # None /\ lock = w
  BY DEF LockInv, BackupAssumption
<1>2. RepoType'
  BY <1>1
<1>3. LockInv'
  BY <1>1 DEF LockInv
<1>4. RepoInv'
  BY <1>1 DEF RepoInv, HeadFile, At
<1> QED
  BY <1>2, <1>3, <1>4

\* The commit takes the whole index, so HEAD is the index now.
LEMMA CommitKeeps ==
  ASSUME BackupAssumption, IInv, NEW w \in Worker, Commit(w)
  PROVE  IInv'
<1> USE DEF IInv, RepoType, Steps, Commit, Goto, batch
<1>1. cur[w] \in Device /\ w # None /\ lock = w
  BY DEF LockInv, BackupAssumption
<1>2. RepoType'
  <2>1. log' \in Seq([Device -> File])
    BY DEF Commit
  <2> QED
    BY <1>1, <2>1
<1>3. LockInv'
  BY <1>1 DEF LockInv
<1>4. \A d \in Device : HeadFile(d)' = index[d]
  <2>1. Len(log') = Len(log) + 1 /\ log'[Len(log) + 1] = index /\ Len(log) \in Nat
    BY DEF Commit
  <2> QED
    BY <2>1 DEF HeadFile, At
<1>5. RepoInv'
  <2>1. "torn" \notin mishaps' => \A d \in Device : worktree[d] = index[d]
    BY <1>1 DEF RepoInv, Mark
  <2>2. lock' = None /\ worktree' = worktree /\ index' = index
    OBVIOUS
  <2> QED
    BY <1>4, <2>1, <2>2 DEF RepoInv
<1> QED
  BY <1>2, <1>3, <1>5

\* A failure inside write() is a torn one; any other leaves the repository in order.
LEMMA FailKeeps ==
  ASSUME BackupAssumption, IInv, NEW w \in Worker, Fail(w)
  PROVE  IInv'
<1> USE DEF IInv, RepoType, Steps, Fail, Finish, StepDone, Goto, repo
<1>1. w # None
  BY DEF BackupAssumption
<1>2. /\ pc' = [pc EXCEPT ![w] = "idle"] /\ cur' = [cur EXCEPT ![w] = None]
      /\ lock' = IF lock = w THEN None ELSE lock
      /\ UNCHANGED <<worktree, index, log, device>>
  OBVIOUS
<1>3. got' \in [Worker -> [Device -> File]]
  BY DEF File
<1>4. RepoType'
  BY <1>2, <1>3
<1>5. LockInv'
  BY <1>1, <1>2 DEF LockInv
<1>6. RepoInv'
  <2>1. CASE lock = w
    <3>1. "torn" \in mishaps'
      BY <2>1 DEF LockInv, Mark
    <3> QED
      BY <3>1 DEF RepoInv
  <2>2. CASE lock # w
    <3>1. lock' = lock /\ mishaps \subseteq mishaps'
      BY <2>2, <1>2 DEF Mark
    <3>2. lock # None => cur'[lock] = cur[lock] /\ pc'[lock] = pc[lock]
      BY <2>2, <1>2
    <3> QED
      BY <1>2, <3>1, <3>2 DEF RepoInv, HeadFile, At
  <2> QED
    BY <2>1, <2>2
<1> QED
  BY <1>4, <1>5, <1>6

\* The invariant holds of the initial states.
LEMMA IInvInit ==
  ASSUME BackupAssumption, Init
  PROVE  IInv
<1> USE DEF Init, File, Steps
<1>1. RepoType
  BY DEF RepoType
<1>2. LockInv
  BY DEF LockInv, BackupAssumption
<1>3. RepoInv
  BY DEF RepoInv, HeadFile, At
<1> QED
  BY <1>1, <1>2, <1>3 DEF IInv

\* Every step keeps the invariant.
LEMMA IInvStep ==
  ASSUME BackupAssumption, IInv, [Next]_vars
  PROVE  IInv'
<1>1. ASSUME NEW d \in Device, DeviceChange(d) PROVE IInv'
  BY <1>1 DEF DeviceChange, IInv, RepoType, LockInv, RepoInv, HeadFile, At, repo, batch, step
<1>2. ASSUME NEW w \in Worker, NEW ds \in Scope[w], Begin(w, ds) PROVE IInv'
  BY <1>2, QuietSteps, QuietKeeps DEF IInv, LockInv
<1>3. ASSUME NEW w \in Worker, Work(w) PROVE IInv'
  <2>1. CASE Replace(w)
    BY <1>3, <2>1, ReplaceKeeps
  <2>2. CASE Add(w)
    BY <1>3, <2>2, AddKeeps
  <2>3. CASE Commit(w)
    BY <1>3, <2>3, CommitKeeps
  <2>4. CASE ~(Replace(w) \/ Add(w) \/ Commit(w))
    BY <1>3, <2>4, QuietSteps, QuietKeeps DEF IInv, LockInv, Work
  <2> QED
    BY <2>1, <2>2, <2>3, <2>4
<1>4. ASSUME NEW w \in Worker, Fail(w) PROVE IInv'
  BY <1>4, FailKeeps
<1>5. CASE UNCHANGED vars
  BY <1>5 DEF vars, repo, batch, step, IInv, RepoType, LockInv, RepoInv, HeadFile, At
<1> QED
  BY <1>1, <1>2, <1>3, <1>4, <1>5 DEF Next

\* The invariant holds in every state backups can reach, whatever batches run, race or fail.
THEOREM Invariance == Spec => []IInv
<1>1. Init => IInv
  BY BackupAssumption, IInvInit
<1>2. IInv /\ [Next]_vars => IInv'
  BY BackupAssumption, IInvStep
<1> QED
  BY <1>1, <1>2, PTL DEF Spec

\* Outside write() the working tree, the index and HEAD agree on every file, unless a
\* batch has failed between the replacement of a file and its commit: comparing with the
\* working tree is comparing with HEAD.
THEOREM WorkingTreeIsCommitted == Spec => []FileIsCommitted
<1>1. IInv => FileIsCommitted
  BY DEF IInv, RepoInv, FileIsCommitted, Clean
<1> QED
  BY Invariance, <1>1, PTL
-----------------------------------------------------------------------------
(* Types.  A row names the last commit of its file, so its type asks that there is one. *)

Busy == {"compare", "add", "commit", "adopt", "row"}

\* What is still to be done was collected and has no row yet.
WorkInv ==
  \A w \in Worker :
    /\ pc[w] \in Busy => cur[w] \in Device \ todo[w] /\ got[w][cur[w]] \in Content
    /\ \A d \in todo[w] : got[w][d] \in Content
    /\ pc[w] = "idle" => \A d \in Device : rows[w][d] = None
    /\ \A d \in Device : got[w][d] # Absent => rows[w][d] = None

\* Commit n is the last to touch the file of d: what it holds is what HEAD holds.
IsLast(n, d) ==
  /\ n \in DOMAIN log /\ log[n][d] # At(n - 1, d)
  /\ \A i \in DOMAIN log : log[i][d] # At(i - 1, d) => i <= n
  /\ log[n][d] = HeadFile(d)

Untouched(d) == HeadFile(d) = Absent /\ \A i \in DOMAIN log : log[i][d] = At(i - 1, d)

LastInv == \A d \in Device : Untouched(d) \/ \E n \in DOMAIN log : IsLast(n, d)

TypeInv == TypeOK /\ WorkInv /\ LastInv

\* Such a commit is the one last_commit_for finds.
LEMMA LastIs ==
  ASSUME TypeOK, NEW d \in Device, NEW n \in DOMAIN log, IsLast(n, d)
  PROVE  LastCommit(d) = n
<1> DEFINE touching == {i \in DOMAIN log : log[i][d] # At(i - 1, d)}
           IsMax(i) == i \in touching /\ \A j \in touching : j <= i
<1>1. DOMAIN log \subseteq Nat
  BY DEF TypeOK
<1>2. IsMax(n)
  BY DEF IsLast
<1>3. \A i : IsMax(i) => i = n
  BY <1>1, <1>2
<1>4. LastCommit(d) = CHOOSE i \in touching : \A j \in touching : j <= i
  BY <1>2 DEF LastCommit
<1>5. IsMax(LastCommit(d))
  <2> HIDE DEF touching
  <2> QED
    BY <1>2, <1>4
<1> QED
  BY <1>3, <1>5

\* It finds none for a file no commit has touched.
LEMMA LastIsNone ==
  ASSUME NEW d \in Device, Untouched(d)
  PROVE  LastCommit(d) = 0
BY DEF Untouched, LastCommit

\* The last commit holds what HEAD holds; there is none only while there is no file.
LEMMA LastCommitHolds ==
  ASSUME TypeInv, NEW d \in Device
  PROVE  /\ LastCommit(d) \in Nat
         /\ HeadFile(d) = Absent => LastCommit(d) = 0 \/ log[LastCommit(d)][d] = Absent
         /\ HeadFile(d) # Absent =>
              LastCommit(d) \in DOMAIN log /\ log[LastCommit(d)][d] = HeadFile(d)
<1>1. CASE Untouched(d)
  BY <1>1, LastIsNone DEF Untouched
<1>2. CASE \E n \in DOMAIN log : IsLast(n, d)
  <2>1. PICK n \in DOMAIN log : IsLast(n, d)
    BY <1>2
  <2>2. LastCommit(d) = n
    BY <2>1, LastIs DEF TypeInv
  <2> QED
    BY <2>1, <2>2 DEF IsLast, TypeInv, TypeOK
<1> QED
  BY <1>1, <1>2 DEF TypeInv, LastInv

\* What the places of a sequence leave when they are removed.
LEMMA PlaceOf ==
  ASSUME NEW s \in Seq(Worker), NEW w, Contains(s, w)
  PROVE  Place(s, w) \in 1..Len(s) /\ s[Place(s, w)] = w
BY DEF Contains, Place

\* What comes behind a worker, and what remains without it, are sequences of workers.
LEMMA AfterPlace ==
  ASSUME NEW s \in Seq(Worker), NEW w, Contains(s, w)
  PROVE  /\ SubSeq(s, Place(s, w) + 1, Len(s)) \in Seq(Worker)
         /\ RemoveAt(s, Place(s, w)) \in Seq(Worker)
<1>1. Place(s, w) \in 1..Len(s)
  BY PlaceOf
<1>2. SubSeq(s, Place(s, w) + 1, Len(s)) \in Seq(Worker)
  BY <1>1, SubSeqProperties
<1>3. SubSeq(s, 1, Place(s, w) - 1) \in Seq(Worker)
  BY <1>1, SubSeqProperties
<1> QED
  BY <1>2, <1>3, ConcatProperties DEF RemoveAt
\* A commit is the last of the files it changes; of the others the last one stays.
LEMMA CommitLast ==
  ASSUME TypeInv, log' = Append(log, index), NEW d \in Device
  PROVE  /\ index[d] # HeadFile(d) => \A k \in Nat : k = Len(log) + 1 => IsLast(k, d)'
         /\ index[d] = HeadFile(d) => /\ Untouched(d) => Untouched(d)'
                                      /\ \A n \in DOMAIN log : IsLast(n, d) => IsLast(n, d)'
<1> PICK k \in Nat : k = Len(log)
  BY DEF TypeInv, TypeOK
<1> DEFINE top == k + 1
<1>1. /\ Len(log') = top /\ DOMAIN log' = 1..top /\ DOMAIN log = 1..k
      /\ log'[top] = index /\ \A i \in DOMAIN log : log'[i] = log[i]
  BY DEF TypeInv, TypeOK
<1>2. HeadFile(d)' = index[d] /\ At(k, d)' = HeadFile(d)
  BY <1>1 DEF HeadFile, At
<1>3. \A i \in DOMAIN log : At(i - 1, d)' = At(i - 1, d)
  BY <1>1 DEF At
<1>4. ASSUME index[d] # HeadFile(d) PROVE IsLast(top, d)'
  BY <1>1, <1>2, <1>4 DEF IsLast
<1>5. ASSUME index[d] = HeadFile(d), Untouched(d) PROVE Untouched(d)'
  BY <1>1, <1>2, <1>3, <1>5 DEF Untouched
<1>6. ASSUME index[d] = HeadFile(d), NEW n \in DOMAIN log, IsLast(n, d)
      PROVE  IsLast(n, d)'
  <2>1. At(n - 1, d)' = At(n - 1, d)
    BY <1>3, <1>6
  <2>2. \A i \in DOMAIN log' : log'[i][d] # At(i - 1, d)' => i \in DOMAIN log
    BY <1>1, <1>2, <1>6
  <2>3. \A i \in DOMAIN log' : log'[i][d] # At(i - 1, d)' => i <= n
    BY <1>1, <1>3, <1>6, <2>2 DEF IsLast
  <2> QED
    BY <1>1, <1>2, <1>6, <2>1, <2>3 DEF IsLast
<1> QED
  BY <1>4, <1>5, <1>6

\* Steps that leave the log alone, and the commit, keep LastInv.
LEMMA LastKept ==
  ASSUME TypeInv, log' = log \/ log' = Append(log, index)
  PROVE  LastInv'
<1>1. CASE log' = log
  BY <1>1 DEF TypeInv, LastInv, Untouched, IsLast, HeadFile, At
<1>2. CASE log' = Append(log, index)
  <2> SUFFICES ASSUME NEW d \in Device
               PROVE  Untouched(d)' \/ \E n \in DOMAIN log' : IsLast(n, d)'
    BY DEF LastInv
  <2>1. Len(log) + 1 \in Nat /\ DOMAIN log' = 1..Len(log) + 1 /\ DOMAIN log = 1..Len(log)
    BY <1>2 DEF TypeInv, TypeOK
  <2>2. CASE index[d] # HeadFile(d)
    BY <1>2, <2>1, <2>2, CommitLast
  <2>3. CASE index[d] = HeadFile(d)
    BY <1>2, <2>1, <2>3, CommitLast DEF TypeInv, LastInv
  <2> QED
    BY <2>2, <2>3
<1> QED
  BY <1>1, <1>2

\* A batch that begins holds what was collected just now.
LEMMA BeginType ==
  ASSUME TypeInv, NEW w \in Worker, NEW ds \in Scope[w], Begin(w, ds)
  PROVE  TypeOK' /\ WorkInv'
<1> USE DEF TypeInv, Begin, Goto, Mark, repo, step, open, database
<1>1. ds \subseteq Device /\ Absent \notin Content
  BY BackupAssumption
<1>2. \A d \in Device : got'[w][d] = IF d \in ds THEN device[d] ELSE Absent
  BY DEF TypeOK
<1>3. got' \in [Worker -> [Device -> File]] /\ todo' \in [Worker -> SUBSET Device]
  BY <1>1 DEF TypeOK, File
<1>4. TypeOK'
  BY <1>3 DEF TypeOK, Steps, Mishaps
<1>5. WorkInv'
  BY <1>1, <1>2 DEF TypeOK, WorkInv, Busy
<1> QED
  BY <1>4, <1>5

\* Taking the next device from the batch.
LEMMA PickType ==
  ASSUME TypeInv, NEW w \in Worker, NEW d \in Device, Pick(w, d)
  PROVE  TypeOK' /\ WorkInv'
<1> USE DEF TypeInv, TypeOK, Pick, Goto, repo, open, database
<1>1. TypeOK'
  BY DEF Steps
<1>2. WorkInv'
  BY DEF WorkInv, Busy
<1> QED
  BY <1>1, <1>2

\* The steps between a pick and the row move a worker on with the device it has.
LEMMA WriteType ==
  ASSUME TypeInv, NEW w \in Worker, Same(w) \/ Replace(w) \/ Add(w) \/ Commit(w) \/ Adopt(w)
  PROVE  TypeOK' /\ WorkInv'
<1> USE DEF TypeInv, Goto, repo, batch, step, open, database
<1>1. /\ cur[w] \in Device /\ got[w][cur[w]] \in Content
      /\ UNCHANGED <<got, todo, cur, seen, rows>>
      /\ pc[w] \in Busy /\ \E s \in Busy : pc' = [pc EXCEPT ![w] = s]
  BY DEF Same, Replace, Add, Commit, Adopt, WorkInv, Busy
<1>2. WorkInv'
  BY <1>1 DEF TypeOK, WorkInv, Busy
<1>3. ASSUME Same(w) PROVE TypeOK'
  BY <1>3 DEF Same, TypeOK, Steps
<1>4. ASSUME Replace(w) PROVE TypeOK'
  BY <1>1, <1>4 DEF Replace, TypeOK, Steps, File
<1>5. ASSUME Add(w) PROVE TypeOK'
  BY <1>1, <1>5 DEF Add, TypeOK, Steps
<1>6. ASSUME Commit(w) PROVE TypeOK'
  <2>1. log' \in Seq([Device -> File]) /\ Len(log) + 1 \in Nat
    BY <1>6 DEF Commit, TypeOK
  <2>2. mishaps' \subseteq Mishaps
    BY <1>6 DEF Commit, TypeOK, Mark, Mishaps
  <2> QED
    BY <1>6, <2>1, <2>2 DEF Commit, TypeOK, Steps
<1>7. ASSUME Adopt(w) PROVE TypeOK'
  <2>1. LastCommit(cur[w]) \in Nat
    BY <1>1, LastCommitHolds
  <2> QED
    BY <1>7, <2>1 DEF Adopt, TypeOK, Steps
<1> QED
  BY <1>2, <1>3, <1>4, <1>5, <1>6, <1>7

\* The row of the device in hand.
NewRow(w) == [commit  |-> IF sha[w] # 0 THEN sha[w] ELSE KnownCommit(w),
              content |-> got[w][cur[w]],
              changed |-> sha[w] # 0]

\* What the new row holds and where it goes.
LEMMA NewRowIs ==
  ASSUME TypeInv, NEW w \in Worker, InsertRow(w)
  PROVE  /\ cur[w] \in Device \ todo[w] /\ got[w][cur[w]] \in Content
         /\ NewRow(w) \in Row
         /\ rows' = [rows EXCEPT ![w] = [rows[w] EXCEPT ![cur[w]] = NewRow(w)]]
         /\ got' = [got EXCEPT ![w] = [got[w] EXCEPT ![cur[w]] = Absent]]
<1>1. cur[w] \in Device \ todo[w] /\ got[w][cur[w]] \in Content
  BY DEF TypeInv, WorkInv, Busy, InsertRow
<1>2. KnownCommit(w) \in Nat
  <2>1. LastCommit(cur[w]) \in Nat
    BY <1>1, LastCommitHolds
  <2> QED
    BY <2>1 DEF KnownCommit, TypeInv, TypeOK, Row
<1>3. NewRow(w) \in Row
  BY <1>1, <1>2 DEF TypeInv, TypeOK, NewRow, Row
<1> QED
  BY <1>1, <1>3 DEF InsertRow, NewRow

\* It takes the place of what was collected.
LEMMA RowType ==
  ASSUME TypeInv, NEW w \in Worker, InsertRow(w)
  PROVE  TypeOK' /\ WorkInv'
<1>1. /\ cur[w] \in Device \ todo[w] /\ NewRow(w) \in Row
      /\ rows' = [rows EXCEPT ![w] = [rows[w] EXCEPT ![cur[w]] = NewRow(w)]]
      /\ got' = [got EXCEPT ![w] = [got[w] EXCEPT ![cur[w]] = Absent]]
  BY NewRowIs
<1> USE DEF TypeInv, InsertRow, Goto, StepDone, repo, database
<1>2. rows' \in [Worker -> [Device -> Row \cup {None}]] /\ got' \in [Worker -> [Device -> File]]
  BY <1>1 DEF TypeOK, File
<1>3. fresh' \in [Device -> Seq(Worker)]
  BY <1>1 DEF TypeOK
<1>4. TypeOK'
  BY <1>2, <1>3 DEF TypeOK, Steps
<1>5. WorkInv'
  <2> SUFFICES ASSUME NEW v \in Worker PROVE WorkInv!(v)'
    BY DEF WorkInv
  <2>1. /\ pc' = [pc EXCEPT ![w] = "pick"] /\ cur' = [cur EXCEPT ![w] = None] /\ todo' = todo
        /\ pc \in [Worker -> Steps] /\ cur \in [Worker -> Device \cup {None}]
    BY DEF TypeOK
  <2>2. /\ got'[v] = IF v = w THEN [got[w] EXCEPT ![cur[w]] = Absent] ELSE got[v]
        /\ rows'[v] = IF v = w THEN [rows[w] EXCEPT ![cur[w]] = NewRow(w)] ELSE rows[v]
        /\ got[v] \in [Device -> File] /\ rows[v] \in [Device -> Row \cup {None}]
        /\ todo[v] \subseteq Device
    BY <1>1 DEF TypeOK
  <2> QED
    BY <1>1, <2>1, <2>2 DEF WorkInv, Busy
<1> QED
  BY <1>4, <1>5

\* What a worker leaves when its batch ends.
LEMMA FinishType ==
  ASSUME TypeInv, NEW w \in Worker, Finish(w)
  PROVE  /\ pc' \in [Worker -> Steps] /\ got' \in [Worker -> [Device -> File]]
         /\ todo' \in [Worker -> SUBSET Device] /\ cur' \in [Worker -> Device \cup {None}]
         /\ seen' \in [Worker -> Row \cup {None}] /\ sha' \in [Worker -> Nat]
         /\ rows' \in [Worker -> [Device -> Row \cup {None}]]
         /\ WorkInv'
<1> USE DEF TypeInv, TypeOK, Finish, StepDone, Goto
<1>1. WorkInv'
  <2> SUFFICES ASSUME NEW v \in Worker PROVE WorkInv!(v)'
    BY DEF WorkInv
  <2>1. CASE v = w
    BY <2>1 DEF Busy
  <2>2. CASE v # w
    <3>1. pc'[v] = pc[v] /\ cur'[v] = cur[v] /\ todo'[v] = todo[v] /\ got'[v] = got[v] /\ rows'[v] = rows[v]
      BY <2>2
    <3> QED
      BY <3>1 DEF WorkInv
  <2> QED
    BY <2>1, <2>2
<1>2. pc' \in [Worker -> Steps]
  BY DEF Steps
<1>3. got' \in [Worker -> [Device -> File]] /\ rows' \in [Worker -> [Device -> Row \cup {None}]]
  BY DEF File
<1>4. todo' \in [Worker -> SUBSET Device] /\ cur' \in [Worker -> Device \cup {None}]
  OBVIOUS
<1>5. seen' \in [Worker -> Row \cup {None}] /\ sha' \in [Worker -> Nat]
  OBVIOUS
<1> QED
  BY <1>1, <1>2, <1>3, <1>4, <1>5

\* A commit of the rows and a failure keep the types.
LEMMA EndType ==
  ASSUME TypeInv, NEW w \in Worker, CommitRows(w) \/ Fail(w)
  PROVE  TypeOK' /\ WorkInv'
<1> USE DEF TypeInv, repo, database
<1>1. Finish(w)
  BY DEF CommitRows, Fail
<1>2. \A d \in Device : fresh[d] \in Seq(Worker)
  BY DEF TypeOK
<1>3. fresh' \in [Device -> Seq(Worker)]
  <2>1. \A d \in Device : Contains(fresh[d], w) =>
          /\ SubSeq(fresh[d], Place(fresh[d], w) + 1, Len(fresh[d])) \in Seq(Worker)
          /\ RemoveAt(fresh[d], Place(fresh[d], w)) \in Seq(Worker)
    BY <1>2, AfterPlace
  <2>2. CASE CommitRows(w)
    BY <1>2, <2>1, <2>2 DEF CommitRows
  <2>3. CASE Fail(w)
    BY <1>2, <2>1, <2>3 DEF Fail
  <2> QED
    BY <2>2, <2>3
<1>4. CASE CommitRows(w)
  <2>1. latest' \in [Device -> Row \cup {None}]
    BY <1>4 DEF CommitRows, TypeOK
  <2>2. recorded' \in [Device -> SUBSET Nat]
    <3>1. \A d \in Device : rows[w][d] # None => rows[w][d].commit \in Nat
      BY DEF TypeOK, Row
    <3> QED
      BY <1>4, <3>1 DEF CommitRows, TypeOK
  <2> QED
    BY <1>1, <1>3, <1>4, <2>1, <2>2, FinishType DEF CommitRows, TypeOK
<1>5. CASE Fail(w)
  <2>1. fails' \in 0..MaxFails
    BY <1>5, BackupAssumption DEF Fail, TypeOK
  <2>2. mishaps' \subseteq Mishaps
    BY <1>5 DEF Fail, TypeOK, Mark, Mishaps
  <2> QED
    BY <1>1, <1>3, <1>5, <2>1, <2>2, FinishType DEF Fail, TypeOK
<1> QED
  BY <1>4, <1>5

\* The types hold of the initial states.
LEMMA TypeInvInit ==
  ASSUME Init
  PROVE  TypeInv
<1> USE DEF Init
<1>1. TypeOK
  BY BackupAssumption DEF TypeOK, File, Steps, Mishaps
<1>2. WorkInv
  BY DEF WorkInv, Busy
<1>3. LastInv
  BY DEF LastInv, Untouched, HeadFile, At
<1> QED
  BY <1>1, <1>2, <1>3 DEF TypeInv

\* Every step keeps them.
LEMMA TypeInvStep ==
  ASSUME TypeInv, [Next]_vars
  PROVE  TypeInv'
<1>1. log' = log \/ log' = Append(log, index)
  BY DEF Next, Work, vars, repo, DeviceChange, Begin, Pick, Same, Replace, Add, Commit, Adopt,
         InsertRow, CommitRows, Fail
<1>2. LastInv'
  BY <1>1, LastKept
<1>3. ASSUME NEW d \in Device, DeviceChange(d) PROVE TypeOK' /\ WorkInv'
  <2> USE DEF TypeInv, DeviceChange, repo, batch, step, open, database
  <2>1. TypeOK'
    BY <1>3, BackupAssumption DEF TypeOK
  <2>2. WorkInv'
    BY <1>3 DEF WorkInv
  <2> QED
    BY <2>1, <2>2
<1>4. ASSUME NEW w \in Worker, Work(w) PROVE TypeOK' /\ WorkInv'
  BY <1>4, PickType, WriteType, RowType, EndType DEF Work
<1>5. ASSUME NEW w \in Worker, NEW ds \in Scope[w], Begin(w, ds) PROVE TypeOK' /\ WorkInv'
  BY <1>5, BeginType
<1>6. ASSUME NEW w \in Worker, Fail(w) PROVE TypeOK' /\ WorkInv'
  BY <1>6, EndType
<1>7. ASSUME UNCHANGED vars PROVE TypeOK' /\ WorkInv'
  BY <1>7 DEF vars, repo, batch, step, open, database, TypeInv, TypeOK, WorkInv
<1>8. TypeOK' /\ WorkInv'
  BY <1>3, <1>4, <1>5, <1>6, <1>7 DEF Next
<1> QED
  BY <1>2, <1>8 DEF TypeInv

\* Every variable of backups keeps its type.  That a row names a commit by its number rests
\* on each file with a commit having a last one.
THEOREM Typed == Spec => []TypeOK
<1>1. Init => TypeInv
  BY TypeInvInit
<1>2. TypeInv /\ [Next]_vars => TypeInv'
  BY TypeInvStep
<1>3. TypeInv => TypeOK
  BY DEF TypeInv
<1> QED
  BY <1>1, <1>2, <1>3, PTL DEF Spec
-----------------------------------------------------------------------------
(* Rows and commits. *)

\* Commit n holds c in the file of d.
Holds(n, d, c) == n \in DOMAIN log /\ log[n][d] = c

\* What a worker knows of HEAD: it differs from what is being written, it is what the file
\* was found to hold, and the commit the row will name holds what was collected.
WorkerOK(w) ==
  /\ pc[w] \in {"add", "commit"} =>
       worktree[cur[w]] = got[w][cur[w]] /\ HeadFile(cur[w]) # got[w][cur[w]]
  /\ pc[w] = "adopt" => HeadFile(cur[w]) = got[w][cur[w]]
  /\ pc[w] = "row" /\ sha[w] # 0 => Holds(sha[w], cur[w], got[w][cur[w]])
  /\ pc[w] = "row" /\ sha[w] = 0 =>
       seen[w] # None /\ Holds(seen[w].commit, cur[w], got[w][cur[w]])

RowOK(r, d) == r # None => Holds(r.commit, d, r.content)

RowsOK ==
  \A d \in Device : RowOK(latest[d], d) /\ \A w \in Worker : RowOK(rows[w][d], d)

Settled == RowsOK /\ \A w \in Worker : WorkerOK(w)

RowInv == Clean({"torn", "crossed"}) => Settled

\* A commit never loses what it holds.
LEMMA HoldsStays ==
  ASSUME TypeInv, log' = log \/ log' = Append(log, index), NEW n, NEW d, NEW c, Holds(n, d, c)
  PROVE  Holds(n, d, c)'
<1>1. CASE log' = log
  BY <1>1 DEF Holds
<1>2. CASE log' = Append(log, index)
  <2>1. n \in DOMAIN log' /\ log'[n] = log[n]
    BY <1>2 DEF TypeInv, TypeOK, Holds
  <2> QED
    BY <2>1 DEF Holds
<1> QED
  BY <1>1, <1>2

\* A row that was there, or none, is as good as it was.
LEMMA RowStays ==
  ASSUME TypeInv, log' = log \/ log' = Append(log, index), NEW r, NEW d, RowOK(r, d)
  PROVE  RowOK(r, d)'
<1>1. CASE r = None
  BY <1>1 DEF RowOK
<1>2. CASE r # None
  <2>1. Holds(r.commit, d, r.content)
    BY <1>2 DEF RowOK
  <2>2. Holds(r.commit, d, r.content)'
    BY <2>1, HoldsStays
  <2> QED
    BY <2>2 DEF RowOK
<1> QED
  BY <1>1, <1>2
\* Rows only pass from a batch to the database, or vanish.
LEMMA RowsKept ==
  ASSUME TypeInv, log' = log \/ log' = Append(log, index), RowsOK,
         \A d \in Device : latest'[d] = latest[d] \/ \E w \in Worker : latest'[d] = rows[w][d],
         \A w \in Worker : \A d \in Device : rows'[w][d] \in {rows[w][d], None}
  PROVE  RowsOK'
<1> SUFFICES ASSUME NEW d \in Device
             PROVE  RowOK(latest[d], d)' /\ \A w \in Worker : RowOK(rows[w][d], d)'
  BY DEF RowsOK
<1>1. RowOK(latest[d], d)'
  <2>1. PICK r : latest'[d] = r /\ RowOK(r, d)
    BY DEF RowsOK
  <2>2. RowOK(r, d)'
    BY <2>1, RowStays
  <2> QED
    BY <2>1, <2>2 DEF RowOK
<1>2. ASSUME NEW w \in Worker PROVE RowOK(rows[w][d], d)'
  <2>1. PICK r : rows'[w][d] = r /\ RowOK(r, d)
    BY DEF RowsOK, RowOK
  <2>2. RowOK(r, d)'
    BY <2>1, RowStays
  <2> QED
    BY <2>1, <2>2 DEF RowOK
<1> QED
  BY <1>1, <1>2

\* What a worker knows stays true while the files and HEAD stay and it does not move.
Still(v) ==
  /\ pc'[v] = pc[v] /\ cur'[v] = cur[v] /\ got'[v] = got[v]
  /\ sha'[v] = sha[v] /\ seen'[v] = seen[v]

\* What a worker knows stays true while it does not move and the files stay.
LEMMA StillOK ==
  ASSUME NEW v \in Worker, WorkerOK(v), Still(v), UNCHANGED <<worktree, log>>
  PROVE  WorkerOK(v)'
BY DEF WorkerOK, Still, Holds, HeadFile, At

\* Of the steps outside write() only finding the file as collected and adopting HEAD tell
\* a worker anything.
LEMMA QuietSettled ==
  ASSUME TypeInv, Settled, NEW w \in Worker,
         \/ \E ds \in Scope[w] : Begin(w, ds)
         \/ \E d \in Device : Pick(w, d)
         \/ CommitRows(w) \/ Fail(w)
  PROVE  Settled'
<1> USE DEF TypeInv, Begin, Pick, CommitRows, Fail, Finish, StepDone, Goto, repo, batch, step, open, database
<1>1. UNCHANGED <<worktree, log>> /\ pc'[w] \in {"pick", "compare", "idle"}
  BY DEF TypeOK
<1>2. ASSUME NEW v \in Worker, v # w PROVE Still(v)
  <2>1. ASSUME NEW ds \in Scope[w], Begin(w, ds) PROVE Still(v)
    BY <1>2, <2>1 DEF Still, TypeOK
  <2>2. ASSUME NEW d \in Device, Pick(w, d) PROVE Still(v)
    BY <1>2, <2>2 DEF Still, TypeOK
  <2>3. ASSUME Finish(w) PROVE Still(v)
    BY <1>2, <2>3 DEF Still, TypeOK
  <2> QED
    BY <2>1, <2>2, <2>3
<1>3. WorkerOK(w)'
  BY <1>1 DEF WorkerOK
<1>4. \A v \in Worker : WorkerOK(v)'
  BY <1>1, <1>2, <1>3, StillOK DEF Settled
<1>5. \A d \in Device : latest'[d] = latest[d] \/ \E v \in Worker : latest'[d] = rows[v][d]
  OBVIOUS
<1>6. \A v \in Worker : \A d \in Device : rows'[v][d] \in {rows[v][d], None}
  <2>1. rows' = rows \/ rows' = [rows EXCEPT ![w] = [d \in Device |-> None]]
    OBVIOUS
  <2>2. rows \in [Worker -> [Device -> Row \cup {None}]]
    BY DEF TypeOK
  <2> QED
    BY <2>1, <2>2
<1>7. RowsOK'
  BY <1>1, <1>5, <1>6, RowsKept DEF Settled
<1> QED
  BY <1>4, <1>7 DEF Settled

\* The row of the device in hand names the commit that holds what was collected.
LEMMA RowSettled ==
  ASSUME TypeInv, Settled, NEW w \in Worker, InsertRow(w)
  PROVE  Settled'
<1> USE DEF TypeInv, InsertRow, StepDone, Goto, repo, batch, step, open, database
<1>1. UNCHANGED <<worktree, log>> /\ pc'[w] = "pick"
  BY DEF TypeOK
<1>2. \A v \in Worker \ {w} : Still(v)
  BY DEF Still
<1>3. \A v \in Worker : WorkerOK(v)'
  BY <1>1, <1>2, StillOK DEF Settled, WorkerOK
<1>4. RowOK(NewRow(w), cur[w])
  <2>1. CASE sha[w] # 0
    BY <2>1 DEF Settled, WorkerOK, RowOK, NewRow
  <2>2. CASE sha[w] = 0
    <3>1. seen[w] # None /\ Holds(seen[w].commit, cur[w], got[w][cur[w]])
      BY <2>2 DEF Settled, WorkerOK
    <3>2. KnownCommit(w) = seen[w].commit
      BY <3>1 DEF KnownCommit, Holds, TypeOK
    <3> QED
      BY <2>2, <3>1, <3>2 DEF RowOK, NewRow
  <2> QED
    BY <2>1, <2>2
<1>5. \A v \in Worker : \A d \in Device :
        rows'[v][d] = IF v = w /\ d = cur[w] THEN NewRow(w) ELSE rows[v][d]
  <2>1. rows' = [rows EXCEPT ![w] = [rows[w] EXCEPT ![cur[w]] = NewRow(w)]]
    BY NewRowIs
  <2>2. rows \in [Worker -> [Device -> Row \cup {None}]]
    BY DEF TypeOK
  <2> QED
    BY <2>1, <2>2
<1>6. ASSUME NEW d \in Device, NEW v \in Worker PROVE RowOK(rows[v][d], d)'
  <2>1. PICK r : rows'[v][d] = r /\ RowOK(r, d)
    BY <1>4, <1>5 DEF Settled, RowsOK
  <2>2. RowOK(r, d)'
    BY <1>1, <2>1, RowStays
  <2> QED
    BY <2>1, <2>2 DEF RowOK
<1>7. ASSUME NEW d \in Device PROVE RowOK(latest[d], d)'
  <2>1. PICK r : latest[d] = r /\ RowOK(r, d)
    BY DEF Settled, RowsOK
  <2>2. RowOK(r, d)'
    BY <1>1, <2>1, RowStays
  <2> QED
    BY <2>1, <2>2 DEF RowOK
<1> QED
  BY <1>3, <1>6, <1>7 DEF Settled, RowsOK
\* The rows are no business of a step inside write() or of an adoption.
LEMMA RowsUntouched ==
  ASSUME TypeInv, Settled, log' = log \/ log' = Append(log, index), UNCHANGED <<latest, rows>>
  PROVE  RowsOK'
<1>1. \A w \in Worker : \A d \in Device : rows'[w][d] \in {rows[w][d], None}
  OBVIOUS
<1>2. \A d \in Device : latest'[d] = latest[d] \/ \E w \in Worker : latest'[d] = rows[w][d]
  OBVIOUS
<1> QED
  BY <1>1, <1>2, RowsKept DEF Settled

\* Finding the file as it was collected: HEAD holds it, since nothing is torn.
LEMMA SameSettled ==
  ASSUME IInv, TypeInv, Settled, "torn" \notin mishaps, NEW w \in Worker, Same(w)
  PROVE  Settled'
<1> USE DEF TypeInv, Same, Goto, repo, batch, step, open, database
<1>1. UNCHANGED <<worktree, log, latest, rows>> /\ pc'[w] = "adopt"
  BY DEF TypeOK
<1>2. \A v \in Worker \ {w} : Still(v)
  BY DEF Still, TypeOK
<1>3. HeadFile(cur[w]) = got[w][cur[w]]
  BY DEF IInv, LockInv, RepoInv
<1>4. WorkerOK(w)'
  BY <1>1, <1>3 DEF WorkerOK, HeadFile, At
<1>5. \A v \in Worker : WorkerOK(v)'
  BY <1>1, <1>2, <1>4, StillOK DEF Settled
<1> QED
  BY <1>1, <1>5, RowsUntouched DEF Settled

\* The commit adopted holds what was collected.
LEMMA AdoptHead ==
  ASSUME TypeInv, Settled, NEW w \in Worker, Adopt(w)
  PROVE  LastCommit(cur[w]) # 0 /\ Holds(LastCommit(cur[w]), cur[w], got[w][cur[w]])
<1>1. cur[w] \in Device /\ got[w][cur[w]] \in Content /\ HeadFile(cur[w]) = got[w][cur[w]]
  BY DEF Adopt, Settled, WorkerOK, TypeInv, WorkInv, Busy
<1>2. HeadFile(cur[w]) # Absent
  BY <1>1, BackupAssumption
<1>3. LastCommit(cur[w]) \in DOMAIN log /\ log[LastCommit(cur[w])][cur[w]] = HeadFile(cur[w])
  BY <1>1, <1>2, LastCommitHolds
<1> QED
  BY <1>1, <1>3 DEF Holds, TypeInv, TypeOK

\* Adopting the last commit: it holds what was collected.
LEMMA AdoptSettled ==
  ASSUME TypeInv, Settled, NEW w \in Worker, Adopt(w)
  PROVE  Settled'
<1>1. LastCommit(cur[w]) # 0 /\ Holds(LastCommit(cur[w]), cur[w], got[w][cur[w]])
  BY AdoptHead
<1> USE DEF TypeInv, Goto, repo, batch, step, open, database
<1>2. UNCHANGED <<worktree, log, latest, rows, got, cur, seen>> /\ pc'[w] = "row"
  BY DEF Adopt, TypeOK
<1>3. \A v \in Worker \ {w} : Still(v)
  BY DEF Adopt, Still, TypeOK
<1>4. sha'[w] = IF seen[w] # None /\ seen[w].commit = LastCommit(cur[w]) THEN 0 ELSE LastCommit(cur[w])
  BY DEF Adopt, TypeOK
<1>5. WorkerOK(w)'
  BY <1>1, <1>2, <1>4 DEF WorkerOK, Holds
<1>6. \A v \in Worker : WorkerOK(v)'
  BY <1>2, <1>3, <1>5, StillOK DEF Settled
<1> QED
  BY <1>2, <1>6, RowsUntouched DEF Settled

\* One writer at a time: the others are not between the replacement and the commit.
LEMMA OneWriter ==
  ASSUME IInv, NEW w \in Worker, lock \in {w, None}
  PROVE  \A v \in Worker \ {w} : pc[v] \notin {"add", "commit"}
BY BackupAssumption DEF IInv, LockInv

\* Replacing a file whose content differs from what was collected, hence from HEAD.
LEMMA ReplaceSettled ==
  ASSUME IInv, TypeInv, Settled, "torn" \notin mishaps, NEW w \in Worker, Replace(w)
  PROVE  Settled'
<1> USE DEF TypeInv, Replace, Goto, repo, batch, step, open, database
<1>1. UNCHANGED <<log, latest, rows, got, cur, sha, seen>> /\ pc'[w] = "add"
  BY DEF TypeOK
<1>2. cur[w] \in Device
  BY DEF WorkInv, Busy
<1>3. worktree'[cur[w]] = got[w][cur[w]] /\ HeadFile(cur[w]) # got[w][cur[w]]
  BY <1>2 DEF IInv, RepoInv, TypeOK
<1>4. WorkerOK(w)'
  BY <1>1, <1>3 DEF WorkerOK, HeadFile, At
<1>5. ASSUME NEW v \in Worker, v # w PROVE WorkerOK(v)'
  <2>1. pc'[v] = pc[v] /\ pc[v] \notin {"add", "commit"}
    BY <1>5, OneWriter DEF TypeOK
  <2>2. WorkerOK(v)
    BY DEF Settled
  <2> QED
    BY <1>1, <2>1, <2>2 DEF WorkerOK, Holds, HeadFile, At
<1> QED
  BY <1>1, <1>4, <1>5, RowsUntouched DEF Settled

\* Staging it.
LEMMA AddSettled ==
  ASSUME TypeInv, Settled, NEW w \in Worker, Add(w)
  PROVE  Settled'
<1> USE DEF TypeInv, Add, Goto, repo, batch, step, open, database
<1>1. UNCHANGED <<worktree, log, latest, rows, got, cur, sha, seen>> /\ pc'[w] = "commit" /\ pc[w] = "add"
  BY DEF TypeOK
<1>2. \A v \in Worker \ {w} : Still(v)
  BY DEF Still, TypeOK
<1>3. WorkerOK(w)
  BY DEF Settled
<1>4. WorkerOK(w)'
  BY <1>1, <1>3 DEF WorkerOK, HeadFile, At
<1>5. \A v \in Worker : WorkerOK(v)'
  BY <1>1, <1>2, <1>4, StillOK DEF Settled
<1> QED
  BY <1>1, <1>5, RowsUntouched DEF Settled

\* The commit changes HEAD in the one file, unless another worker is about to adopt the
\* HEAD of that very file.
LEMMA CommitSettled ==
  ASSUME IInv, TypeInv, Settled, "torn" \notin mishaps, "crossed" \notin mishaps',
         NEW w \in Worker, Commit(w)
  PROVE  Settled'
<1> USE DEF TypeInv, Goto, repo, batch, step, open, database
<1>1. /\ UNCHANGED <<worktree, index, latest, rows, got, cur, seen>>
      /\ log' = Append(log, index) /\ pc'[w] = "row" /\ pc[w] = "commit"
      /\ sha'[w] = Len(log) + 1
  BY DEF Commit, TypeOK
<1>2. cur[w] \in Device /\ lock = w /\ lock # None
  BY <1>1, BackupAssumption DEF WorkInv, Busy, IInv, LockInv
<1>3. \A d \in Device : HeadFile(d)' = index[d]
  BY <1>1 DEF HeadFile, At, TypeOK
<1>4. index[cur[w]] = got[w][cur[w]]
  BY <1>1, <1>2 DEF IInv, RepoInv, Settled, WorkerOK
<1>5. Holds(sha[w], cur[w], got[w][cur[w]])' /\ sha'[w] # 0
  BY <1>1, <1>4 DEF Holds, TypeOK
<1>6. WorkerOK(w)'
  BY <1>1, <1>5 DEF WorkerOK, Holds
<1>7. ASSUME NEW v \in Worker, v # w PROVE WorkerOK(v)'
  <2>1. pc'[v] = pc[v] /\ sha'[v] = sha[v] /\ pc[v] \notin {"add", "commit"}
    BY <1>2, <1>7, OneWriter DEF Commit, TypeOK
  <2>2. WorkerOK(v)
    BY DEF Settled
  <2>3. ASSUME pc[v] = "adopt" PROVE HeadFile(cur[v])' = HeadFile(cur[v])
    <3>1. cur[v] \in Device /\ cur[v] # cur[w]
      BY <1>7, <2>3 DEF Commit, Mark, WorkInv, Busy
    <3> QED
      BY <1>1, <1>2, <1>3, <3>1 DEF IInv, RepoInv
  <2>4. ASSUME NEW n, Holds(n, cur[v], got[v][cur[v]]) PROVE Holds(n, cur[v], got[v][cur[v]])'
    BY <1>1, <2>4 DEF Holds, TypeOK
  <2> QED
    BY <1>1, <2>1, <2>2, <2>3, <2>4 DEF WorkerOK
<1> QED
  BY <1>1, <1>6, <1>7, RowsUntouched DEF Settled

\* Every step keeps rows and commits in agreement unless the repository was torn or crossed.
LEMMA RowInvStep ==
  ASSUME IInv, TypeInv, RowInv, [Next]_vars
  PROVE  RowInv'
<1> SUFFICES ASSUME Clean({"torn", "crossed"})'
             PROVE  Settled'
  BY DEF RowInv
<1>1. mishaps \subseteq mishaps'
  BY DEF Next, Work, vars, DeviceChange, Begin, Pick, Same, Replace, Add, Commit, Adopt,
         InsertRow, CommitRows, Fail, Mark
<1>2. Settled /\ "torn" \notin mishaps /\ "crossed" \notin mishaps'
  BY <1>1 DEF RowInv, Clean
<1>3. ASSUME UNCHANGED <<worktree, log, pc, cur, got, sha, seen, latest, rows>> PROVE Settled'
  <2>1. \A w \in Worker : WorkerOK(w)'
    BY <1>2, <1>3 DEF Settled, WorkerOK, Holds, HeadFile, At
  <2> QED
    BY <1>2, <1>3, <2>1, RowsUntouched DEF Settled
<1>4. ASSUME NEW d \in Device, DeviceChange(d) PROVE Settled'
  BY <1>3, <1>4 DEF DeviceChange, repo, batch, step, open, database
<1>5. ASSUME NEW w \in Worker, NEW ds \in Scope[w], Begin(w, ds) PROVE Settled'
  BY <1>2, <1>5, QuietSettled
<1>6. ASSUME NEW w \in Worker, Work(w) PROVE Settled'
  BY <1>2, <1>6, QuietSettled, SameSettled, ReplaceSettled, AddSettled, CommitSettled,
     AdoptSettled, RowSettled DEF Work
<1>7. ASSUME NEW w \in Worker, Fail(w) PROVE Settled'
  BY <1>2, <1>7, QuietSettled
<1>8. ASSUME UNCHANGED vars PROVE Settled'
  BY <1>3, <1>8 DEF vars, repo, batch, step, open, database
<1> QED
  BY <1>4, <1>5, <1>6, <1>7, <1>8 DEF Next

\* A row holds what Git holds at the commit it names, whatever batches run, race or fail,
\* unless a batch died inside write() or a commit crossed an adoption of the same file.
THEOREM RowsMatch == Spec => []RowMatchesCommit
<1>1. Init => RowInv
  BY DEF Init, RowInv, Settled, RowsOK, RowOK, WorkerOK
<1>2. IInv /\ TypeInv /\ RowInv /\ [Next]_vars => RowInv'
  BY RowInvStep
<1>3. TypeInv /\ RowInv => RowMatchesCommit
  BY DEF TypeInv, TypeOK, RowInv, Settled, RowsOK, RowOK, RowMatchesCommit, Holds, At
<1>4. Init => TypeInv
  BY TypeInvInit
<1>5. TypeInv /\ [Next]_vars => TypeInv'
  BY TypeInvStep
<1> QED
  BY Invariance, <1>1, <1>2, <1>3, <1>4, <1>5, PTL DEF Spec
-----------------------------------------------------------------------------
(* A commit is recorded once. *)

\* No two batches hold a device.
Alone ==
  \A v, w \in Worker : \A d \in Device : v # w /\ d \in Held(v) => d \notin Held(w)

\* The one open row of a device, if any.
FreshOK ==
  \A d \in Device :
    \/ fresh[d] = <<>> /\ \A w \in Worker : rows[w][d] = None
    \/ \E w \in Worker : fresh[d] = <<w>> /\ rows[w][d] # None

\* The last row a worker has read is still the last one.
SeenOK == \A w \in Worker : pc[w] \in Busy => seen[w] = latest[cur[w]]

AloneInv ==
  "shared" \notin mishaps => Alone /\ FreshOK /\ SeenOK /\ "crossed" \notin mishaps

\* What a batch has in hand, it holds.
LEMMA InHand ==
  ASSUME TypeInv, NEW w \in Worker, pc[w] \in Busy
  PROVE  cur[w] \in Device /\ cur[w] \in Held(w) /\ rows[w][cur[w]] = None
BY BackupAssumption DEF TypeInv, WorkInv, Held

\* A batch alone on its device leaves nobody behind when it goes.
LEMMA OneIsAll ==
  ASSUME NEW w \in Worker
  PROVE  /\ Contains(<<w>>, w) /\ \A v : Contains(<<w>>, v) => v = w
         /\ \A v : ~Contains(<<>>, v)
         /\ SubSeq(<<w>>, Place(<<w>>, w) + 1, Len(<<w>>)) = <<>>
         /\ RemoveAt(<<w>>, Place(<<w>>, w)) = <<>>
<1>1. Contains(<<w>>, w) /\ (\A v : Contains(<<w>>, v) => v = w) /\ \A v : ~Contains(<<>>, v)
  BY DEF Contains
<1>2. Place(<<w>>, w) = 1
  <2>1. <<w>> \in Seq(Worker) /\ Len(<<w>>) = 1
    OBVIOUS
  <2>2. Place(<<w>>, w) \in 1..Len(<<w>>)
    BY <1>1, <2>1, PlaceOf
  <2> QED
    BY <2>1, <2>2
<1>3. SubSeq(<<w>>, 2, 1) = <<>> /\ SubSeq(<<w>>, 1, 0) = <<>>
  BY SubSeqEmpty
<1>4. RemoveAt(<<w>>, 1) = <<>>
  BY <1>3 DEF RemoveAt
<1> QED
  BY <1>1, <1>2, <1>3, <1>4

\* A batch takes devices nobody holds, or the step is one of those excepted.
LEMMA BeginAlone ==
  ASSUME TypeInv, AloneInv, NEW w \in Worker, NEW ds \in Scope[w], Begin(w, ds)
  PROVE  AloneInv'
<1> USE DEF TypeInv, Begin, Goto, step, open, database
<1> SUFFICES ASSUME "shared" \notin mishaps'
             PROVE  Alone' /\ FreshOK' /\ SeenOK' /\ "crossed" \notin mishaps'
  BY DEF AloneInv
<1>1. /\ mishaps' = mishaps /\ \A v \in Worker : Held(v) \cap ds = {}
      /\ Alone /\ FreshOK /\ SeenOK /\ "crossed" \notin mishaps
  BY DEF Mark, AloneInv
<1>2. \A v \in Worker : Held(v)' = IF v = w THEN ds \cup {d \in Device : rows[w][d] # None} ELSE Held(v)
  <2>1. ds \subseteq Device /\ Absent \notin Content
    BY BackupAssumption
  <2>2. /\ \A d \in Device : got'[w][d] = IF d \in ds THEN device[d] ELSE Absent
        /\ \A d \in Device : device[d] \in Content
        /\ \A v \in Worker : v # w => got'[v] = got[v]
        /\ rows' = rows
    BY DEF TypeOK
  <2> QED
    BY <2>1, <2>2 DEF Held
<1>3. {d \in Device : rows[w][d] # None} \subseteq Held(w)
  BY DEF Held
<1>4. Alone'
  BY <1>1, <1>2, <1>3 DEF Alone
<1>5. FreshOK' /\ SeenOK'
  BY <1>1 DEF FreshOK, SeenOK, TypeOK, Busy
<1> QED
  BY <1>1, <1>4, <1>5

\* Steps that touch neither rows nor what is collected; a commit crosses no adoption.
LEMMA MoveAlone ==
  ASSUME TypeInv, AloneInv, NEW w \in Worker,
         \/ \E d \in Device : Pick(w, d)
         \/ Same(w) \/ Replace(w) \/ Add(w) \/ Commit(w) \/ Adopt(w)
  PROVE  AloneInv'
<1> USE DEF TypeInv, Goto, repo, batch, step, open, database
<1> SUFFICES ASSUME "shared" \notin mishaps'
             PROVE  Alone' /\ FreshOK' /\ SeenOK' /\ "crossed" \notin mishaps'
  BY DEF AloneInv
<1>1. UNCHANGED <<got, rows, fresh, latest>> /\ "shared" \notin mishaps
  BY DEF Pick, Same, Replace, Add, Commit, Adopt, Mark
<1>2. Alone /\ FreshOK /\ SeenOK /\ "crossed" \notin mishaps
  BY <1>1 DEF AloneInv
<1>3. Alone' /\ FreshOK'
  BY <1>1, <1>2 DEF Alone, Held, FreshOK
<1>4. SeenOK'
  <2>1. ASSUME NEW d \in Device, Pick(w, d) PROVE SeenOK'
    BY <1>2, <2>1 DEF Pick, SeenOK, TypeOK, Busy
  <2>2. CASE ~\E d \in Device : Pick(w, d)
    <3>1. cur' = cur /\ seen' = seen /\ \A v \in Worker : pc'[v] \in Busy => pc[v] \in Busy
      BY <2>2 DEF Same, Replace, Add, Commit, Adopt, TypeOK, Busy
    <3> QED
      BY <1>1, <1>2, <3>1 DEF SeenOK
  <2> QED
    BY <2>1, <2>2
<1>5. "crossed" \notin mishaps'
  <2>1. CASE Commit(w)
    <3>1. \A v \in Worker \ {w} : pc[v] = "adopt" => cur[v] # cur[w]
      BY <1>2, <2>1, InHand DEF Commit, Alone, Busy
    <3> QED
      BY <1>2, <2>1, <3>1 DEF Commit, Mark
  <2>2. CASE ~Commit(w)
    BY <1>2, <2>2 DEF Pick, Same, Replace, Add, Adopt
  <2> QED
    BY <2>1, <2>2
<1> QED
  BY <1>3, <1>4, <1>5

\* The row takes the place of what was collected.
LEMMA RowAlone ==
  ASSUME TypeInv, AloneInv, NEW w \in Worker, InsertRow(w)
  PROVE  AloneInv'
<1> USE DEF TypeInv, InsertRow, Goto, StepDone, repo, database
<1> SUFFICES ASSUME "shared" \notin mishaps'
             PROVE  Alone' /\ FreshOK' /\ SeenOK' /\ "crossed" \notin mishaps'
  BY DEF AloneInv
<1>1. Alone /\ FreshOK /\ SeenOK /\ "crossed" \notin mishaps /\ mishaps' = mishaps
  BY DEF AloneInv
<1>2. cur[w] \in Device /\ cur[w] \in Held(w) /\ rows[w][cur[w]] = None
  BY InHand DEF Busy
<1>3. /\ NewRow(w) # None
      /\ rows' = [rows EXCEPT ![w] = [rows[w] EXCEPT ![cur[w]] = NewRow(w)]]
      /\ got' = [got EXCEPT ![w] = [got[w] EXCEPT ![cur[w]] = Absent]]
  BY NewRowIs, RowAssumption
<1>4. /\ rows \in [Worker -> [Device -> Row \cup {None}]] /\ got \in [Worker -> [Device -> File]]
      /\ fresh \in [Device -> Seq(Worker)]
  BY DEF TypeOK
<1>5. \A v \in Worker : Held(v)' = Held(v)
  BY <1>2, <1>3, <1>4 DEF Held
<1>6. Alone'
  BY <1>1, <1>5 DEF Alone
<1>7. \A v \in Worker : rows[v][cur[w]] = None
  BY <1>1, <1>2 DEF Alone, Held
<1>8. fresh[cur[w]] = <<>> /\ fresh' = [fresh EXCEPT ![cur[w]] = <<w>>]
  <2>1. fresh[cur[w]] = <<>>
    BY <1>1, <1>2, <1>7 DEF FreshOK
  <2>2. fresh' = [fresh EXCEPT ![cur[w]] = Append(fresh[cur[w]], w)]
    OBVIOUS
  <2> QED
    BY <2>1, <2>2
<1>9. FreshOK'
  <2> SUFFICES ASSUME NEW d \in Device PROVE FreshOK!(d)'
    BY DEF FreshOK
  <2>1. CASE d = cur[w]
    BY <1>2, <1>3, <1>4, <1>8, <2>1
  <2>2. CASE d # cur[w]
    BY <1>1, <1>2, <1>3, <1>4, <1>8, <2>2 DEF FreshOK
  <2> QED
    BY <2>1, <2>2
<1>10. SeenOK'
  BY <1>1 DEF SeenOK, TypeOK, Busy
<1> QED
  BY <1>1, <1>6, <1>9, <1>10

\* A batch that ends lets go of its devices and of its open rows.
LEMMA EndAlone ==
  ASSUME TypeInv, AloneInv, NEW w \in Worker, CommitRows(w) \/ Fail(w)
  PROVE  AloneInv'
<1> USE DEF TypeInv, repo, database
<1> SUFFICES ASSUME "shared" \notin mishaps'
             PROVE  Alone' /\ FreshOK' /\ SeenOK' /\ "crossed" \notin mishaps'
  BY DEF AloneInv
<1>1. Finish(w) /\ "shared" \notin mishaps
  BY DEF CommitRows, Fail, Mark
<1>2. Alone /\ FreshOK /\ SeenOK /\ "crossed" \notin mishaps
  BY <1>1 DEF AloneInv
<1>3. /\ \A v \in Worker : v # w => rows'[v] = rows[v] /\ got'[v] = got[v]
      /\ \A d \in Device : rows'[w][d] = None /\ got'[w][d] = Absent
  BY <1>1 DEF Finish, StepDone, TypeOK
<1>4. \A v \in Worker : v # w => Held(v)' = Held(v)
  BY <1>3 DEF Held
<1>5. Held(w)' = {}
  BY <1>3 DEF Held
<1>6. Alone'
  BY <1>2, <1>4, <1>5 DEF Alone
<1>7. FreshOK'
  <2> SUFFICES ASSUME NEW d \in Device PROVE FreshOK!(d)'
    BY DEF FreshOK
  <2>0. \/ fresh'[d] = IF Contains(fresh[d], w)
                       THEN SubSeq(fresh[d], Place(fresh[d], w) + 1, Len(fresh[d])) ELSE fresh[d]
        \/ fresh'[d] = IF Contains(fresh[d], w)
                       THEN RemoveAt(fresh[d], Place(fresh[d], w)) ELSE fresh[d]
    BY DEF CommitRows, Fail
  <2>1. \A v \in Worker : fresh[d] = <<v>> => /\ rows[v][d] # None
                                             /\ \A u \in Worker : u # v => rows[u][d] = None
    <3>1. ASSUME NEW v \in Worker, fresh[d] = <<v>>, NEW u \in Worker, u # v
          PROVE  rows[v][d] # None /\ rows[u][d] = None
      <4>1. PICK x \in Worker : fresh[d] = <<x>> /\ rows[x][d] # None
        BY <1>2, <3>1 DEF FreshOK
      <4>2. x = v
        BY <3>1, <4>1
      <4> QED
        BY <1>2, <3>1, <4>1, <4>2 DEF Alone, Held
    <3>2. ASSUME NEW v \in Worker, fresh[d] = <<v>> PROVE rows[v][d] # None
      <4>1. PICK x \in Worker : fresh[d] = <<x>> /\ rows[x][d] # None
        BY <1>2, <3>2 DEF FreshOK
      <4> QED
        BY <3>2, <4>1
    <3> QED
      BY <3>1, <3>2
  <2>2. CASE fresh[d] = <<w>>
    <3>1. fresh'[d] = <<>>
      BY <2>0, <2>2, OneIsAll
    <3> QED
      BY <1>3, <2>1, <2>2, <3>1
  <2>3. ASSUME NEW v \in Worker, v # w, fresh[d] = <<v>> PROVE FreshOK!(d)'
    <3>1. fresh'[d] = <<v>>
      BY <2>0, <2>3, OneIsAll
    <3> QED
      BY <1>3, <2>1, <2>3, <3>1
  <2>4. CASE fresh[d] = <<>> /\ \A v \in Worker : rows[v][d] = None
    <3>1. fresh'[d] = <<>>
      BY <2>0, <2>4, OneIsAll
    <3> QED
      BY <1>3, <2>4, <3>1
  <2> QED
    BY <1>2, <2>2, <2>3, <2>4 DEF FreshOK
<1>8. SeenOK'
  <2> SUFFICES ASSUME NEW v \in Worker, pc'[v] \in Busy
               PROVE  seen'[v] = latest'[cur'[v]]
    BY DEF SeenOK
  <2>1. /\ v # w /\ pc'[v] = pc[v] /\ cur'[v] = cur[v] /\ seen'[v] = seen[v]
    BY <1>1 DEF Finish, StepDone, Goto, TypeOK, Busy
  <2>2. cur[v] \in Device /\ rows[w][cur[v]] = None
    BY <1>2, <2>1, InHand DEF Alone, Held
  <2>3. ~Contains(fresh[cur[v]], w)
    <3>1. CASE fresh[cur[v]] = <<>>
      BY <3>1, OneIsAll
    <3>2. ASSUME NEW x \in Worker, fresh[cur[v]] = <<x>>, rows[x][cur[v]] # None
          PROVE  ~Contains(fresh[cur[v]], w)
      BY <2>2, <3>2, OneIsAll
    <3> QED
      BY <1>2, <2>2, <3>1, <3>2 DEF FreshOK
  <2>4. latest'[cur[v]] = latest[cur[v]]
    BY <2>2, <2>3 DEF CommitRows, Fail
  <2> QED
    BY <1>2, <2>1, <2>4 DEF SeenOK
<1>9. "crossed" \notin mishaps'
  BY <1>2 DEF CommitRows, Fail, Mark
<1> QED
  BY <1>6, <1>7, <1>8, <1>9

\* Every step keeps batches apart that share no device.
LEMMA AloneInvStep ==
  ASSUME TypeInv, AloneInv, [Next]_vars
  PROVE  AloneInv'
<1>1. ASSUME UNCHANGED <<mishaps, got, rows, fresh, pc, seen, latest, cur>> PROVE AloneInv'
  BY <1>1 DEF AloneInv, Alone, Held, FreshOK, SeenOK
<1>2. ASSUME NEW d \in Device, DeviceChange(d) PROVE AloneInv'
  BY <1>1, <1>2 DEF DeviceChange, batch, step, open, database
<1>3. ASSUME NEW w \in Worker, Work(w) PROVE AloneInv'
  BY <1>3, MoveAlone, RowAlone, EndAlone DEF Work
<1>4. CASE UNCHANGED vars
  BY <1>1, <1>4 DEF vars, batch, step, open, database
<1> QED
  BY <1>2, <1>3, <1>4, BeginAlone, EndAlone DEF Next
LastFacts ==
  TypeOK => \A d \in Device : /\ \A n \in DOMAIN log : IsLast(n, d) => LastCommit(d) = n
                              /\ Untouched(d) => LastCommit(d) = 0

\* These facts hold in every state.
LEMMA LastFactsHold == LastFacts
BY LastIs, LastIsNone DEF LastFacts

\* A commit becomes the last one of the files it changes, and of no other.
LEMMA LastCommitStep ==
  ASSUME TypeInv, TypeOK', log' = Append(log, index), NEW d \in Device
  PROVE  /\ index[d] # HeadFile(d) => LastCommit(d)' = Len(log) + 1
         /\ index[d] = HeadFile(d) => LastCommit(d)' = LastCommit(d)
         /\ LastCommit(d) \in 0..Len(log)
<1>1. LastFacts'
  BY LastFactsHold, PTL
<1>2. /\ \A n \in DOMAIN log' : IsLast(n, d)' => LastCommit(d)' = n
      /\ Untouched(d)' => LastCommit(d)' = 0
  BY <1>1 DEF LastFacts
<1>3. /\ Len(log) + 1 \in Nat /\ Len(log) + 1 \in DOMAIN log'
      /\ DOMAIN log \subseteq DOMAIN log' /\ DOMAIN log = 1..Len(log)
  BY DEF TypeInv, TypeOK
<1>4. index[d] # HeadFile(d) => LastCommit(d)' = Len(log) + 1
  BY <1>2, <1>3, CommitLast
<1>5. CASE Untouched(d)
  <2>1. LastCommit(d) = 0
    BY <1>5, LastIsNone
  <2> QED
    BY <1>2, <1>3, <1>4, <1>5, <2>1, CommitLast
<1>6. ASSUME NEW n \in DOMAIN log, IsLast(n, d)
      PROVE  /\ index[d] = HeadFile(d) => LastCommit(d)' = LastCommit(d)
             /\ LastCommit(d) \in 0..Len(log)
  <2>1. LastCommit(d) = n
    BY <1>6, LastIs DEF TypeInv
  <2> QED
    BY <1>2, <1>3, <1>6, <2>1, CommitLast
<1> QED
  BY <1>4, <1>5, <1>6 DEF TypeInv, LastInv

\* What the database records of d does not go past the latest row, which does not go past
\* the last commit; an open row names the last commit and records it once at most.
NewestOK(d) ==
  /\ latest[d] # None => latest[d].commit <= LastCommit(d)
  /\ \A i \in recorded[d] : latest[d] # None /\ i <= latest[d].commit
  /\ \A w \in Worker : rows[w][d] # None =>
       /\ rows[w][d].commit = LastCommit(d)
       /\ rows[w][d].changed => LastCommit(d) \notin recorded[d]

\* The row about to be inserted names the last commit, as a change if it is not recorded.
NextRowOK(w) ==
  pc[w] = "row" =>
    /\ sha[w] # 0 => sha[w] = LastCommit(cur[w]) /\ sha[w] \notin recorded[cur[w]]
    /\ sha[w] = 0 => seen[w] # None /\ seen[w].commit = LastCommit(cur[w])

Newest == (\A d \in Device : NewestOK(d)) /\ \A w \in Worker : NextRowOK(w)

NewestInv == Clean({"torn", "shared"}) => Newest

\* Steps that leave log, rows and records alone keep the newest rows newest.
LEMMA NewestKept ==
  ASSUME TypeInv, Newest, UNCHANGED <<log, latest, recorded>>, NEW w \in Worker,
         \A v \in Worker : v # w => Still(v), NextRowOK(w)',
         \A v \in Worker : \A d \in Device : rows'[v][d] \in {rows[v][d], None}
  PROVE  Newest'
<1>1. \A d : LastCommit(d)' = LastCommit(d)
  BY DEF LastCommit, At
<1>2. \A v \in Worker : NextRowOK(v)'
  BY <1>1 DEF Newest, NextRowOK, Still
<1>3. \A d \in Device : NewestOK(d)'
  <2> SUFFICES ASSUME NEW d \in Device PROVE NewestOK(d)'
    OBVIOUS
  <2>1. NewestOK(d)
    BY DEF Newest
  <2> QED
    BY <1>1, <2>1 DEF NewestOK
<1> QED
  BY <1>2, <1>3 DEF Newest
\* Steps after which the worker is not about to insert a row.
LEMMA QuietNewest ==
  ASSUME TypeInv, Newest, NEW w \in Worker,
         \/ \E ds \in Scope[w] : Begin(w, ds)
         \/ \E d \in Device : Pick(w, d)
         \/ Same(w) \/ Replace(w) \/ Add(w) \/ Fail(w)
  PROVE  Newest'
<1> USE DEF TypeInv, Goto, repo, batch, step, open, database
<1>1. UNCHANGED <<log, latest, recorded>> /\ pc'[w] # "row"
  BY DEF Begin, Pick, Same, Replace, Add, Fail, Finish, TypeOK
<1>2. ASSUME NEW v \in Worker, v # w PROVE Still(v)
  <2>1. CASE \E ds \in Scope[w] : Begin(w, ds)
    BY <1>2, <2>1 DEF Begin, Still, TypeOK
  <2>2. CASE \E d \in Device : Pick(w, d)
    BY <1>2, <2>2 DEF Pick, Still, TypeOK
  <2>3. CASE Same(w) \/ Replace(w) \/ Add(w)
    BY <1>2, <2>3 DEF Same, Replace, Add, Still, TypeOK
  <2>4. CASE Fail(w)
    BY <1>2, <2>4 DEF Fail, Finish, StepDone, Still, TypeOK
  <2> QED
    BY <2>1, <2>2, <2>3, <2>4
<1>3. NextRowOK(w)'
  BY <1>1 DEF NextRowOK
<1>4. \A v \in Worker : \A d \in Device : rows'[v][d] \in {rows[v][d], None}
  <2>1. rows' = rows \/ rows' = [rows EXCEPT ![w] = [d \in Device |-> None]]
    BY DEF Begin, Pick, Same, Replace, Add, Fail, Finish
  <2>2. rows \in [Worker -> [Device -> Row \cup {None}]]
    BY DEF TypeOK
  <2> QED
    BY <2>1, <2>2
<1> QED
  BY <1>1, <1>2, <1>3, <1>4, NewestKept

\* The last commit is adopted only when the latest row does not name it, and then it is
\* not recorded: what is recorded does not go past the latest row.
LEMMA AdoptNewest ==
  ASSUME TypeInv, Settled, Alone, SeenOK, Newest, NEW w \in Worker, Adopt(w)
  PROVE  Newest'
<1> DEFINE d == cur[w]
           head == LastCommit(cur[w])
<1>1. head # 0 /\ head \in Nat
  BY AdoptHead DEF Holds, TypeInv, TypeOK
<1> USE DEF TypeInv, Goto, repo, batch, open, database
<1>2. UNCHANGED <<log, latest, recorded, cur, seen, rows>> /\ pc'[w] = "row"
  BY DEF Adopt, TypeOK
<1>3. \A v \in Worker : v # w => Still(v)
  BY DEF Adopt, Still, TypeOK
<1>4. sha'[w] = IF seen[w] # None /\ seen[w].commit = head THEN 0 ELSE head
  BY DEF Adopt, TypeOK
<1>5. d \in Device /\ seen[w] = latest[d]
  BY InHand DEF Adopt, SeenOK, Busy
<1>6. NewestOK(d)
  BY <1>5 DEF Newest
<1>7. latest[d] # None => latest[d].commit \in Nat
  BY <1>5 DEF TypeOK, Row
<1>8. recorded[d] \subseteq Nat
  BY <1>5 DEF TypeOK
<1>9. ASSUME head \in recorded[d] PROVE seen[w] # None /\ seen[w].commit = head
  <2>1. latest[d] # None /\ head <= latest[d].commit /\ latest[d].commit <= head
    BY <1>6, <1>9 DEF NewestOK
  <2> QED
    BY <1>1, <1>5, <1>7, <2>1
<1>10. LastCommit(cur[w])' = head
  BY <1>2 DEF LastCommit, At
<1>11. NextRowOK(w)'
  <2> HIDE DEF head
  <2> QED
    BY <1>1, <1>2, <1>4, <1>9, <1>10 DEF NextRowOK
<1>12. \A v \in Worker : \A e \in Device : rows'[v][e] \in {rows[v][e], None}
  BY <1>2
<1> QED
  BY <1>2, <1>3, <1>11, <1>12, NewestKept

\* A new commit of a file only its holder has a row of is not recorded yet.
LEMMA CommitNewest ==
  ASSUME IInv, TypeInv, TypeOK', Settled, Alone, Newest, "torn" \notin mishaps,
         NEW w \in Worker, Commit(w)
  PROVE  Newest'
<1> USE DEF TypeInv, Goto, repo, batch, step, open, database
<1>1. /\ UNCHANGED <<latest, recorded, rows, got, cur, seen>>
      /\ log' = Append(log, index) /\ pc'[w] = "row" /\ pc[w] = "commit"
      /\ sha'[w] = Len(log) + 1
  BY DEF Commit, TypeOK
<1>2. cur[w] \in Device /\ lock = w /\ lock # None
  BY <1>1, BackupAssumption DEF WorkInv, Busy, IInv, LockInv
<1>3. index[cur[w]] # HeadFile(cur[w])
  BY <1>1, <1>2 DEF IInv, RepoInv, Settled, WorkerOK
<1>4. \A d \in Device : d # cur[w] => index[d] = HeadFile(d)
  BY <1>2 DEF IInv, RepoInv
<1>5. /\ LastCommit(cur[w])' = Len(log) + 1 /\ Len(log) \in Nat
      /\ \A d \in Device : d # cur[w] => LastCommit(d)' = LastCommit(d)
      /\ \A d \in Device : LastCommit(d) \in 0..Len(log)
  <2>1. ASSUME NEW d \in Device
        PROVE  /\ LastCommit(d)' = IF d = cur[w] THEN Len(log) + 1 ELSE LastCommit(d)
               /\ LastCommit(d) \in 0..Len(log)
    BY <1>1, <1>3, <1>4, LastCommitStep
  <2>2. cur' = cur
    BY <1>1
  <2> QED
    BY <1>2, <2>1, <2>2 DEF TypeOK
<1>6. \A v \in Worker : rows[v][cur[w]] = None
  BY <1>1, <1>2, InHand DEF Alone, Held, Busy
<1>7. \A v \in Worker : v # w /\ pc[v] = "row" => cur[v] \in Device /\ cur[v] # cur[w]
  BY <1>1, InHand DEF Alone, Busy
<1>8. ASSUME NEW d \in Device PROVE NewestOK(d)'
  <2>1. NewestOK(d)
    BY DEF Newest
  <2>2. latest[d] # None => latest[d].commit \in Nat
    BY DEF TypeOK, Row
  <2>3. CASE d = cur[w]
    BY <1>1, <1>5, <1>6, <2>1, <2>2, <2>3 DEF NewestOK
  <2>4. CASE d # cur[w]
    BY <1>1, <1>5, <2>1, <2>4 DEF NewestOK
  <2> QED
    BY <2>3, <2>4
<1>9. NextRowOK(w)'
  <2>1. NewestOK(cur[w]) /\ recorded[cur[w]] \subseteq Nat
    BY <1>2 DEF Newest, TypeOK
  <2>2. latest[cur[w]] # None => latest[cur[w]].commit \in Nat
    BY <1>2 DEF TypeOK, Row
  <2>3. Len(log) + 1 \notin recorded[cur[w]]
    BY <1>2, <1>5, <2>1, <2>2 DEF NewestOK
  <2> QED
    BY <1>1, <1>5, <2>3 DEF NextRowOK
<1>10. ASSUME NEW v \in Worker, v # w PROVE NextRowOK(v)'
  <2>1. pc'[v] = pc[v] /\ sha'[v] = sha[v]
    BY <1>10 DEF Commit, TypeOK
  <2>2. NextRowOK(v)
    BY DEF Newest
  <2> QED
    BY <1>1, <1>5, <1>7, <1>10, <2>1, <2>2 DEF NextRowOK
<1> QED
  BY <1>8, <1>9, <1>10 DEF Newest

\* The row that was due.
LEMMA RowNewest ==
  ASSUME TypeInv, Settled, Newest, NEW w \in Worker, InsertRow(w)
  PROVE  Newest'
<1>1. /\ cur[w] \in Device
      /\ rows' = [rows EXCEPT ![w] = [rows[w] EXCEPT ![cur[w]] = NewRow(w)]]
  BY NewRowIs
<1> USE DEF TypeInv, Goto, repo, batch, step, database
<1>2. UNCHANGED <<log, latest, recorded>> /\ pc'[w] = "pick" /\ pc[w] = "row"
  BY DEF InsertRow, TypeOK
<1>3. \A v \in Worker : v # w => Still(v)
  BY DEF InsertRow, StepDone, Still, TypeOK
<1>4. \A d : LastCommit(d)' = LastCommit(d)
  BY <1>2 DEF LastCommit, At
<1>5. \A v \in Worker : NextRowOK(v)'
  BY <1>2, <1>3, <1>4 DEF Newest, NextRowOK, Still
<1>6. /\ NewRow(w).commit = LastCommit(cur[w])
      /\ NewRow(w).changed => LastCommit(cur[w]) \notin recorded[cur[w]]
  <2>1. NextRowOK(w) /\ WorkerOK(w)
    BY DEF Newest, Settled
  <2>2. CASE sha[w] # 0
    BY <1>2, <2>1, <2>2 DEF NextRowOK, NewRow
  <2>3. CASE sha[w] = 0
    <3>1. seen[w] # None /\ seen[w].commit # 0 /\ seen[w].commit = LastCommit(cur[w])
      BY <1>2, <2>1, <2>3 DEF NextRowOK, WorkerOK, Holds, TypeOK
    <3> QED
      BY <2>3, <3>1 DEF NewRow, KnownCommit
  <2> QED
    BY <2>2, <2>3
<1>7. rows \in [Worker -> [Device -> Row \cup {None}]]
  BY DEF TypeOK
<1>8. ASSUME NEW d \in Device PROVE NewestOK(d)'
  <2>1. NewestOK(d)
    BY DEF Newest
  <2>2. \A v \in Worker : rows'[v][d] = IF v = w /\ d = cur[w] THEN NewRow(w) ELSE rows[v][d]
    BY <1>1, <1>7
  <2> QED
    BY <1>2, <1>4, <1>6, <2>1, <2>2 DEF NewestOK
<1> QED
  BY <1>5, <1>8 DEF Newest

\* An open row that becomes the latest one names the last commit: what is recorded
\* follows.
LEMMA EndNewest ==
  ASSUME TypeInv, Alone, FreshOK, Newest, NEW w \in Worker, CommitRows(w)
  PROVE  Newest'
<1> USE DEF TypeInv, repo, database
<1>1. log' = log /\ pc'[w] = "idle"
  BY DEF CommitRows, Finish, Goto, TypeOK
<1>2. \A v \in Worker : v # w => Still(v) /\ rows'[v] = rows[v]
  BY DEF CommitRows, Finish, StepDone, Goto, Still, TypeOK
<1>3. \A d \in Device : rows'[w][d] = None
  BY DEF CommitRows, Finish, TypeOK
<1>4. \A d : LastCommit(d)' = LastCommit(d)
  BY <1>1 DEF LastCommit, At
<1>5. ASSUME NEW d \in Device, rows[w][d] = None
      PROVE  latest'[d] = latest[d] /\ recorded'[d] = recorded[d]
  <2>1. ~Contains(fresh[d], w)
    <3>1. CASE fresh[d] = <<>>
      BY <3>1, OneIsAll
    <3>2. ASSUME NEW x \in Worker, fresh[d] = <<x>>, rows[x][d] # None
          PROVE  ~Contains(fresh[d], w)
      BY <1>5, <3>2, OneIsAll
    <3> QED
      BY <3>1, <3>2 DEF FreshOK
  <2> QED
    BY <1>5, <2>1 DEF CommitRows
<1>6. ASSUME NEW d \in Device, rows[w][d] # None
      PROVE  /\ latest'[d] = rows[w][d]
             /\ recorded'[d] \subseteq recorded[d] \cup {rows[w][d].commit}
             /\ \A v \in Worker : rows'[v][d] = None
  <2>1. \A v \in Worker : v # w => rows[v][d] = None
    BY <1>6 DEF Alone, Held
  <2>2. fresh[d] = <<w>>
    BY <1>6, <2>1 DEF FreshOK
  <2>3. Contains(fresh[d], w)
    BY <2>2, OneIsAll
  <2> QED
    BY <1>2, <1>3, <2>1, <2>3 DEF CommitRows
<1>7. ASSUME NEW d \in Device PROVE NewestOK(d)'
  <2>1. NewestOK(d)
    BY DEF Newest
  <2>2. CASE rows[w][d] = None
    BY <1>2, <1>3, <1>4, <1>5, <2>1, <2>2 DEF NewestOK
  <2>3. CASE rows[w][d] # None
    <3>1. /\ latest[d] # None => latest[d].commit \in Nat
          /\ LastCommit(d) \in Nat /\ recorded[d] \subseteq Nat
      BY LastCommitHolds DEF TypeOK, Row
    <3>2. rows[w][d].commit = LastCommit(d)
      BY <2>1, <2>3 DEF NewestOK
    <3>3. \A i \in recorded[d] : i <= LastCommit(d)
      BY <2>1, <3>1 DEF NewestOK
    <3> QED
      BY <1>4, <1>6, <2>3, <3>1, <3>2, <3>3 DEF NewestOK
  <2> QED
    BY <2>2, <2>3
<1>8. ASSUME NEW v \in Worker PROVE NextRowOK(v)'
  <2>1. CASE v = w
    BY <1>1, <2>1 DEF NextRowOK
  <2>2. CASE v # w /\ pc[v] = "row"
    <3>1. cur[v] \in Device /\ rows[w][cur[v]] = None
      BY <2>2, InHand DEF Alone, Held, Busy
    <3>2. recorded'[cur[v]] = recorded[cur[v]]
      BY <1>5, <3>1
    <3>3. NextRowOK(v) /\ Still(v)
      BY <1>2, <2>2 DEF Newest
    <3> QED
      BY <1>4, <3>2, <3>3 DEF NextRowOK, Still
  <2>3. CASE v # w /\ pc[v] # "row"
    BY <1>2, <2>3 DEF NextRowOK, Still
  <2> QED
    BY <2>1, <2>2, <2>3
<1> QED
  BY <1>7, <1>8 DEF Newest

OnceInv == IInv /\ TypeInv /\ RowInv /\ AloneInv /\ NewestInv

\* Every step keeps all that recording once rests on.
LEMMA OnceInvStep ==
  ASSUME OnceInv, [Next]_vars
  PROVE  OnceInv'
<1>1. IInv' /\ TypeInv' /\ RowInv' /\ AloneInv'
  BY BackupAssumption, IInvStep, TypeInvStep, RowInvStep, AloneInvStep DEF OnceInv
<1>2. NewestInv'
  <2> SUFFICES ASSUME Clean({"torn", "shared"})' PROVE Newest'
    BY DEF NewestInv
  <2>1. mishaps \subseteq mishaps'
    BY DEF Next, Work, vars, DeviceChange, Begin, Pick, Same, Replace, Add, Commit, Adopt,
           InsertRow, CommitRows, Fail, Mark
  <2>2. /\ Newest /\ Settled /\ Alone /\ FreshOK /\ SeenOK /\ "torn" \notin mishaps
        /\ IInv /\ TypeInv
    BY <2>1 DEF OnceInv, NewestInv, RowInv, AloneInv, Clean
  <2>3. TypeOK'
    BY <1>1 DEF TypeInv
  <2>4. ASSUME UNCHANGED <<log, latest, recorded, rows, pc, cur, got, sha, seen>> PROVE Newest'
    <3>1. \A d : LastCommit(d)' = LastCommit(d)
      BY <2>4 DEF LastCommit, At
    <3>2. \A w \in Worker : NextRowOK(w)'
      BY <2>2, <2>4, <3>1 DEF Newest, NextRowOK
    <3>3. \A d \in Device : NewestOK(d)'
      BY <2>2, <2>4, <3>1 DEF Newest, NewestOK
    <3> QED
      BY <3>2, <3>3 DEF Newest
  <2>5. ASSUME NEW d \in Device, DeviceChange(d) PROVE Newest'
    BY <2>4, <2>5 DEF DeviceChange, repo, batch, step, open, database
  <2>6. ASSUME NEW w \in Worker, NEW ds \in Scope[w], Begin(w, ds) PROVE Newest'
    BY <2>2, <2>6, QuietNewest
  <2>7. ASSUME NEW w \in Worker, Work(w) PROVE Newest'
    BY <2>2, <2>3, <2>7, QuietNewest, CommitNewest, AdoptNewest, RowNewest, EndNewest DEF Work
  <2>8. ASSUME NEW w \in Worker, Fail(w) PROVE Newest'
    BY <2>2, <2>8, QuietNewest
  <2>9. ASSUME UNCHANGED vars PROVE Newest'
    BY <2>4, <2>9 DEF vars, repo, batch, step, open, database
  <2> QED
    BY <2>5, <2>6, <2>7, <2>8, <2>9 DEF Next
<1> QED
  BY <1>1, <1>2 DEF OnceInv

\* A commit is recorded as a change at most once, by the attempt that made it or by the
\* retry that adopts it, unless two batches held the device at the same time or one died
\* inside write().
THEOREM Once == Spec => []RecordedOnce
<1>1. Init => IInv /\ TypeInv
  BY BackupAssumption, IInvInit, TypeInvInit
<1>2. Init => RowInv /\ AloneInv
  BY DEF Init, RowInv, Settled, RowsOK, RowOK, WorkerOK, AloneInv, Alone, Held, FreshOK, SeenOK, Busy
<1>3. Init => NewestInv
  BY DEF Init, NewestInv, Newest, NewestOK, NextRowOK
<1>4. Init => OnceInv
  BY <1>1, <1>2, <1>3 DEF OnceInv
<1>5. OnceInv /\ [Next]_vars => OnceInv'
  BY OnceInvStep
<1>6. OnceInv => RecordedOnce
  BY DEF OnceInv, NewestInv, Newest, NewestOK, RecordedOnce
<1> QED
  BY <1>4, <1>5, <1>6, PTL DEF Spec
-----------------------------------------------------------------------------
(* The history. *)

\* A worker stands once among the open rows of a device, and has one.
Distinct(s) == \A i, j \in 1..Len(s) : s[i] = s[j] => i = j

FreshInv ==
  \A d \in Device :
    Distinct(fresh[d]) /\ \A w \in Worker : Contains(fresh[d], w) => rows[w][d] # None

\* Leaving one place out, or all up to it, repeats nothing.
LEMMA Remaining ==
  ASSUME NEW n \in Nat, NEW p \in 1..n, NEW f, \A i, j \in 1..n : f[i] = f[j] => i = j,
         NEW m \in 0..n, NEW g,
         \/ m = n - p /\ \A i \in 1..m : g[i] = f[p + i]
         \/ m = n - 1 /\ \A i \in 1..m : g[i] = IF i < p THEN f[i] ELSE f[i + 1]
  PROVE  /\ \A i, j \in 1..m : g[i] = g[j] => i = j
         /\ \A i \in 1..m : g[i] # f[p] /\ \E j \in 1..n : g[i] = f[j]
<1>1. ASSUME NEW i \in 1..m, NEW j \in 1..m, g[i] = g[j] PROVE i = j
  BY <1>1
<1>2. ASSUME NEW i \in 1..m PROVE g[i] # f[p] /\ \E j \in 1..n : g[i] = f[j]
  <2>1. CASE m = n - p /\ g[i] = f[p + i]
    <3>1. p + i \in 1..n /\ p + i # p
      BY <2>1
    <3> QED
      BY <2>1, <3>1
  <2>2. CASE m = n - 1 /\ i < p /\ g[i] = f[i]
    <3>1. i \in 1..n /\ i # p
      BY <2>2
    <3> QED
      BY <2>2, <3>1
  <2>3. CASE m = n - 1 /\ ~(i < p) /\ g[i] = f[i + 1]
    <3>1. i + 1 \in 1..n /\ i + 1 # p
      BY <2>3
    <3> QED
      BY <2>3, <3>1
  <2> QED
    BY <2>1, <2>2, <2>3
<1> QED
  BY <1>1, <1>2

\* The beginning and the end of a sequence of workers.
LEMMA Ends ==
  ASSUME NEW s \in Seq(Worker), NEW p \in 1..Len(s)
  PROVE  /\ SubSeq(s, 1, p - 1) \in Seq(Worker) /\ Len(SubSeq(s, 1, p - 1)) = p - 1
         /\ \A i \in 1..(p - 1) : SubSeq(s, 1, p - 1)[i] = s[i]
         /\ SubSeq(s, p + 1, Len(s)) \in Seq(Worker)
         /\ Len(SubSeq(s, p + 1, Len(s))) = Len(s) - p
         /\ \A i \in 1..(Len(s) - p) : SubSeq(s, p + 1, Len(s))[i] = s[p + i]
OBVIOUS

\* The two joined leave out the place between them.
LEMMA Joined ==
  ASSUME NEW n \in Nat, NEW p \in 1..n, NEW s,
         NEW a \in Seq(Worker), Len(a) = p - 1, \A i \in 1..(p - 1) : a[i] = s[i],
         NEW b \in Seq(Worker), Len(b) = n - p, \A i \in 1..(n - p) : b[i] = s[p + i]
  PROVE  /\ Len(a \o b) = n - 1
         /\ \A i \in 1..(n - 1) : (a \o b)[i] = IF i < p THEN s[i] ELSE s[i + 1]
<1>1. /\ Len(a \o b) = n - 1
      /\ \A i \in 1..(n - 1) : (a \o b)[i] = IF i <= p - 1 THEN a[i] ELSE b[i - (p - 1)]
  BY ConcatProperties
<1>2. ASSUME NEW i \in 1..(n - 1), ~(i < p) PROVE b[i - (p - 1)] = s[i + 1]
  <2>1. i - (p - 1) \in 1..(n - p) /\ p + (i - (p - 1)) = i + 1
    BY <1>2
  <2> QED
    BY <2>1
<1> QED
  BY <1>1, <1>2

\* What is left of the open rows without one of them.
LEMMA WithoutPlace ==
  ASSUME NEW s \in Seq(Worker), Distinct(s), NEW w, Contains(s, w),
         NEW t, \/ t = SubSeq(s, Place(s, w) + 1, Len(s))
                \/ t = RemoveAt(s, Place(s, w))
  PROVE  Distinct(t) /\ ~Contains(t, w) /\ \A v : Contains(t, v) => Contains(s, v)
<1>1. PICK p \in 1..Len(s) : p = Place(s, w) /\ s[p] = w
  BY PlaceOf
<1>2. \/ /\ Len(t) = Len(s) - p
         /\ \A i \in 1..Len(t) : t[i] = s[p + i]
      \/ /\ Len(t) = Len(s) - 1
         /\ \A i \in 1..Len(t) : t[i] = IF i < p THEN s[i] ELSE s[i + 1]
  <2>1. CASE t = SubSeq(s, p + 1, Len(s))
    BY <2>1, Ends
  <2>2. CASE t = SubSeq(s, 1, p - 1) \o SubSeq(s, p + 1, Len(s))
    <3>1. p \in 1..Len(s) /\ Len(s) \in Nat
      BY <1>1
    <3>2. PICK a \in Seq(Worker), b \in Seq(Worker) :
            /\ t = a \o b
            /\ Len(a) = p - 1 /\ \A i \in 1..(p - 1) : a[i] = s[i]
            /\ Len(b) = Len(s) - p /\ \A i \in 1..(Len(s) - p) : b[i] = s[p + i]
      BY <2>2, <3>1, Ends
    <3>3. PICK n \in Nat : n = Len(s) /\ p \in 1..n
      BY <3>1
    <3>4. /\ Len(b) = n - p /\ \A i \in 1..(n - p) : b[i] = s[p + i]
      BY <3>2, <3>3
    <3>5. /\ Len(a \o b) = n - 1
          /\ \A i \in 1..(n - 1) : (a \o b)[i] = IF i < p THEN s[i] ELSE s[i + 1]
      BY <3>2, <3>3, <3>4, Joined
    <3> QED
      BY <3>2, <3>3, <3>5
  <2> QED
    BY <1>1, <2>1, <2>2 DEF RemoveAt
<1>3. Len(s) \in Nat /\ Len(t) \in 0..Len(s)
  BY <1>1, <1>2
<1>4. /\ \A i, j \in 1..Len(t) : t[i] = t[j] => i = j
      /\ \A i \in 1..Len(t) : t[i] # s[p] /\ \E j \in 1..Len(s) : t[i] = s[j]
  <2>1. PICK n \in Nat, m \in Nat : n = Len(s) /\ m = Len(t) /\ m \in 0..n /\ p \in 1..n
    BY <1>1, <1>3
  <2>2. \A i, j \in 1..n : s[i] = s[j] => i = j
    BY <2>1 DEF Distinct
  <2>3. \/ m = n - p /\ \A i \in 1..m : t[i] = s[p + i]
        \/ m = n - 1 /\ \A i \in 1..m : t[i] = IF i < p THEN s[i] ELSE s[i + 1]
    BY <1>2, <2>1
  <2>4. /\ \A i, j \in 1..m : t[i] = t[j] => i = j
        /\ \A i \in 1..m : t[i] # s[p] /\ \E j \in 1..n : t[i] = s[j]
    BY <2>1, <2>2, <2>3, Remaining
  <2> QED
    BY <2>1, <2>4
<1> QED
  BY <1>1, <1>4 DEF Distinct, Contains

\* A row joins the open ones of its device at the end.
LEMMA RowFresh ==
  ASSUME TypeInv, FreshInv, NEW w \in Worker, InsertRow(w)
  PROVE  FreshInv'
<1>1. /\ cur[w] \in Device /\ NewRow(w) # None
      /\ rows' = [rows EXCEPT ![w] = [rows[w] EXCEPT ![cur[w]] = NewRow(w)]]
  BY NewRowIs, RowAssumption
<1>2. rows[w][cur[w]] = None
  BY InHand DEF InsertRow, Busy
<1>3. fresh' = [fresh EXCEPT ![cur[w]] = Append(fresh[cur[w]], w)]
  BY DEF InsertRow
<1>4. rows \in [Worker -> [Device -> Row \cup {None}]] /\ fresh \in [Device -> Seq(Worker)]
  BY DEF TypeInv, TypeOK
<1> SUFFICES ASSUME NEW d \in Device PROVE FreshInv!(d)'
  BY DEF FreshInv
<1>5. CASE d = cur[w]
  <2> PICK s \in Seq(Worker) : s = fresh[d]
    BY <1>4
  <2> PICK n \in Nat : n = Len(s)
    OBVIOUS
  <2>1. /\ fresh'[d] = Append(s, w) /\ Distinct(s) /\ \A i \in 1..n : s[i] # w
        /\ \A v \in Worker : Contains(s, v) => rows[v][d] # None
    BY <1>2, <1>3, <1>4, <1>5 DEF FreshInv, Contains
  <2>2. Len(Append(s, w)) = n + 1 /\ \A i \in 1..(n + 1) : Append(s, w)[i] = IF i = n + 1 THEN w ELSE s[i]
    OBVIOUS
  <2>3. Distinct(Append(s, w))
    BY <2>1, <2>2 DEF Distinct
  <2>4. \A v \in Worker : Contains(Append(s, w), v) => v = w \/ Contains(s, v)
    BY <2>2 DEF Contains
  <2>5. \A v \in Worker : rows'[v][d] = IF v = w THEN NewRow(w) ELSE rows[v][d]
    BY <1>1, <1>4, <1>5
  <2> QED
    BY <1>1, <2>1, <2>3, <2>4, <2>5
<1>6. CASE d # cur[w]
  <2>1. fresh'[d] = fresh[d] /\ \A v \in Worker : rows'[v][d] = rows[v][d]
    BY <1>1, <1>3, <1>4, <1>6
  <2> QED
    BY <2>1 DEF FreshInv
<1> QED
  BY <1>5, <1>6

\* A batch that ends takes its rows from the open ones.
LEMMA EndFresh ==
  ASSUME TypeInv, FreshInv, NEW w \in Worker, CommitRows(w) \/ Fail(w)
  PROVE  FreshInv'
<1>1. /\ \A v \in Worker : v # w => rows'[v] = rows[v]
      /\ \A d \in Device : fresh[d] \in Seq(Worker)
  BY DEF CommitRows, Fail, Finish, TypeInv, TypeOK
<1>2. \A d \in Device :
        IF Contains(fresh[d], w)
        THEN \/ fresh'[d] = SubSeq(fresh[d], Place(fresh[d], w) + 1, Len(fresh[d]))
             \/ fresh'[d] = RemoveAt(fresh[d], Place(fresh[d], w))
        ELSE fresh'[d] = fresh[d]
  BY DEF CommitRows, Fail
<1> SUFFICES ASSUME NEW d \in Device PROVE FreshInv!(d)'
  BY DEF FreshInv
<1> PICK s, t : s = fresh[d] /\ t = fresh'[d]
  OBVIOUS
<1>3. s \in Seq(Worker) /\ Distinct(s) /\ \A v \in Worker : Contains(s, v) => rows[v][d] # None
  BY <1>1 DEF FreshInv
<1>4. Distinct(t) /\ ~Contains(t, w) /\ \A v : Contains(t, v) => Contains(s, v)
  <2>1. CASE Contains(s, w)
    BY <1>2, <1>3, <2>1, WithoutPlace
  <2>2. CASE ~Contains(s, w)
    BY <1>2, <1>3, <2>2
  <2> QED
    BY <2>1, <2>2
<1> QED
  BY <1>1, <1>3, <1>4

\* Every step keeps the open rows in order.
LEMMA FreshInvStep ==
  ASSUME TypeInv, FreshInv, [Next]_vars
  PROVE  FreshInv'
<1>1. ASSUME UNCHANGED <<rows, fresh>> PROVE FreshInv'
  BY <1>1 DEF FreshInv
<1>2. ASSUME NEW w \in Worker, Work(w) \/ Fail(w) PROVE FreshInv'
  <2>1. CASE InsertRow(w)
    BY <2>1, RowFresh
  <2>2. CASE CommitRows(w) \/ Fail(w)
    BY <2>2, EndFresh
  <2>3. CASE ~(InsertRow(w) \/ CommitRows(w) \/ Fail(w))
    BY <1>1, <1>2, <2>3 DEF Work, Pick, Same, Replace, Add, Commit, Adopt, open
  <2> QED
    BY <2>1, <2>2, <2>3
<1>3. ASSUME NEW w \in Worker, NEW ds \in Scope[w], Begin(w, ds) PROVE FreshInv'
  BY <1>1, <1>3 DEF Begin, open
<1>4. ASSUME NEW d \in Device, DeviceChange(d) PROVE FreshInv'
  BY <1>1, <1>4 DEF DeviceChange, open
<1>5. CASE UNCHANGED vars
  BY <1>1, <1>5 DEF vars, open
<1> QED
  BY <1>2, <1>3, <1>4, <1>5 DEF Next

\* What a batch is about to note as a change, or has noted in an open row, is a commit
\* that changed the device's file.
NotedOK(w) ==
  /\ pc[w] = "row" /\ sha[w] # 0 => History!Touches(sha[w], cur[w])
  /\ \A d \in Device :
       rows[w][d] # None /\ rows[w][d].changed => History!Touches(rows[w][d].commit, d)

Noted == \A w \in Worker : NotedOK(w)

NotedInv == Clean({"torn", "crossed"}) => Noted

\* A commit stays a change of what it changed.
LEMMA TouchesStays ==
  ASSUME TypeInv, log' = log \/ log' = Append(log, index), NEW n, NEW d, History!Touches(n, d)
  PROVE  History!Touches(n, d)'
<1> USE DEF History!Touches, History!File
<1>1. CASE log' = log
  BY <1>1
<1>2. CASE log' = Append(log, index)
  <2> PICK k \in Nat : k = Len(log)
    BY DEF TypeInv, TypeOK
  <2>1. DOMAIN log = 1..k /\ DOMAIN log' = 1..(k + 1) /\ \A i \in 1..k : log'[i] = log[i]
    BY <1>2 DEF TypeInv, TypeOK
  <2>2. n \in 1..k /\ (n = 1 \/ n - 1 \in 1..k)
    BY <2>1
  <2> QED
    BY <2>1, <2>2
<1> QED
  BY <1>1, <1>2

\* A row noted before is noted rightly.
LEMMA RowsNoted ==
  ASSUME TypeInv, log' = log \/ log' = Append(log, index), NEW v \in Worker, NotedOK(v),
         \A d \in Device : rows'[v][d] \in {rows[v][d], None},
         \/ pc'[v] # "row"
         \/ pc'[v] = pc[v] /\ sha'[v] = sha[v] /\ cur'[v] = cur[v]
  PROVE  NotedOK(v)'
<1>1. ASSUME NEW d \in Device, rows'[v][d] # None, rows'[v][d].changed
      PROVE  History!Touches(rows[v][d].commit, d)'
  <2>1. PICK n : n = rows[v][d].commit
    OBVIOUS
  <2>2. rows'[v][d] = rows[v][d]
    BY <1>1
  <2>3. History!Touches(n, d)
    BY <1>1, <2>1, <2>2 DEF NotedOK
  <2>4. History!Touches(n, d)'
    BY <2>3, TouchesStays
  <2> QED
    BY <2>1, <2>2, <2>4 DEF History!Touches, History!File
<1>2. ASSUME pc'[v] = "row", sha'[v] # 0 PROVE History!Touches(sha[v], cur[v])'
  <2>1. PICK n, d : n = sha[v] /\ d = cur[v]
    OBVIOUS
  <2>2. n = sha'[v] /\ d = cur'[v] /\ History!Touches(n, d)
    BY <1>2, <2>1 DEF NotedOK
  <2>3. History!Touches(n, d)'
    BY <2>2, TouchesStays
  <2> QED
    BY <2>2, <2>3 DEF History!Touches, History!File
<1> QED
  BY <1>1, <1>2 DEF NotedOK

\* The file a commit changes, and to what: the whole index goes in, but only this file of
\* it differs from HEAD.
LEMMA CommitChanges ==
  ASSUME IInv, TypeInv, Settled, "torn" \notin mishaps, NEW w \in Worker, Commit(w)
  PROVE  /\ cur[w] \in Device /\ got[w][cur[w]] \in Content
         /\ got[w][cur[w]] # HeadFile(cur[w])
         /\ index = [d \in Device |-> IF d = cur[w] THEN got[w][cur[w]] ELSE HeadFile(d)]
<1>1. pc[w] = "commit" /\ lock = w /\ lock # None
  BY BackupAssumption DEF Commit, IInv, LockInv
<1>2. cur[w] \in Device /\ got[w][cur[w]] \in Content
  BY <1>1 DEF TypeInv, WorkInv, Busy
<1>3. worktree[cur[w]] = got[w][cur[w]] /\ HeadFile(cur[w]) # got[w][cur[w]]
  BY <1>1 DEF Settled, WorkerOK
<1>4. \A d \in Device : index[d] = IF d = cur[w] THEN got[w][cur[w]] ELSE HeadFile(d)
  BY <1>1, <1>2, <1>3 DEF IInv, RepoInv
<1> QED
  BY <1>2, <1>3, <1>4 DEF TypeInv, TypeOK

\* What is committed or adopted changed the file.
LEMMA WriterNoted ==
  ASSUME IInv, TypeInv, Settled, "torn" \notin mishaps, NEW w \in Worker, NotedOK(w),
         Commit(w) \/ Adopt(w)
  PROVE  NotedOK(w)'
<1>1. /\ rows' = rows /\ cur' = cur /\ cur[w] \in Device
      /\ log' = log \/ log' = Append(log, index)
  BY DEF Commit, Adopt, batch, open, repo, TypeInv, WorkInv, Busy
<1>2. ASSUME NEW d \in Device, rows'[w][d] # None, rows'[w][d].changed
      PROVE  History!Touches(rows[w][d].commit, d)'
  <2>1. PICK n : n = rows[w][d].commit
    OBVIOUS
  <2>2. History!Touches(n, d)
    BY <1>1, <1>2, <2>1 DEF NotedOK
  <2>3. History!Touches(n, d)'
    BY <1>1, <2>2, TouchesStays
  <2> QED
    BY <1>1, <2>1, <2>3 DEF History!Touches, History!File
<1>3. ASSUME sha'[w] # 0 PROVE History!Touches(sha[w], cur[w])'
  <2>1. CASE Commit(w)
    <3>1. PICK k \in Nat : k = Len(log)
      BY DEF TypeInv, TypeOK
    <3>2. sha'[w] = k + 1 /\ log' = Append(log, index)
      BY <2>1, <3>1 DEF Commit, TypeInv, TypeOK
    <3>3. k + 1 \in DOMAIN log' /\ log'[k + 1] = index /\ (k # 0 => log'[k] = log[k])
      BY <3>1, <3>2 DEF TypeInv, TypeOK
    <3>4. index[cur[w]] # IF k = 0 THEN Absent ELSE log[k][cur[w]]
      BY <2>1, <3>1, CommitChanges DEF HeadFile, At
    <3> QED
      BY <1>1, <3>2, <3>3, <3>4 DEF History!Touches, History!File
  <2>2. CASE Adopt(w)
    <3>1. sha'[w] = LastCommit(cur[w]) /\ log' = log
      BY <1>3, <2>2 DEF Adopt, repo, TypeInv, TypeOK
    <3>2. ~Untouched(cur[w])
      BY <1>1, <1>3, <3>1, LastIsNone
    <3>3. PICK n \in DOMAIN log : IsLast(n, cur[w])
      BY <1>1, <3>2 DEF TypeInv, LastInv
    <3>4. LastCommit(cur[w]) = n
      BY <1>1, <3>3, LastIs DEF TypeInv
    <3> QED
      BY <1>1, <3>1, <3>3, <3>4 DEF IsLast, At, History!Touches, History!File
  <2> QED
    BY <2>1, <2>2
<1> QED
  BY <1>1, <1>2, <1>3 DEF NotedOK

\* The row that is inserted notes what was committed or adopted.
LEMMA RowNoted ==
  ASSUME TypeInv, NEW w \in Worker, NotedOK(w), InsertRow(w)
  PROVE  NotedOK(w)'
<1>1. /\ cur[w] \in Device /\ log' = log /\ pc'[w] # "row" /\ pc[w] = "row"
      /\ rows' = [rows EXCEPT ![w] = [rows[w] EXCEPT ![cur[w]] = NewRow(w)]]
  BY NewRowIs DEF InsertRow, Goto, repo, TypeInv, TypeOK
<1>2. \A d \in Device : rows'[w][d] = IF d = cur[w] THEN NewRow(w) ELSE rows[w][d]
  BY <1>1 DEF TypeInv, TypeOK
<1>3. NewRow(w).changed => NewRow(w).commit = sha[w] /\ sha[w] # 0
  BY DEF NewRow
<1>4. \A d \in Device : rows'[w][d] # None /\ rows'[w][d].changed =>
        History!Touches(rows'[w][d].commit, d)
  BY <1>1, <1>2, <1>3 DEF NotedOK
<1> QED
  BY <1>1, <1>4 DEF NotedOK, History!Touches, History!File

\* Every step keeps what is noted in agreement with Git.
LEMMA NotedInvStep ==
  ASSUME IInv, TypeInv, RowInv, NotedInv, [Next]_vars
  PROVE  NotedInv'
<1> SUFFICES ASSUME Clean({"torn", "crossed"})'
             PROVE  Noted'
  BY DEF NotedInv
<1>1. mishaps \subseteq mishaps'
  BY DEF Next, Work, vars, DeviceChange, Begin, Pick, Same, Replace, Add, Commit, Adopt,
         InsertRow, CommitRows, Fail, Mark
<1>2. Noted /\ Settled /\ "torn" \notin mishaps
  BY <1>1 DEF NotedInv, RowInv, Clean
<1>3. log' = log \/ log' = Append(log, index)
  BY DEF Next, Work, vars, repo, DeviceChange, Begin, Pick, Same, Replace, Add, Commit, Adopt,
         InsertRow, CommitRows, Fail
<1>4. ASSUME UNCHANGED <<pc, rows, sha, cur>> PROVE Noted'
  BY <1>2, <1>3, <1>4, RowsNoted DEF Noted
<1>5. ASSUME NEW d \in Device, DeviceChange(d) PROVE Noted'
  BY <1>4, <1>5 DEF DeviceChange, step, open
<1>6. ASSUME UNCHANGED vars PROVE Noted'
  BY <1>4, <1>6 DEF vars, step, open
<1>7. ASSUME NEW w \in Worker,
             \/ \E ds \in Scope[w] : Begin(w, ds)
             \/ Work(w) \/ Fail(w)
      PROVE  Noted'
  <2> USE DEF Begin, Pick, Same, Replace, Add, Commit, Adopt, InsertRow, CommitRows, Fail,
              Finish, StepDone, Goto, batch, step, open
  <2>1. /\ pc \in [Worker -> Steps] /\ sha \in [Worker -> Nat]
        /\ cur \in [Worker -> Device \cup {None}]
        /\ rows \in [Worker -> [Device -> Row \cup {None}]]
    BY DEF TypeInv, TypeOK
  <2>2. ASSUME NEW v \in Worker, v # w PROVE NotedOK(v)'
    <3>1. pc'[v] = pc[v] /\ sha'[v] = sha[v] /\ cur'[v] = cur[v] /\ rows'[v] = rows[v]
      BY <1>7, <2>1, <2>2 DEF Work
    <3>2. NotedOK(v)
      BY <1>2 DEF Noted
    <3> QED
      BY <1>3, <3>1, <3>2, RowsNoted
  <2>3. NotedOK(w)'
    <3>1. NotedOK(w)
      BY <1>2 DEF Noted
    <3>2. CASE Commit(w) \/ Adopt(w)
      BY <1>2, <3>1, <3>2, WriterNoted
    <3>3. CASE InsertRow(w)
      BY <3>1, <3>3, RowNoted
    <3>4. CASE ~(Commit(w) \/ Adopt(w) \/ InsertRow(w))
      <4>1. /\ \E s \in Steps \ {"row"} : pc' = [pc EXCEPT ![w] = s]
            /\ rows' = rows \/ rows' = [rows EXCEPT ![w] = [d \in Device |-> None]]
        BY <1>7, <3>4 DEF Work, Steps
      <4>2. pc'[w] # "row" /\ \A d \in Device : rows'[w][d] \in {rows[w][d], None}
        BY <2>1, <4>1
      <4> QED
        BY <1>3, <3>1, <4>2, RowsNoted
    <3> QED
      BY <3>2, <3>3, <3>4
  <2> QED
    BY <2>2, <2>3 DEF Noted
<1> QED
  BY <1>5, <1>6, <1>7 DEF Next

HistoryInv == IInv /\ TypeInv /\ RowInv /\ FreshInv /\ NotedInv

\* What a batch makes visible is true of Git.
LEMMA RowsRecord ==
  ASSUME HistoryInv, Clean({"torn", "crossed"}), NEW w \in Worker, CommitRows(w)
  PROVE  History!Record
<1>1. Settled /\ Noted /\ log' = log /\ Clean({"torn", "crossed"})'
  BY DEF HistoryInv, RowInv, NotedInv, CommitRows, repo, Clean
<1>2. /\ latest \in [Device -> Row \cup {None}] /\ recorded \in [Device -> SUBSET Nat]
      /\ rows \in [Worker -> [Device -> Row \cup {None}]]
  BY DEF HistoryInv, TypeInv, TypeOK
<1>3. ASSUME NEW d \in Device
      PROVE  /\ recorded[d] \subseteq recorded'[d]
             /\ \A i \in recorded'[d] \ recorded[d] : History!Touches(i, d)
  <2>1. recorded'[d] = IF rows[w][d] # None /\ rows[w][d].changed
                       THEN recorded[d] \cup {rows[w][d].commit} ELSE recorded[d]
    BY DEF CommitRows
  <2> QED
    BY <1>1, <2>1 DEF Noted, NotedOK
<1>4. ASSUME NEW d \in Device, latest'[d] # latest[d]
      PROVE  /\ latest'[d].commit \in DOMAIN log
             /\ log[latest'[d].commit][d] = latest'[d].content
             /\ latest'[d].changed => latest'[d].commit \in recorded'[d]
  <2>1. latest'[d] = rows[w][d] /\ Contains(fresh[d], w)
    BY <1>4 DEF CommitRows
  <2>2. rows[w][d] # None
    BY <2>1 DEF HistoryInv, FreshInv
  <2>3. Holds(rows[w][d].commit, d, rows[w][d].content)
    BY <1>1, <2>2 DEF Settled, RowsOK, RowOK
  <2>4. rows[w][d].changed => rows[w][d].commit \in recorded'[d]
    BY <2>2 DEF CommitRows
  <2> QED
    BY <2>1, <2>3, <2>4 DEF Holds
<1> QED
  BY <1>1, <1>3, <1>4 DEF History!Record

\* A commit makes a version in which one device differs.
LEMMA CommitStores ==
  ASSUME HistoryInv, Clean({"torn", "crossed"})', NEW w \in Worker, Commit(w)
  PROVE  \E d \in Device, c \in Content : History!Store(d, c)
<1>1. /\ Clean({"torn", "crossed"}) /\ "torn" \notin mishaps
      /\ log' = Append(log, index) /\ UNCHANGED <<latest, recorded>>
  BY DEF Clean, Commit, Mark, database
<1>2. IInv /\ TypeInv /\ Settled
  BY <1>1 DEF HistoryInv, RowInv
<1>3. /\ cur[w] \in Device /\ got[w][cur[w]] \in Content
      /\ got[w][cur[w]] # HeadFile(cur[w])
      /\ index = [d \in Device |-> IF d = cur[w] THEN got[w][cur[w]] ELSE HeadFile(d)]
  BY <1>1, <1>2, CommitChanges
<1>4. \A d : HeadFile(d) = History!File(Len(log), d)
  BY DEF HeadFile, At, History!File
<1>5. History!Store(cur[w], got[w][cur[w]])
  BY <1>1, <1>3, <1>4 DEF History!Store
<1> QED
  BY <1>3, <1>5

\* Every step of backups is a step of the history, or none.
LEMMA HistoryStep ==
  ASSUME HistoryInv, [Next]_vars
  PROVE  [History!Next]_(History!vars)
<1>1. CASE ~Clean({"torn", "crossed"})'
  BY <1>1 DEF History!Next, History!Break
<1>2. CASE Clean({"torn", "crossed"})'
  <2>1. Clean({"torn", "crossed"})
    <3>1. mishaps \subseteq mishaps'
      BY DEF Next, Work, vars, DeviceChange, Begin, Pick, Same, Replace, Add, Commit, Adopt,
             InsertRow, CommitRows, Fail, Mark
    <3> QED
      BY <1>2, <3>1 DEF Clean
  <2>2. ASSUME UNCHANGED <<log, latest, recorded>> PROVE UNCHANGED History!vars
    BY <1>2, <2>1, <2>2 DEF History!vars
  <2>3. ASSUME NEW w \in Worker, Commit(w) PROVE History!Next
    BY <1>2, <2>3, CommitStores DEF History!Next
  <2>4. ASSUME NEW w \in Worker, CommitRows(w) PROVE History!Next
    BY <2>1, <2>4, RowsRecord DEF History!Next
  <2>5. CASE ~\E w \in Worker : Commit(w) \/ CommitRows(w)
    <3>1. UNCHANGED <<log, latest, recorded>>
      BY <2>5 DEF Next, Work, vars, DeviceChange, Begin, Pick, Same, Replace, Add, Adopt,
         InsertRow, Fail, repo, database
    <3> QED
      BY <2>2, <3>1
  <2> QED
    BY <2>3, <2>4, <2>5
<1> QED
  BY <1>1, <1>2

\* All that the history rests on holds in every state.
LEMMA HistoryInvariant == Spec => []HistoryInv
<1>1. Init => IInv /\ TypeInv
  BY BackupAssumption, IInvInit, TypeInvInit
<1>2. Init => RowInv /\ FreshInv /\ NotedInv
  BY DEF Init, RowInv, Settled, RowsOK, RowOK, WorkerOK, FreshInv, Distinct, Contains,
         NotedInv, Noted, NotedOK
<1>3. Init => HistoryInv
  BY <1>1, <1>2 DEF HistoryInv
<1>4. HistoryInv /\ [Next]_vars => HistoryInv'
  BY BackupAssumption, IInvStep, TypeInvStep, RowInvStep, FreshInvStep, NotedInvStep DEF HistoryInv
<1> QED
  BY <1>3, <1>4, PTL DEF Spec

\* Repository and database implement the history: every commit changes the file of one
\* device, and every batch that becomes visible says what is true of Git, whatever
\* batches race, fail and are retried, unless one died inside write() or a commit crossed
\* an adoption of the same file.
THEOREM BackupImplements == Spec => ImplementsHistory
<1>1. Init => History!Init
  BY DEF Init, History!Init, Clean
<1>2. HistoryInv /\ [Next]_vars => [History!Next]_(History!vars)
  BY HistoryStep
<1> QED
  BY <1>1, <1>2, HistoryInvariant, PTL DEF Spec, ImplementsHistory, History!Spec

\* A step of the history keeps its promise.
LEMMA PromiseStep ==
  ASSUME TypeInv, History!Promise, [History!Next]_(History!vars)
  PROVE  History!Promise'
<1> USE DEF History!Promise
<1>1. CASE UNCHANGED History!vars
  BY <1>1 DEF History!vars, History!Touches, History!File
<1>2. CASE History!Break
  BY <1>2 DEF History!Break
<1>3. ASSUME NEW d \in Device, NEW c \in Content, History!Store(d, c) PROVE History!Promise'
  <2>1. UNCHANGED <<latest, recorded, ~Clean({"torn", "crossed"})>>
    BY <1>3 DEF History!Store
  <2> SUFFICES ASSUME Clean({"torn", "crossed"}), Clean({"torn", "crossed"})'
               PROVE  History!Promise'
    BY <2>1
  <2>2. PICK k \in Nat : k = Len(log)
    BY DEF TypeInv, TypeOK
  <2>3. PICK tree : /\ tree = [e \in Device |-> IF e = d THEN c ELSE History!File(k, e)]
                    /\ c # History!File(k, d)
                    /\ log' = Append(log, tree)
    BY <1>3, <2>2 DEF History!Store
  <2>4. /\ DOMAIN log = 1..k /\ DOMAIN log' = 1..(k + 1) /\ log'[k + 1] = tree
        /\ \A i \in 1..k : log'[i] = log[i]
    BY <2>2, <2>3 DEF TypeInv, TypeOK
  <2>5. ASSUME NEW i \in 1..k, NEW e PROVE History!Touches(i, e)' <=> History!Touches(i, e)
    <3>1. i = 1 \/ i - 1 \in 1..k
      OBVIOUS
    <3> QED
      BY <2>4, <3>1 DEF History!Touches, History!File
  <2>6. \A e \in Device : History!Touches(k + 1, e)' <=> e = d
    <3>1. \A e : History!File(k, e)' = History!File(k, e)
      BY <2>4 DEF History!File
    <3>2. \A e \in Device : tree[e] # History!File(k, e) <=> e = d
      BY <2>3
    <3>3. \A e : History!Touches(k + 1, e)' <=> tree[e] # History!File(k, e)'
      BY <2>4 DEF History!Touches
    <3> QED
      BY <3>1, <3>2, <3>3
  <2>7. \A i \in DOMAIN log' : \E x \in Device :
          History!Touches(i, x)' /\ \A e \in Device \ {x} : ~History!Touches(i, e)'
    BY <2>4, <2>5, <2>6
  <2>8. ASSUME NEW x \in Device
        PROVE  /\ latest'[x] # None =>
                    /\ latest'[x].commit \in DOMAIN log'
                    /\ log'[latest'[x].commit][x] = latest'[x].content
               /\ \A i \in recorded'[x] : History!Touches(i, x)'
    <3>1. latest'[x] # None => /\ latest'[x].commit \in 1..k
                               /\ log[latest'[x].commit][x] = latest'[x].content
      BY <2>1, <2>4
    <3>2. \A i \in recorded'[x] : History!Touches(i, x) /\ i \in 1..k
      BY <2>1, <2>4 DEF History!Touches
    <3> QED
      BY <2>4, <2>5, <3>1, <3>2
  <2> QED
    BY <2>7, <2>8
<1>4. CASE History!Record
  <2>1. /\ log' = log
        /\ \A i, x : History!Touches(i, x)' <=> History!Touches(i, x)
    BY <1>4 DEF History!Record, History!Touches, History!File
  <2> QED
    BY <1>4, <2>1 DEF History!Record
<1> QED
  BY <1>1, <1>2, <1>3, <1>4 DEF History!Next

\* Each commit of the repository changes the file of one device, the row that is the last
\* of a device holds what its commit holds, and what is recorded as changes of a device
\* are commits that changed it.
THEOREM HistoryTold == Spec => []History!Promise
<1>1. Init => History!Promise
  BY DEF Init, History!Promise
<1>2. HistoryInv => TypeInv
  BY DEF HistoryInv
<1>3. HistoryInv /\ [Next]_vars => [History!Next]_(History!vars)
  BY HistoryStep
<1>4. TypeInv /\ History!Promise /\ [History!Next]_(History!vars) => History!Promise'
  BY PromiseStep
<1> QED
  BY <1>1, <1>2, <1>3, <1>4, HistoryInvariant, PTL DEF Spec
=============================================================================
