-------------------------- MODULE LogShippingProofs --------------------------
(***************************************************************************)
(* Proofs about LogShipping, for any number of lines, files, restarts and  *)
(* breaches and any batch size: the types, that only refused lines are     *)
(* dropped, and the at-least-once promise (NeverLost).                     *)
(***************************************************************************)
EXTENDS LogShipping, TLAPS

\* How the parts of the state hang together, whatever the operator does.
Structure ==
  /\ live \in {None, newest}
  /\ writer <= newest /\ saved.ino <= newest /\ ident <= newest
  /\ \A f \in Inode : f > newest => content[f] = << >> /\ torn[f] = None
  /\ fh # None => fh = ident
  /\ ident # None => saved.ino <= ident
  /\ phase = "down" => ident = None
  /\ phase \in {"down", "idle"} => batch = << >>
  /\ phase \in {"read", "eof"} => fh # None /\ round < MaxRounds
  /\ phase = "read" => Len(batch) <= BatchSize
  /\ phase = "eof" => Len(batch) < BatchSize
  /\ phase = "posting" => ident # None
  /\ phase # "posting" => done = 0

\* Lines a tailer reads that resumes file f at off and switches to the newest file, in
\* terms of the files' lines, their unterminated last lines and the newest file.
Reach(lines, last, new, f, off) ==
  IF f = None THEN Behind(lines[new], last[new], 0)
  ELSE IF f # new THEN Behind(lines[f], last[f], off) \cup Behind(lines[new], last[new], 0)
  ELSE Behind(lines[new], last[new],
              IF off <= Len(lines[new]) + (IF last[new] = None THEN 0 ELSE 1) THEN off ELSE 0)
From(f, off) == Reach(content, torn, newest, f, off)

\* Lines of the batch that are not settled yet.
Unsettled == Behind(batch, None, done)

\* Nothing is lost: no file still needed is gone; a tailer started now would read what is
\* not delivered (as NeverLost says); so does the one running, from its position and its
\* batch; and when it has drained a rotated file it holds all that was left in it.
GoneAreDone == \A f \in gone : f < saved.ino
DiskKeeps == Written \subseteq Delivered \cup From(saved.ino, saved.off)
MemoryKeeps == ident # None => Written \subseteq Delivered \cup Unsettled \cup From(ident, pos)
DrainedKeeps == phase = "eof" /\ ident # newest => Rest(ident, pos) \subseteq {buf} \ {None}
NothingLost == breaches = {} => GoneAreDone /\ DiskKeeps /\ MemoryKeeps /\ DrainedKeeps

IInv == TypeOK /\ Structure /\ OnlyRejectedDropped /\ NothingLost

-----------------------------------------------------------------------------

\* The size of a file counts its lines and its unterminated last one.
LEMMA SizeType ==
  ASSUME DiskType, NEW f \in Inode
  PROVE  Size(f) \in Nat /\ Len(content[f]) \in Nat /\ Len(content[f]) <= Size(f)
BY DEF DiskType, Size

\* What a post carries are lines of the batch.
LEMMA PieceType ==
  ASSUME PostType, NEW end \in 1..Len(batch)
  PROVE  Piece(end) \subseteq Line
BY DEF PostType, Piece

\* A stop counts one restart and leaves what is stored and delivered alone.
LEMMA StopLedger ==
  ASSUME BoundsAssumption, TypeOK, Stop
  PROVE  LedgerType'
<1>1. restarts \in 0..MaxRestarts /\ restarts < MaxRestarts /\ restarts' = restarts + 1
  BY DEF Stop, TypeOK, LedgerType
<1>2. restarts' \in 0..MaxRestarts
  BY <1>1 DEF BoundsAssumption
<1>3. UNCHANGED <<saved, accepted, dropped, breaches>>
  BY DEF Stop
<1> QED
  BY <1>2, <1>3 DEF TypeOK, LedgerType, Position

\* What a read leaves in the batch and where it leaves the position.
LEMMA ReadLinesType ==
  ASSUME BoundsAssumption, TypeOK, Structure, ReadLines
  PROVE  pos' \in Nat /\ batch' \in Seq(Line)
<1> DEFINE room == BatchSize - Len(batch)
           avail == IF pos < Len(content[fh]) THEN Len(content[fh]) - pos ELSE 0
           n == IF room <= avail THEN room ELSE avail
<1>1. fh \in Inode /\ pos \in Nat /\ batch \in Seq(Line) /\ content[fh] \in Seq(Line)
  BY DEF ReadLines, TypeOK, DiskType, ReaderType, PostType, Structure
<1>2. room \in Nat /\ Len(content[fh]) \in Nat
  BY <1>1 DEF ReadLines, Structure, BoundsAssumption
<1>3. avail \in Nat /\ n \in Nat /\ (n = 0 \/ pos + n <= Len(content[fh]))
  BY <1>1, <1>2
<1> HIDE DEF room, avail, n
<1>4. SubSeq(content[fh], pos + 1, pos + n) \in Seq(Line)
  BY <1>1, <1>2, <1>3
<1>5. pos' = pos + n /\ batch' = batch \o SubSeq(content[fh], pos + 1, pos + n)
  BY DEF ReadLines, Return, room, avail, n
<1> QED
  BY <1>1, <1>3, <1>4, <1>5

\* The steps of the agent and the platform, as opposed to those of the Environment.
Process ==
  \/ Tailer \/ Shipper
  \/ CheckRotatedOpenFails \/ PostAnswerLost \/ PostGarbled \/ Stop \/ Start

\* Every step is the environment's, the agent's or a stutter.
LEMMA NextCases ==
  ASSUME [Next]_vars
  PROVE  Environment \/ Process \/ UNCHANGED vars
BY DEF Next, Process

\* The agent never writes to a log file; the operator never touches the agent's state.
LEMMA ProcessFrame ==
  ASSUME Process
  PROVE  UNCHANGED disk
BY DEF Process, Tailer, Shipper, OpenLog, StartRead, ReadLines, CheckNothingNew, CheckTruncated,
       CheckRotated, PostAccepted, PostSplit, PostDropped, Commit, CheckRotatedOpenFails,
       PostAnswerLost, PostGarbled, Stop, Start

\* The operator and tac_plus-ng never touch the agent or the platform.
LEMMA EnvironmentFrame ==
  ASSUME Environment
  PROVE  UNCHANGED <<phase, reader, post, saved, accepted, dropped, restarts>>
BY DEF Environment, BeginLine, EndLine, Rename, Create, Reopen, Truncate, Vanish

\* Breaches of the rotation discipline are only ever added.
LEMMA BreachesType ==
  ASSUME TypeOK, Next
  PROVE  breaches' \subseteq Breaches /\ breaches \subseteq breaches'
<1>1. CASE Environment
  BY <1>1 DEF Environment, BeginLine, EndLine, Rename, Create, Reopen, NewFile, Truncate, Vanish,
              Breach, When, Breaches, TypeOK, LedgerType
<1>2. CASE Process
  BY <1>2 DEF Process, Tailer, Shipper, OpenLog, StartRead, ReadLines, CheckNothingNew,
              CheckTruncated, CheckRotated, PostAccepted, PostSplit, PostDropped, Commit,
              CheckRotatedOpenFails, PostAnswerLost, PostGarbled, Stop, Start,
              Breach, Breaches, TypeOK, LedgerType
<1> QED
  BY <1>1, <1>2 DEF Next, Process

\* A new log file has the next free number.
LEMMA NewFileType ==
  ASSUME BoundsAssumption, DiskType, NewFile
  PROVE  newest' = newest + 1 /\ live' = newest' /\ newest' \in Inode
BY DEF BoundsAssumption, DiskType, NewFile, Inode

\* No step, of whoever it is, spoils the types of the disk.
LEMMA DiskTypeStep ==
  ASSUME BoundsAssumption, TypeOK, Structure, [Next]_vars
  PROVE  DiskType'
<1> USE DEF TypeOK, DiskType
<1>1. CASE BeginLine
  BY <1>1 DEF BeginLine, Line, BoundsAssumption
<1>2. CASE EndLine
  BY <1>2 DEF EndLine
<1>3. CASE Rename
  BY <1>3 DEF Rename
<1>4. CASE Create
  BY <1>4, NewFileType DEF Create
<1>5. CASE Reopen
  BY <1>5, NewFileType DEF Reopen
<1>6. CASE Truncate
  BY <1>6 DEF Truncate
<1>7. CASE \E f \in Inode : Vanish(f)
  BY <1>7 DEF Vanish
<1>8. CASE Process \/ UNCHANGED vars
  BY <1>8, ProcessFrame DEF disk, vars
<1> QED
  BY <1>1, <1>2, <1>3, <1>4, <1>5, <1>6, <1>7, <1>8, NextCases DEF Environment

\* The steps of the shipper that leave the tailer alone.
Posting ==
  PostAccepted \/ PostAnswerLost \/ PostSplit \/ PostDropped \/ PostGarbled \/ Commit

\* Posting moves neither the tailer nor its file.
LEMMA PostingFrame ==
  ASSUME Posting
  PROVE  /\ UNCHANGED reader
         /\ phase = "posting" /\ phase' \in {"posting", "idle"}
BY DEF Posting, PostAccepted, PostAnswerLost, PostSplit, PostDropped, PostGarbled, Commit

\* The steps of the agent one by one.
LEMMA ProcessCases ==
  ASSUME Process
  PROVE  \/ OpenLog \/ StartRead \/ ReadLines \/ CheckNothingNew \/ CheckTruncated
         \/ CheckRotated \/ CheckRotatedOpenFails \/ Posting \/ Stop \/ Start
BY DEF Process, Tailer, Shipper, Posting

\* A batch that takes the unterminated last line along grows by at most one.
LEMMA WithTailType ==
  ASSUME TypeOK
  PROVE  /\ WithTail \in Seq(Line)
         /\ Len(WithTail) \in {Len(batch), Len(batch) + 1}
BY DEF TypeOK, PostType, ReaderType, WithTail, None

\* No step spoils the types of the tailer.
LEMMA ReaderTypeStep ==
  ASSUME BoundsAssumption, TypeOK, Structure, [Next]_vars
  PROVE  ReaderType'
<1> USE DEF TypeOK, ReaderType, Phases
<1>1. CASE OpenLog
  <2>1. live \in Inode /\ (saved.ino \in Inode \cup {None}) /\ saved.off \in Nat
    BY <1>1 DEF OpenLog, DiskType, LedgerType, Position
  <2>2. \A f \in Inode : Size(f) \in Nat
    BY SizeType
  <2>3. \E f \in Inode, off \in Nat : OpenFile(f, off)
    BY <1>1, <2>1, <2>2 DEF OpenLog, Resume
  <2>4. phase' = "read" /\ round' = 0
    BY <1>1 DEF OpenLog
  <2> QED
    BY <2>3, <2>4 DEF OpenFile, BoundsAssumption
<1>2. CASE StartRead
  BY <1>2 DEF StartRead, BoundsAssumption
<1>3. CASE ReadLines
  <2>1. buf' \in Line \cup {None}
    BY <1>3 DEF ReadLines, Structure, DiskType
  <2>2. phase' \in Phases /\ UNCHANGED <<fh, ident, round>>
    BY <1>3 DEF ReadLines, Return
  <2> QED
    BY <2>1, <2>2, <1>3, ReadLinesType
<1>4. CASE CheckNothingNew
  BY <1>4 DEF CheckNothingNew, Return, reader
<1>5. CASE CheckTruncated
  BY <1>5 DEF CheckTruncated, NextRound, Return, Structure, BoundsAssumption
<1>6. CASE CheckRotated
  BY <1>6 DEF CheckRotated, OpenFile, NextRound, Return, Structure, BoundsAssumption, DiskType
<1>7. CASE CheckRotatedOpenFails
  <2>1. phase' \in Phases /\ fh' = None /\ buf' = None /\ UNCHANGED <<ident, round>>
    BY <1>7 DEF CheckRotatedOpenFails, Return
  <2>2. pos' = pos + Len(WithTail) - Len(batch)
    BY <1>7 DEF CheckRotatedOpenFails
  <2>3. pos' \in Nat
    BY <2>2, WithTailType DEF PostType
  <2> QED
    BY <2>1, <2>3
<1>8. CASE Posting
  BY <1>8, PostingFrame DEF reader
<1>9. CASE Stop
  BY <1>9 DEF Stop, BoundsAssumption
<1>10. CASE Start
  BY <1>10 DEF Start, reader
<1>11. CASE Environment \/ UNCHANGED vars
  BY <1>11, EnvironmentFrame DEF reader, vars
<1> QED
  BY <1>1, <1>2, <1>3, <1>4, <1>5, <1>6, <1>7, <1>8, <1>9, <1>10, <1>11, NextCases, ProcessCases

\* What read_lines returns is a batch fit to post.
LEMMA ReturnType ==
  ASSUME NEW lines \in Seq(Line), Return(lines)
  PROVE  PostType'
BY DEF Return, PostType

\* So it is whether or not read_lines goes round its loop again.
LEMMA NextRoundType ==
  ASSUME TypeOK, NEW lines \in Seq(Line), NextRound(lines)
  PROVE  PostType'
<1>1. CASE Return(lines)
  BY <1>1, ReturnType
<1>2. CASE batch' = lines /\ UNCHANGED <<done, cuts>>
  BY <1>2 DEF TypeOK, PostType
<1> QED
  BY <1>1, <1>2 DEF NextRound

\* No step spoils the types of the batch and its posts.
LEMMA PostTypeStep ==
  ASSUME BoundsAssumption, TypeOK, Structure, [Next]_vars
  PROVE  PostType'
<1> USE DEF TypeOK, PostType
<1>1. CASE ReadLines
  <2>1. done' \in Nat
    BY <1>1 DEF ReadLines, Return
  <2>2. cuts' \in {cuts, {}, {Len(batch')}}
    BY <1>1 DEF ReadLines, Return
  <2> QED
    BY <1>1, <2>1, <2>2, ReadLinesType
<1>2. CASE CheckNothingNew
  BY <1>2, ReturnType DEF CheckNothingNew
<1>3. CASE CheckTruncated
  BY <1>3, NextRoundType DEF CheckTruncated
<1>4. CASE CheckRotated
  <2>1. NextRound(WithTail)
    BY <1>4 DEF CheckRotated
  <2> QED
    BY <2>1, WithTailType, NextRoundType
<1>5. CASE CheckRotatedOpenFails
  <2>1. Return(WithTail)
    BY <1>5 DEF CheckRotatedOpenFails
  <2> QED
    BY <2>1, WithTailType, ReturnType
<1>6. CASE PostAccepted \/ PostDropped
  <2>1. done' \in Nat /\ UNCHANGED <<batch, cuts>>
    BY <1>6 DEF PostAccepted, PostDropped
  <2> QED
    BY <2>1
<1>7. CASE PostSplit
  <2>1. PICK end \in 1..Len(batch) :
          IsPiece(end) /\ end - done > 1 /\ cuts' = cuts \cup {done + (end - done) \div 2}
    BY <1>7 DEF PostSplit
  <2>2. done + (end - done) \div 2 \in Nat
    BY <2>1
  <2> QED
    BY <1>7, <2>1, <2>2 DEF PostSplit
<1>8. CASE PostGarbled \/ Commit \/ Stop
  <2>1. batch' = << >> /\ done' = 0 /\ cuts' = {}
    BY <1>8 DEF PostGarbled, Commit, Stop
  <2> QED
    BY <2>1
<1>9. CASE OpenLog \/ StartRead \/ PostAnswerLost \/ Start \/ Environment \/ UNCHANGED vars
  BY <1>9, EnvironmentFrame DEF OpenLog, StartRead, PostAnswerLost, Start, post, vars
<1> QED
  BY <1>1, <1>2, <1>3, <1>4, <1>5, <1>6, <1>7, <1>8, <1>9, NextCases, ProcessCases DEF Posting

\* No step spoils the types of the stored position and of what was delivered.
LEMMA LedgerTypeStep ==
  ASSUME BoundsAssumption, TypeOK, Structure, [Next]_vars
  PROVE  LedgerType'
<1>1. breaches' \subseteq Breaches
  BY BreachesType DEF TypeOK, LedgerType, vars
<1> USE DEF TypeOK, LedgerType
<1>2. CASE PostAccepted
  BY <1>1, <1>2, PieceType DEF PostAccepted
<1>3. CASE PostAnswerLost
  BY <1>1, <1>3, PieceType DEF PostAnswerLost
<1>4. CASE PostDropped
  BY <1>1, <1>4, PieceType DEF PostDropped
<1>5. CASE Commit
  BY <1>1, <1>5 DEF Commit, Position, ReaderType
<1>6. CASE Stop
  BY <1>6, StopLedger
<1>7. CASE OpenLog \/ StartRead \/ ReadLines \/ CheckNothingNew \/ CheckTruncated \/ CheckRotated
  BY <1>1, <1>7 DEF OpenLog, StartRead, ReadLines, CheckNothingNew, CheckTruncated, CheckRotated
<1>8. CASE CheckRotatedOpenFails \/ PostSplit \/ PostGarbled \/ Start
  BY <1>1, <1>8 DEF CheckRotatedOpenFails, PostSplit, PostGarbled, Start
<1>9. CASE Environment \/ UNCHANGED vars
  BY <1>1, <1>9, EnvironmentFrame DEF vars
<1> QED
  BY <1>2, <1>3, <1>4, <1>5, <1>6, <1>7, <1>8, <1>9, NextCases, ProcessCases DEF Posting

\* Every step keeps the types.
LEMMA TypeStep ==
  ASSUME BoundsAssumption, TypeOK, Structure, [Next]_vars
  PROVE  TypeOK'
BY DiskTypeStep, ReaderTypeStep, PostTypeStep, LedgerTypeStep DEF TypeOK

\* Every step keeps the structure.
LEMMA StructureStep ==
  ASSUME BoundsAssumption, TypeOK, Structure, [Next]_vars
  PROVE  Structure'
<1> USE DEF TypeOK, Structure, Inode, None
<1>1. CASE BeginLine \/ EndLine
  <2>1. \A f \in Inode : f # writer => content'[f] = content[f] /\ torn'[f] = torn[f]
    BY <1>1 DEF BeginLine, EndLine, DiskType
  <2>2. \A f \in Inode : f > newest => f # writer
    BY DEF DiskType
  <2>3. UNCHANGED <<live, newest, writer, saved, phase, reader, post>>
    BY <1>1 DEF BeginLine, EndLine
  <2> QED
    BY <2>1, <2>2, <2>3 DEF reader, post
<1>2. CASE Rename \/ Truncate \/ \E f \in Inode : Vanish(f)
  BY <1>2, EnvironmentFrame DEF Rename, Truncate, Vanish, Environment, DiskType, reader, post
<1>3. CASE Create \/ Reopen
  <2>1. UNCHANGED <<phase, reader, post, saved, content, torn>>
    BY <1>3 DEF Create, Reopen, reader, post
  <2>2. CASE NewFile
    <3>1. newest' = newest + 1 /\ live' = newest' /\ writer' \in {writer, live'}
      BY <1>3, <2>2, NewFileType DEF Create, Reopen
    <3>2. newest \in Nat /\ writer \in Nat /\ saved.ino \in Nat /\ ident \in Nat
      BY DEF DiskType, ReaderType, LedgerType, Position
    <3>3. live' = newest' /\ writer' <= newest' /\ saved'.ino <= newest' /\ ident' <= newest'
      BY <2>1, <3>1, <3>2 DEF reader
    <3>4. \A f \in Inode : f > newest' => content'[f] = << >> /\ torn'[f] = None
      BY <2>1, <3>1, <3>2
    <3> QED
      BY <2>1, <3>3, <3>4 DEF reader, post
  <2>3. CASE UNCHANGED <<live, newest>> /\ live # None /\ writer' = live'
    BY <2>1, <2>3 DEF DiskType, reader, post
  <2> QED
    BY <1>3, <2>2, <2>3 DEF Create, Reopen
<1>4. CASE OpenLog
  <2>1. \E f \in {live, saved.ino} \ {None}, off \in Nat : OpenFile(f, off)
    <3>1. \A f \in Inode : Size(f) \in Nat
      BY SizeType
    <3> QED
      BY <1>4, <3>1 DEF OpenLog, Resume, DiskType, LedgerType, Position
  <2>2. phase' = "read" /\ round' = 0 /\ UNCHANGED <<disk, post, saved>>
    BY <1>4 DEF OpenLog
  <2>3. ident' = fh' /\ fh' # None /\ fh' \in {newest, saved.ino}
    BY <2>1 DEF OpenFile
  <2>4. batch = << >> /\ done = 0
    BY <1>4 DEF OpenLog
  <2> QED
    BY <2>2, <2>3, <2>4 DEF disk, post, BoundsAssumption, DiskType, LedgerType, Position
<1>5. CASE StartRead \/ Start
  BY <1>5 DEF StartRead, Start, disk, post, reader, BoundsAssumption
<1>6. CASE ReadLines
  <2>1. UNCHANGED <<disk, fh, ident, round, saved>>
    BY <1>6 DEF ReadLines
  <2>2. fh # None /\ ident # None /\ ident = fh
    BY <1>6 DEF ReadLines
  <2> DEFINE room == BatchSize - Len(batch)
             avail == IF pos < Len(content[fh]) THEN Len(content[fh]) - pos ELSE 0
             n == IF room <= avail THEN room ELSE avail
             lines == batch \o SubSeq(content[fh], pos + 1, pos + n)
  <2>3. CASE room <= avail
    <3>1. phase' \in {"idle", "posting"} /\ done' = 0 /\ (phase' = "idle" => batch' = << >>)
      BY <1>6, <2>3 DEF ReadLines, Return
    <3> QED
      BY <2>1, <2>2, <3>1 DEF disk
  <2>4. CASE ~(room <= avail)
    <3>1. phase' = "eof" /\ done' = done /\ batch' = lines
      BY <1>6, <2>4 DEF ReadLines
    <3>2. fh \in Inode /\ pos \in Nat /\ batch \in Seq(Line) /\ content[fh] \in Seq(Line)
      BY <2>2 DEF DiskType, ReaderType, PostType
    <3>3. avail \in Nat /\ n = avail /\ room \in Nat /\ (n = 0 \/ pos + n <= Len(content[fh]))
      BY <3>2, <2>4, <1>6 DEF ReadLines, BoundsAssumption
    <3> HIDE DEF room, avail, n
    <3>4. Len(SubSeq(content[fh], pos + 1, pos + n)) = n
      BY <3>2, <3>3
    <3>5. SubSeq(content[fh], pos + 1, pos + n) \in Seq(Line)
      BY <3>2, <3>3
    <3>6. Len(lines) = Len(batch) + n
      BY <3>2, <3>4, <3>5
    <3>7. Len(lines) < BatchSize
      BY <2>4, <3>2, <3>3, <3>6 DEF room, BoundsAssumption
    <3> QED
      BY <1>6, <2>1, <2>2, <3>1, <3>7 DEF disk, ReadLines
  <2> QED
    BY <2>3, <2>4
<1>7. CASE CheckNothingNew
  BY <1>7 DEF CheckNothingNew, Return, disk, reader
<1>8. CASE CheckTruncated
  BY <1>8 DEF CheckTruncated, NextRound, Return, disk, ReaderType, BoundsAssumption, PostType
<1>9. CASE CheckRotated
  <2>1. UNCHANGED <<disk, saved>> /\ fh' = live /\ ident' = live
    BY <1>9 DEF CheckRotated, OpenFile
  <2>2. live = newest /\ live # None /\ done = 0 /\ Len(WithTail) <= BatchSize
    BY <1>9, WithTailType DEF CheckRotated, PostType, BoundsAssumption
  <2>3. NextRound(WithTail)
    BY <1>9 DEF CheckRotated
  <2>4. CASE Return(WithTail)
    BY <2>1, <2>2, <2>4 DEF Return, disk, DiskType, LedgerType, Position
  <2>5. CASE /\ round' = round + 1 /\ round' < MaxRounds
             /\ phase' = "read" /\ batch' = WithTail /\ done' = done
    BY <2>1, <2>2, <2>5 DEF disk, DiskType, LedgerType, Position
  <2> QED
    BY <2>3, <2>4, <2>5 DEF NextRound
<1>10. CASE CheckRotatedOpenFails
  BY <1>10 DEF CheckRotatedOpenFails, Return, disk
<1>11. CASE PostAccepted \/ PostAnswerLost \/ PostSplit \/ PostDropped
  BY <1>11 DEF PostAccepted, PostAnswerLost, PostSplit, PostDropped, disk, reader, post
<1>12. CASE PostGarbled \/ Commit
  <2>1. UNCHANGED disk /\ UNCHANGED reader /\ phase' = "idle" /\ batch' = << >> /\ done' = 0
    BY <1>12 DEF PostGarbled, Commit
  <2>2. saved'.ino \in {saved.ino, ident}
    BY <1>12 DEF PostGarbled, Commit
  <2>3. ident # None /\ fh' = fh
    BY <1>12, <2>1 DEF PostGarbled, Commit, reader
  <2> QED
    BY <2>1, <2>2, <2>3 DEF disk, reader, DiskType, LedgerType, Position, ReaderType
<1>13. CASE Stop
  BY <1>13 DEF Stop, disk, DiskType
<1>14. CASE UNCHANGED vars
  BY <1>14 DEF vars, disk, reader, post
<1> QED
  BY <1>1, <1>2, <1>3, <1>4, <1>5, <1>6, <1>7, <1>8, <1>9, <1>10, <1>11, <1>12, <1>13,
     <1>14, NextCases, ProcessCases DEF Posting, Environment

\* Only a line refused on its own is dropped, so all dropped lines are refused ones.
LEMMA DroppedStep ==
  ASSUME BoundsAssumption, TypeOK, OnlyRejectedDropped, [Next]_vars
  PROVE  OnlyRejectedDropped'
<1> USE DEF OnlyRejectedDropped
<1>1. CASE PostDropped
  <2>1. PICK end \in 1..Len(batch) :
          Permanent(end) /\ end - done = 1 /\ dropped' = dropped \cup Piece(end)
    BY <1>1 DEF PostDropped
  <2>2. Piece(end) = {batch[end]}
    BY <2>1 DEF Piece, TypeOK, PostType
  <2>3. Piece(end) \cap Rejected # {}
    BY <2>1 DEF Permanent, BoundsAssumption
  <2> QED
    BY <2>1, <2>2, <2>3
<1>2. CASE ~PostDropped
  <2>1. dropped' = dropped
    BY <1>2, NextCases, EnvironmentFrame
       DEF vars, Process, Tailer, Shipper, OpenLog, StartRead, ReadLines, CheckNothingNew,
           CheckTruncated, CheckRotated, PostAccepted, PostSplit, Commit, CheckRotatedOpenFails,
           PostAnswerLost, PostGarbled, Stop, Start
  <2> QED
    BY <2>1
<1> QED
  BY <1>1, <1>2

-----------------------------------------------------------------------------
(* The at-least-once promise.  First what the environment's steps do to     *)
(* what a tailer at any position would read.                                *)

\* Behind the end of the complete lines there is at most the unterminated one.
LEMMA BehindEnd ==
  ASSUME NEW lines \in Seq(Line), NEW last, NEW off \in Nat, off >= Len(lines)
  PROVE  Behind(lines, last, off) \subseteq {last} \ {None}
BY DEF Behind

\* Nothing is left to read in an empty file.
LEMMA BehindEmpty ==
  ASSUME NEW lines \in Seq(Line), Len(lines) = 0, NEW off
  PROVE  Behind(lines, None, off) = {}
BY DEF Behind

\* A last line that gets its newline is not lost to a reader.
LEMMA BehindAppend ==
  ASSUME NEW lines \in Seq(Line), NEW last \in Line, NEW off \in Nat
  PROVE  Behind(lines, last, off) \subseteq Behind(Append(lines, last), None, off)
<1> DEFINE longer == Append(lines, last)
<1>1. /\ Len(longer) = Len(lines) + 1
      /\ longer[Len(lines) + 1] = last
      /\ \A i \in 1..Len(lines) : longer[i] = lines[i]
  OBVIOUS
<1>2. Len(lines) \in Nat
  OBVIOUS
<1> HIDE DEF longer
<1>3. ASSUME NEW x \in Behind(lines, last, off)
      PROVE  \E j \in 1..Len(longer) : j > off /\ x = longer[j]
  <2>1. CASE \E i \in 1..Len(lines) : i > off /\ x = lines[i]
    BY <1>1, <1>2, <2>1
  <2>2. CASE off <= Len(lines) /\ x = last
    BY <1>1, <1>2, <2>2
  <2> QED
    BY <1>3, <2>1, <2>2 DEF Behind
<1> QED
  BY <1>3 DEF Behind, longer

\* Without a late writer and a regrown file, a new line is in everybody's reach.
LEMMA BeginLineReach ==
  ASSUME BoundsAssumption, TypeOK, BeginLine, breaches' = {},
         NEW f \in Inode \cup {None}, NEW off \in Nat,
         f = newest => off # Size(newest) + 1
  PROVE  From(f, off) \cup {next} \subseteq Reach(content', torn', newest', f, off)
<1>1. writer = newest /\ newest \in Inode /\ newest # None
  <2>1. When(writer # newest, "late") \subseteq breaches'
    BY DEF BeginLine, Breach
  <2>2. writer = newest
    BY <2>1 DEF When
  <2> QED
    BY <2>2 DEF TypeOK, DiskType, Inode, None
<1>2. /\ UNCHANGED <<content, newest>>
      /\ torn[newest] = None /\ torn'[newest] = next /\ next # None
      /\ \A g \in Inode : g # newest => torn'[g] = torn[g]
  BY <1>1 DEF BeginLine, TypeOK, DiskType, None
<1>3. content[newest] \in Seq(Line) /\ Len(content[newest]) \in Nat
  BY <1>1 DEF TypeOK, DiskType
<1>4. ASSUME NEW n \in Nat, n <= Len(content[newest])
      PROVE  Behind(content[newest], None, n) \cup {next} \subseteq
                Behind(content[newest], next, n)
  BY <1>2, <1>3, <1>4 DEF Behind
<1>5. Behind(content[newest], None, 0) \cup {next} \subseteq Behind(content[newest], next, 0)
  BY <1>3, <1>4
<1>6. CASE f = None
  BY <1>2, <1>5, <1>6 DEF From, Reach
<1>7. CASE f = newest
  <2>1. off # Len(content[newest]) + 1
    BY <1>2, <1>3, <1>7 DEF Size
  <2>2. CASE off <= Len(content[newest])
    BY <1>1, <1>2, <1>3, <1>4, <1>7, <2>2 DEF From, Reach
  <2>3. CASE off > Len(content[newest]) + 1
    BY <1>1, <1>2, <1>3, <1>5, <1>7, <2>3 DEF From, Reach
  <2> QED
    BY <1>3, <2>1, <2>2, <2>3
<1>8. CASE f \in Inode /\ f # newest /\ f # None
  BY <1>2, <1>5, <1>8 DEF From, Reach
<1> QED
  BY <1>6, <1>7, <1>8

\* Ending a line leaves whatever a tailer could reach within its reach.
LEMMA EndLineReach ==
  ASSUME TypeOK, EndLine, breaches' = {}, NEW f \in Inode \cup {None}, NEW off \in Nat
  PROVE  From(f, off) \subseteq Reach(content', torn', newest', f, off)
<1>1. writer = newest /\ newest \in Inode /\ newest # None
  <2>1. When(writer # newest, "late") \subseteq breaches'
    BY DEF EndLine, Breach
  <2>2. writer = newest
    BY <2>1 DEF When
  <2> QED
    BY <2>2 DEF TypeOK, DiskType, Inode, None
<1>2. /\ newest' = newest /\ torn[newest] \in Line /\ torn[newest] # None
      /\ content'[newest] = Append(content[newest], torn[newest]) /\ torn'[newest] = None
      /\ \A g \in Inode : g # newest => content'[g] = content[g] /\ torn'[g] = torn[g]
  BY <1>1 DEF EndLine, TypeOK, DiskType
<1>3. content[newest] \in Seq(Line) /\ Len(content[newest]) \in Nat
      /\ Len(content'[newest]) = Len(content[newest]) + 1
  BY <1>1, <1>2 DEF TypeOK, DiskType
<1>4. ASSUME NEW n \in Nat
      PROVE  Behind(content[newest], torn[newest], n) \subseteq
                Behind(content'[newest], None, n)
  BY <1>2, <1>3, BehindAppend
<1>5. CASE f = None
  BY <1>2, <1>4, <1>5 DEF From, Reach
<1>6. CASE f = newest
  BY <1>1, <1>2, <1>3, <1>4, <1>6 DEF From, Reach
<1>7. CASE f \in Inode /\ f # newest /\ f # None
  BY <1>2, <1>4, <1>7 DEF From, Reach
<1> QED
  BY <1>5, <1>6, <1>7

\* A rotation that does not come too early leaves the reach of a tailer that is at or past
\* the stored position.
LEMMA NewFileReach ==
  ASSUME BoundsAssumption, TypeOK, Structure, NewFile, breaches' = {},
         UNCHANGED <<content, torn>>,
         NEW f \in Inode \cup {None}, NEW off \in Nat,
         saved.ino <= f, f <= newest, f = newest => off <= Size(newest)
  PROVE  From(f, off) \subseteq Reach(content', torn', newest', f, off)
<1>1. newest \in Inode /\ newest # None /\ newest' = newest + 1 /\ newest' # None
  BY NewFileType DEF TypeOK, DiskType, Inode, None
<1>2. content[newest] \in Seq(Line) /\ Len(content[newest]) \in Nat
  BY <1>1 DEF TypeOK, DiskType
<1>3. ASSUME saved.ino < newest
      PROVE  Behind(content[newest], torn[newest], 0) = {}
  <2>1. ~(Size(newest) > 0)
    BY <1>1, <1>3 DEF NewFile, Breach, When, Inode
  <2>2. torn[newest] = None
    <3>1. torn[newest] # None => Size(newest) = Len(content[newest]) + 1
      BY DEF Size
    <3> QED
      BY <1>2, <2>1, <3>1
  <2>3. Len(content[newest]) = 0
    BY <1>2, <2>1, <2>2 DEF Size
  <2> QED
    BY <1>2, <2>2, <2>3, BehindEmpty
<1>4. CASE f = None
  BY <1>1, <1>3, <1>4 DEF From, Reach, Inode, None, TypeOK, LedgerType, Position
<1>5. CASE f = newest
  BY <1>1, <1>2, <1>5 DEF From, Reach, Size, Inode
<1>6. CASE f # newest /\ f # None
  <2>1. saved.ino < newest /\ f # newest'
    BY <1>1, <1>6 DEF Inode, None, TypeOK, LedgerType, Position
  <2> QED
    BY <1>1, <1>3, <1>6, <2>1 DEF From, Reach
<1> QED
  BY <1>4, <1>5, <1>6

\* Enough for a step of the environment to keep what is on disk and in memory.
LEMMA ReachKeeps ==
  ASSUME DiskKeeps, MemoryKeeps,
         UNCHANGED <<phase, reader, post, saved, accepted, dropped>>,
         From(saved.ino, saved.off) \cup (Written' \ Written) \subseteq
           Reach(content', torn', newest', saved.ino, saved.off),
         ident # None =>
           From(ident, pos) \cup (Written' \ Written) \subseteq
             Reach(content', torn', newest', ident, pos)
  PROVE  DiskKeeps' /\ MemoryKeeps'
<1>1. Delivered' = Delivered /\ Unsettled' = Unsettled
  BY DEF Delivered, Unsettled, post
<1>2. UNCHANGED <<saved, ident, pos>>
  BY DEF reader
<1>3. DiskKeeps'
  BY <1>1, <1>2 DEF DiskKeeps, From
<1>4. MemoryKeeps'
  BY <1>1, <1>2 DEF MemoryKeeps, From
<1> QED
  BY <1>3, <1>4

\* The stored and the held position point into files.
LEMMA PositionsType ==
  ASSUME TypeOK
  PROVE  /\ saved.ino \in Inode \cup {None} /\ saved.off \in Nat
         /\ ident \in Inode \cup {None} /\ pos \in Nat
BY DEF TypeOK, ReaderType, LedgerType, Position

\* A rotation that keeps the discipline loses nothing.
LEMMA NewFileKeeps ==
  ASSUME BoundsAssumption, TypeOK, Structure, NothingLost, NewFile, breaches = {}, breaches' = {},
         UNCHANGED <<content, torn, gone, next, phase, reader, post, saved, accepted, dropped>>
  PROVE  NothingLost'
<1>1. GoneAreDone /\ DiskKeeps /\ MemoryKeeps
  BY DEF NothingLost
<1>2. \A off \in Remembered(newest) : off <= Size(newest)
  <2>1. When(\E off \in Remembered(newest) : off > Size(newest), "truncated") = {}
    BY DEF NewFile, Breach
  <2>2. ~(\E off \in Remembered(newest) : off > Size(newest))
    BY <2>1 DEF When
  <2>3. Size(newest) \in Nat
    BY SizeType DEF TypeOK, DiskType
  <2>4. Remembered(newest) \subseteq Nat
    BY PositionsType DEF Remembered
  <2> QED
    BY <2>2, <2>3, <2>4
<1>3. Written' = Written
  BY DEF Written
<1>4. From(saved.ino, saved.off) \subseteq Reach(content', torn', newest', saved.ino, saved.off)
  <2>1. saved.ino = newest => saved.off <= Size(newest)
    BY <1>2 DEF Remembered
  <2>2. saved.ino <= saved.ino /\ saved.ino <= newest
    BY PositionsType DEF Structure, Inode, None
  <2> QED
    BY <2>1, <2>2, PositionsType, NewFileReach
<1>5. ident # None =>
        From(ident, pos) \subseteq Reach(content', torn', newest', ident, pos)
  <2>1. ident = newest => pos <= Size(newest)
    BY <1>2 DEF Remembered
  <2>2. ident # None => saved.ino <= ident /\ ident <= newest
    BY DEF Structure
  <2> QED
    BY <2>1, <2>2, PositionsType, NewFileReach
<1>6. DiskKeeps' /\ MemoryKeeps'
  BY <1>1, <1>3, <1>4, <1>5, ReachKeeps
<1>7. phase' # "eof"
  <2>1. When(phase = "eof", "race") = {}
    BY DEF NewFile, Breach
  <2> QED
    BY <2>1 DEF When
<1>8. GoneAreDone' /\ DrainedKeeps'
  BY <1>1, <1>7 DEF GoneAreDone, DrainedKeeps
<1> QED
  BY <1>6, <1>8 DEF NothingLost

\* Neither does any other step of the environment that breaches nothing.
LEMMA EnvironmentKeeps ==
  ASSUME BoundsAssumption, TypeOK, Structure, NothingLost, Environment,
         breaches = {}, breaches' = {}
  PROVE  NothingLost'
<1>1. GoneAreDone /\ DiskKeeps /\ MemoryKeeps /\ DrainedKeeps
  BY DEF NothingLost
<1>2. UNCHANGED <<phase, reader, post, saved, accepted, dropped>>
  BY EnvironmentFrame
<1>3. CASE BeginLine
  <2>1. When(\E off \in Remembered(writer) : off = Size(writer) + 1, "truncated") = {}
        /\ When(writer # newest, "late") = {}
    BY <1>3 DEF BeginLine, Breach
  <2>2. writer = newest /\ \A off \in Remembered(newest) : off # Size(newest) + 1
    BY <2>1 DEF When
  <2>3. Written' \ Written \subseteq {next}
    BY <1>3 DEF BeginLine, Written, TypeOK, DiskType
  <2>4. From(saved.ino, saved.off) \cup {next} \subseteq
          Reach(content', torn', newest', saved.ino, saved.off)
    BY <1>3, <2>2, PositionsType, BeginLineReach DEF Remembered
  <2>5. ident # None =>
          From(ident, pos) \cup {next} \subseteq Reach(content', torn', newest', ident, pos)
    BY <1>3, <2>2, PositionsType, BeginLineReach DEF Remembered
  <2>6. DiskKeeps' /\ MemoryKeeps'
    BY <1>1, <1>2, <2>3, <2>4, <2>5, ReachKeeps
  <2>7. GoneAreDone' /\ UNCHANGED <<newest, content>>
    BY <1>1, <1>2, <1>3 DEF BeginLine, GoneAreDone
  <2>8. ident # None /\ ident # newest => torn'[ident] = torn[ident]
    BY <1>3, <2>2, PositionsType DEF BeginLine, TypeOK, DiskType
  <2>9. DrainedKeeps'
    BY <1>1, <1>2, <2>7, <2>8 DEF DrainedKeeps, Rest, reader, Structure
  <2> QED
    BY <2>6, <2>7, <2>9 DEF NothingLost
<1>4. CASE EndLine
  <2>1. When(writer # newest, "late") = {}
    BY <1>4 DEF EndLine, Breach
  <2>2. writer = newest
    BY <2>1 DEF When
  <2>3. Written' = Written
    BY <1>4 DEF EndLine, Written
  <2>4. DiskKeeps' /\ MemoryKeeps'
    BY <1>1, <1>2, <1>4, <2>3, PositionsType, EndLineReach, ReachKeeps
  <2>5. GoneAreDone' /\ UNCHANGED newest
    BY <1>1, <1>2, <1>4 DEF EndLine, GoneAreDone
  <2>6. ident # None /\ ident # newest =>
          torn'[ident] = torn[ident] /\ content'[ident] = content[ident]
    BY <1>4, <2>2, PositionsType DEF EndLine, TypeOK, DiskType
  <2>7. DrainedKeeps'
    BY <1>1, <1>2, <2>5, <2>6 DEF DrainedKeeps, Rest, reader, Structure
  <2> QED
    BY <2>4, <2>5, <2>7 DEF NothingLost
<1>5. CASE Rename
  BY <1>1, <1>2, <1>5 DEF Rename, NothingLost, GoneAreDone, DiskKeeps, MemoryKeeps, DrainedKeeps,
       Written, Delivered, Unsettled, From, Rest, reader, post
<1>6. CASE Create \/ Reopen
  <2>1. CASE NewFile
    BY <1>2, <1>6, <2>1, NewFileKeeps DEF Create, Reopen
  <2>2. CASE UNCHANGED <<live, newest, breaches>>
    BY <1>1, <1>2, <1>6, <2>2 DEF Create, Reopen, NothingLost, GoneAreDone, DiskKeeps,
         MemoryKeeps, DrainedKeeps, Written, Delivered, Unsettled, From, Rest, reader, post
  <2> QED
    BY <1>6, <2>1, <2>2 DEF Create, Reopen
<1>7. CASE Truncate
  <2> DEFINE acknowledged ==
               /\ writer = live /\ torn[live] = None
               /\ phase \in {"down", "idle"}
               /\ saved = [ino |-> live, off |-> Len(content[live])]
               /\ fh # None => fh = live /\ pos = saved.off
  <2>1. When(~acknowledged, "truncated") = {}
    BY <1>7 DEF Truncate, Breach
  <2>2. acknowledged
    BY <2>1 DEF When
  <2>3. live = newest /\ newest \in Inode /\ newest # None /\ content[newest] \in Seq(Line)
    BY <1>7 DEF Truncate, Structure, TypeOK, DiskType, Inode, None
  <2>4. From(saved.ino, saved.off) = Behind(content[newest], None, Len(content[newest]))
    BY <2>2, <2>3 DEF From, Reach
  <2>5. Written \subseteq Delivered
    BY <1>1, <2>3, <2>4, BehindEnd DEF DiskKeeps
  <2>6. Written' = Written /\ Delivered' = Delivered
    BY <1>2, <1>7 DEF Truncate, Written, Delivered
  <2>7. GoneAreDone' /\ phase' # "eof"
    BY <1>1, <1>2, <1>7, <2>2 DEF Truncate, GoneAreDone
  <2> QED
    BY <2>5, <2>6, <2>7 DEF NothingLost, DiskKeeps, MemoryKeeps, DrainedKeeps
<1>8. CASE \E f \in Inode : Vanish(f)
  <2>1. PICK f \in Inode : Vanish(f)
    BY <1>8
  <2>2. When(f >= saved.ino, "vanished") = {}
    BY <2>1 DEF Vanish, Breach
  <2>3. ~(f >= saved.ino)
    BY <2>2 DEF When
  <2>4. f < saved.ino
    BY <2>3, PositionsType DEF Inode, None
  <2>5. GoneAreDone'
    BY <1>1, <1>2, <2>1, <2>4 DEF Vanish, GoneAreDone
  <2>6. UNCHANGED <<content, torn, newest, next>>
    BY <2>1 DEF Vanish
  <2> QED
    BY <1>1, <1>2, <2>5, <2>6 DEF NothingLost, DiskKeeps, MemoryKeeps, DrainedKeeps,
         Written, Delivered, Unsettled, From, Rest, reader, post
<1> QED
  BY <1>3, <1>4, <1>5, <1>6, <1>7, <1>8 DEF Environment

-----------------------------------------------------------------------------
(* What the agent's own steps do to the promise.                            *)

\* A read moves lines from the file to the batch.
LEMMA BehindMove ==
  ASSUME NEW lines \in Seq(Line), NEW last, NEW off \in Nat, NEW n \in Nat,
         n = 0 \/ off + n <= Len(lines)
  PROVE  /\ SubSeq(lines, off + 1, off + n) \in Seq(Line)
         /\ Behind(lines, last, off) \subseteq
              Behind(SubSeq(lines, off + 1, off + n), None, 0) \cup Behind(lines, last, off + n)
<1> DEFINE read == SubSeq(lines, off + 1, off + n)
<1>1. read \in Seq(Line) /\ Len(read) = n /\ \A i \in 1..n : read[i] = lines[off + i]
  OBVIOUS
<1>2. Len(lines) \in Nat
  OBVIOUS
<1> HIDE DEF read
<1>3. ASSUME NEW j \in 1..Len(lines), j > off, j <= off + n
      PROVE  \E i \in 1..Len(read) : i > 0 /\ read[i] = lines[j]
  <2>1. j - off \in 1..n /\ off + (j - off) = j
    BY <1>2, <1>3
  <2>2. read[j - off] = lines[j]
    BY <1>1, <2>1
  <2>3. j - off \in 1..Len(read) /\ j - off > 0
    BY <1>1, <2>1
  <2> QED
    BY <2>2, <2>3
<1>4. ASSUME NEW x \in Behind(lines, last, off)
      PROVE  x \in Behind(read, None, 0) \cup Behind(lines, last, off + n)
  <2>1. CASE \E j \in 1..Len(lines) : j > off /\ x = lines[j]
    <3>1. PICK j \in 1..Len(lines) : j > off /\ x = lines[j]
      BY <2>1
    <3>2. CASE j <= off + n
      BY <1>3, <3>1, <3>2 DEF Behind
    <3>3. CASE ~(j <= off + n)
      BY <1>2, <3>1, <3>3 DEF Behind
    <3> QED
      BY <3>2, <3>3
  <2>2. CASE last # None /\ off <= Len(lines) /\ x = last
    BY <1>2, <2>2 DEF Behind
  <2> QED
    BY <1>4, <2>1, <2>2 DEF Behind
<1> QED
  BY <1>1, <1>4 DEF read

\* Reading on appends to a batch without losing what it holds.
LEMMA BehindConcat ==
  ASSUME NEW s \in Seq(Line), NEW t \in Seq(Line)
  PROVE  Behind(s, None, 0) \cup Behind(t, None, 0) \subseteq Behind(s \o t, None, 0)
<1> DEFINE st == s \o t
<1>1. /\ Len(st) = Len(s) + Len(t) /\ Len(s) \in Nat /\ Len(t) \in Nat
      /\ \A i \in 1..Len(s) : st[i] = s[i]
      /\ \A i \in 1..Len(t) : st[Len(s) + i] = t[i]
  OBVIOUS
<1> HIDE DEF st
<1>2. ASSUME NEW i \in 1..Len(s) PROVE \E k \in 1..Len(st) : k > 0 /\ st[k] = s[i]
  BY <1>1
<1>3. ASSUME NEW i \in 1..Len(t) PROVE \E k \in 1..Len(st) : k > 0 /\ st[k] = t[i]
  <2>1. Len(s) + i \in 1..Len(st) /\ Len(s) + i > 0
    BY <1>1
  <2>2. st[Len(s) + i] = t[i]
    BY <1>1
  <2> QED
    BY <2>1, <2>2
<1>4. ASSUME NEW x \in Behind(s, None, 0) PROVE x \in Behind(st, None, 0)
  <2>1. PICK i \in 1..Len(s) : x = s[i]
    BY DEF Behind
  <2>2. PICK k \in 1..Len(st) : k > 0 /\ st[k] = x
    BY <1>2, <2>1
  <2> QED
    BY <2>2 DEF Behind
<1>5. ASSUME NEW x \in Behind(t, None, 0) PROVE x \in Behind(st, None, 0)
  <2>1. PICK i \in 1..Len(t) : x = t[i]
    BY DEF Behind
  <2>2. PICK k \in 1..Len(st) : k > 0 /\ st[k] = x
    BY <1>3, <2>1
  <2> QED
    BY <2>2 DEF Behind
<1> QED
  BY <1>4, <1>5 DEF st

\* Lines move from the file to the batch; none falls between.
LEMMA ReadLinesKeeps ==
  ASSUME BoundsAssumption, TypeOK, Structure, NothingLost, ReadLines, breaches = {}
  PROVE  NothingLost'
<1>1. GoneAreDone /\ DiskKeeps /\ MemoryKeeps
  BY DEF NothingLost
<1> DEFINE room == BatchSize - Len(batch)
           avail == IF pos < Len(content[fh]) THEN Len(content[fh]) - pos ELSE 0
           n == IF room <= avail THEN room ELSE avail
           read == SubSeq(content[fh], pos + 1, pos + n)
<1>2. fh \in Inode /\ fh # None /\ ident = fh /\ pos \in Nat /\ batch \in Seq(Line)
      /\ content[fh] \in Seq(Line) /\ done = 0
  BY DEF ReadLines, TypeOK, DiskType, ReaderType, PostType, Structure
<1>3. room \in Nat /\ Len(content[fh]) \in Nat
  BY <1>2 DEF ReadLines, Structure, BoundsAssumption
<1>4. avail \in Nat /\ n \in Nat /\ (n = 0 \/ pos + n <= Len(content[fh]))
  BY <1>2, <1>3
<1>5. pos' = pos + n /\ batch' = batch \o read /\ done' = 0 /\ UNCHANGED <<disk, fh, ident>>
  BY <1>2 DEF ReadLines, Return
<1>6. UNCHANGED <<saved, accepted, dropped>> /\ phase' \in {"idle", "posting", "eof"}
  BY DEF ReadLines, Return
<1>7. phase' = "eof" => n = avail /\ buf' = IF pos + n = Len(content[fh]) THEN torn[fh] ELSE None
  BY DEF ReadLines, Return
<1> HIDE DEF n, room
<1>8. Behind(content[fh], torn[fh], pos) \subseteq
        Behind(read, None, 0) \cup Behind(content[fh], torn[fh], pos + n)
      /\ read \in Seq(Line)
  BY <1>2, <1>4, BehindMove
<1>9. Unsettled \cup Behind(read, None, 0) \subseteq Unsettled'
  BY <1>2, <1>5, <1>8, BehindConcat DEF Unsettled
<1> HIDE DEF read
<1>10. From(ident, pos) \subseteq Behind(read, None, 0) \cup From(ident, pos')
  <2>1. CASE n = 0
    BY <1>2, <1>5, <2>1 DEF From
  <2>2. CASE n # 0 /\ ident # newest
    BY <1>2, <1>5, <1>8, <2>2 DEF From, Reach
  <2>3. CASE n # 0 /\ ident = newest
    <3>1. Len(content[newest]) \in Nat /\ pos + n <= Len(content[newest])
      BY <1>2, <1>3, <1>4, <2>3
    <3>2. Size(newest) \in Nat /\ Len(content[newest]) <= Size(newest)
      BY <1>2, <2>3, SizeType DEF TypeOK
    <3>3. pos <= Size(newest) /\ pos + n <= Size(newest)
      BY <1>2, <1>4, <3>1, <3>2
    <3> QED
      BY <1>2, <1>5, <1>8, <2>3, <3>3 DEF From, Reach, Size
  <2> QED
    BY <2>1, <2>2, <2>3
<1>11. Written' = Written /\ Delivered' = Delivered
  BY <1>5, <1>6 DEF Written, Delivered, disk
<1>12. From(ident, pos') = From(ident', pos')
  BY <1>5
<1>13. MemoryKeeps'
  BY <1>1, <1>2, <1>5, <1>9, <1>10, <1>11 DEF MemoryKeeps, From, disk
<1>14. DiskKeeps' /\ GoneAreDone'
  BY <1>1, <1>5, <1>6, <1>11 DEF DiskKeeps, GoneAreDone, From, disk
<1>15. DrainedKeeps'
  <2>1. SUFFICES ASSUME phase' = "eof" PROVE Rest(ident, pos)' \subseteq {buf'} \ {None}
    BY DEF DrainedKeeps
  <2>2. pos + n >= Len(content[fh])
    BY <1>2, <1>3, <1>7, <2>1
  <2>3. CASE pos + n = Len(content[fh])
    BY <1>2, <1>4, <1>5, <1>7, <2>1, <2>2, <2>3, BehindEnd DEF Rest, disk
  <2>4. CASE pos + n > Len(content[fh])
    <3>1. Behind(content[fh], torn[fh], pos + n) = {}
      BY <1>2, <1>3, <1>4, <2>4 DEF Behind
    <3> QED
      BY <1>2, <1>5, <3>1 DEF Rest, disk
  <2> QED
    BY <1>2, <1>3, <1>4, <2>2, <2>3, <2>4
<1> QED
  BY <1>13, <1>14, <1>15 DEF NothingLost

\* A tailer that opens the log reaches all that the stored position promises.
LEMMA OpenLogKeeps ==
  ASSUME BoundsAssumption, TypeOK, Structure, NothingLost, OpenLog, breaches = {}
  PROVE  NothingLost'
<1>1. GoneAreDone /\ DiskKeeps
  BY DEF NothingLost
<1>2. UNCHANGED <<disk, post, saved, accepted, dropped>> /\ phase' = "read"
  BY DEF OpenLog
<1>3. Written' = Written /\ Delivered' = Delivered /\ GoneAreDone' /\ DiskKeeps' /\ DrainedKeeps'
  BY <1>1, <1>2 DEF Written, Delivered, GoneAreDone, DiskKeeps, DrainedKeeps, From, disk
<1>4. live = newest /\ newest \in Inode /\ newest # None /\ content[newest] \in Seq(Line)
      /\ Len(content[newest]) \in Nat
  BY DEF OpenLog, Structure, TypeOK, DiskType, Inode, None
<1>5. From(saved.ino, saved.off) \subseteq From(ident', pos')
  <2>1. CASE saved.ino = live /\ OpenFile(live, Resume(live, saved.off))
    BY <1>4, <2>1, PositionsType DEF OpenFile, Resume, Size, From, Reach
  <2>2. CASE /\ saved.ino \notin {None, live}
             /\ OpenFile(saved.ino,
                         IF saved.off <= Size(saved.ino) THEN saved.off ELSE Size(saved.ino))
    <3>1. saved.ino \in Inode /\ content[saved.ino] \in Seq(Line)
          /\ Len(content[saved.ino]) \in Nat /\ saved.off \in Nat
      BY <2>2, PositionsType DEF TypeOK, DiskType
    <3>2. Size(saved.ino) \in Nat /\ Len(content[saved.ino]) <= Size(saved.ino)
      BY <3>1, SizeType DEF TypeOK
    <3>3. CASE saved.off <= Size(saved.ino)
      BY <1>4, <2>2, <3>3 DEF OpenFile, From, Reach
    <3>4. CASE ~(saved.off <= Size(saved.ino))
      <4>1. Behind(content[saved.ino], torn[saved.ino], saved.off) = {}
        BY <3>1, <3>2, <3>4 DEF Behind
      <4> QED
        BY <1>4, <2>2, <3>4, <4>1 DEF OpenFile, From, Reach
    <3> QED
      BY <3>3, <3>4
  <2>3. CASE saved.ino = None /\ OpenFile(live, 0)
    BY <1>4, <2>3 DEF OpenFile, From, Reach
  <2>4. ~(saved.ino # live /\ saved.ino \in gone)
    BY <1>1, PositionsType DEF GoneAreDone, Inode, None
  <2> QED
    BY <2>1, <2>2, <2>3, <2>4 DEF OpenLog
<1>6. MemoryKeeps'
  BY <1>1, <1>2, <1>3, <1>5 DEF MemoryKeeps, DiskKeeps, From, disk
<1> QED
  BY <1>3, <1>6 DEF NothingLost

\* The last batch of a rotated file holds its unterminated last line.
LEMMA WithTailHolds ==
  ASSUME TypeOK, done = 0
  PROVE  Unsettled \cup ({buf} \ {None}) \subseteq Behind(WithTail, None, 0)
<1>1. batch \in Seq(Line)
  BY DEF TypeOK, PostType
<1>2. CASE buf = None
  BY <1>2 DEF WithTail, Unsettled
<1>3. CASE buf # None
  <2>1. buf \in Line
    BY <1>3 DEF TypeOK, ReaderType
  <2>2. {buf} \cup Behind(batch, None, 0) \subseteq Behind(batch, buf, 0)
    BY <1>1, <1>3 DEF Behind
  <2> QED
    BY <1>1, <1>3, <2>1, <2>2, BehindAppend DEF WithTail, Unsettled
<1> QED
  BY <1>2, <1>3

\* At the end of the file: nothing new, truncated, rotated, or rotated and not opened.
LEMMA CheckKeeps ==
  ASSUME BoundsAssumption, TypeOK, Structure, NothingLost, breaches = {},
         CheckNothingNew \/ CheckTruncated \/ CheckRotated \/ CheckRotatedOpenFails
  PROVE  NothingLost'
<1>1. GoneAreDone /\ DiskKeeps /\ MemoryKeeps /\ DrainedKeeps
  BY DEF NothingLost
<1>2. UNCHANGED <<disk, saved, accepted, dropped>> /\ phase' # "eof" /\ done' = 0
      /\ phase = "eof" /\ done = 0
  BY DEF CheckNothingNew, CheckTruncated, CheckRotated, CheckRotatedOpenFails, NextRound, Return,
         Structure
<1>3. Written' = Written /\ Delivered' = Delivered /\ GoneAreDone' /\ DiskKeeps' /\ DrainedKeeps'
  BY <1>1, <1>2 DEF Written, Delivered, GoneAreDone, DiskKeeps, DrainedKeeps, From, disk
<1>4. ident # None /\ ident \in Inode /\ newest \in Inode /\ newest # None /\ pos \in Nat
      /\ content[newest] \in Seq(Line) /\ Len(content[newest]) \in Nat
  BY <1>2 DEF Structure, TypeOK, DiskType, ReaderType, Inode, None
<1>5. CASE CheckNothingNew
  <2>1. UNCHANGED reader /\ batch' = batch
    BY <1>5 DEF CheckNothingNew, Return
  <2> QED
    BY <1>1, <1>2, <1>3, <2>1 DEF NothingLost, MemoryKeeps, Unsettled, From, disk, reader
<1>6. CASE CheckTruncated
  <2>1. ident' = ident /\ pos' = 0 /\ batch' = batch
    BY <1>6 DEF CheckTruncated, NextRound, Return
  <2>2. live = newest /\ ident = newest /\ ~(pos <= Size(newest))
    <3>1. Size(newest) \in Nat
      BY <1>4, SizeType DEF TypeOK
    <3> QED
      BY <1>4, <1>6, <3>1 DEF CheckTruncated, Structure
  <2>3. From(ident, pos) \subseteq From(ident, 0)
    BY <1>4, <2>2 DEF From, Reach, Size
  <2> QED
    BY <1>1, <1>2, <1>3, <2>1, <2>3 DEF NothingLost, MemoryKeeps, Unsettled, From, disk
<1>7. CASE CheckRotated
  <2>1. ident' = newest /\ pos' = 0 /\ batch' = WithTail
    BY <1>7 DEF CheckRotated, OpenFile, NextRound, Return, Structure
  <2>2. ident # newest
    BY <1>7 DEF CheckRotated, Structure
  <2>3. Rest(ident, pos) \subseteq {buf} \ {None}
    BY <1>1, <1>2, <2>2 DEF DrainedKeeps
  <2>4. From(ident, pos) \subseteq ({buf} \ {None}) \cup From(newest, 0)
    BY <1>4, <2>2, <2>3 DEF From, Reach, Rest
  <2>5. Unsettled \cup ({buf} \ {None}) \subseteq Unsettled'
    BY <1>2, <2>1, WithTailHolds DEF Unsettled
  <2> QED
    BY <1>1, <1>2, <1>3, <1>4, <2>1, <2>4, <2>5 DEF NothingLost, MemoryKeeps, From, disk
<1>8. CASE CheckRotatedOpenFails
  <2>1. ident' = ident /\ batch' = WithTail
    BY <1>8 DEF CheckRotatedOpenFails, Return
  <2>2. ident # newest
    BY <1>8 DEF CheckRotatedOpenFails, Structure
  <2>3. Rest(ident, pos) \subseteq {buf} \ {None}
    BY <1>1, <1>2, <2>2 DEF DrainedKeeps
  <2>4. From(ident, pos) \subseteq ({buf} \ {None}) \cup From(ident, pos')
    BY <1>4, <2>2, <2>3 DEF From, Reach, Rest
  <2>5. Unsettled \cup ({buf} \ {None}) \subseteq Unsettled'
    BY <1>2, <2>1, WithTailHolds DEF Unsettled
  <2> QED
    BY <1>1, <1>2, <1>3, <1>4, <2>1, <2>4, <2>5 DEF NothingLost, MemoryKeeps, From, disk
<1> QED
  BY <1>5, <1>6, <1>7, <1>8

\* A piece that is settled moves from the batch to the ledger.
LEMMA SettleKeeps ==
  ASSUME TypeOK, Structure, NothingLost, breaches = {}, PostAccepted \/ PostDropped
  PROVE  NothingLost'
<1>1. GoneAreDone /\ DiskKeeps /\ MemoryKeeps
  BY DEF NothingLost
<1>2. PICK end \in 1..Len(batch) :
        done' = end /\ Delivered' = Delivered \cup Piece(end)
  BY DEF PostAccepted, PostDropped, Delivered
<1>3. UNCHANGED <<disk, reader, batch, saved, phase>> /\ phase = "posting"
  BY DEF PostAccepted, PostDropped
<1>4. batch \in Seq(Line) /\ done \in Nat
  BY DEF TypeOK, PostType
<1>5. Unsettled \subseteq Piece(end) \cup Unsettled'
  BY <1>2, <1>3, <1>4 DEF Unsettled, Behind, Piece
<1>6. Written' = Written
  BY <1>3 DEF Written, disk
<1> QED
  BY <1>1, <1>2, <1>3, <1>5, <1>6 DEF NothingLost, GoneAreDone, DiskKeeps, MemoryKeeps,
       DrainedKeeps, From, disk, reader

\* The stored position becomes the one in memory, with the whole batch settled.
LEMMA CommitKeeps ==
  ASSUME TypeOK, Structure, NothingLost, breaches = {}, Commit
  PROVE  NothingLost'
<1>1. GoneAreDone /\ MemoryKeeps
  BY DEF NothingLost
<1>2. UNCHANGED <<disk, reader, accepted, dropped>> /\ phase' = "idle" /\ batch' = << >>
      /\ saved'.ino = ident /\ saved'.off = pos /\ done = Len(batch) /\ ident # None
  BY DEF Commit, Structure
<1>3. Unsettled = {}
  BY <1>2 DEF Unsettled, Behind, TypeOK, PostType
<1>4. Written' = Written /\ Delivered' = Delivered
  BY <1>2 DEF Written, Delivered, disk
<1>5. DiskKeeps'
  BY <1>1, <1>2, <1>3, <1>4 DEF DiskKeeps, MemoryKeeps, From, disk
<1>6. MemoryKeeps'
  BY <1>1, <1>2, <1>3, <1>4 DEF MemoryKeeps, From, disk, reader
<1>7. GoneAreDone'
  <2>1. \A f \in gone : f < saved.ino /\ f \in Inode
    BY <1>1 DEF GoneAreDone, TypeOK, DiskType
  <2>2. saved.ino <= ident
    BY <1>2 DEF Structure
  <2> QED
    BY <1>2, <2>1, <2>2, PositionsType DEF GoneAreDone, Inode, None, disk
<1> QED
  BY <1>2, <1>5, <1>6, <1>7 DEF NothingLost, DrainedKeeps

\* No step loses a line.
LEMMA NothingLostStep ==
  ASSUME BoundsAssumption, TypeOK, Structure, NothingLost, [Next]_vars
  PROVE  NothingLost'
<1>1. SUFFICES ASSUME breaches' = {} PROVE NothingLost'
  BY DEF NothingLost
<1>2. breaches = {}
  BY <1>1, BreachesType DEF vars
<1>3. GoneAreDone /\ DiskKeeps /\ MemoryKeeps /\ DrainedKeeps
  BY <1>2 DEF NothingLost
<1>4. CASE Environment
  BY <1>1, <1>2, <1>4, EnvironmentKeeps
<1>5. CASE OpenLog
  BY <1>2, <1>5, OpenLogKeeps
<1>6. CASE ReadLines
  BY <1>2, <1>6, ReadLinesKeeps
<1>7. CASE CheckNothingNew \/ CheckTruncated \/ CheckRotated \/ CheckRotatedOpenFails
  BY <1>2, <1>7, CheckKeeps
<1>8. CASE PostAccepted \/ PostDropped
  BY <1>2, <1>8, SettleKeeps
<1>9. CASE PostAnswerLost \/ PostSplit
  <2>1. UNCHANGED <<disk, phase, reader, batch, done, saved>> /\ Delivered \subseteq Delivered'
    BY <1>9 DEF PostAnswerLost, PostSplit, post, Delivered
  <2> QED
    BY <1>3, <2>1 DEF NothingLost, GoneAreDone, DiskKeeps, MemoryKeeps, DrainedKeeps, Written,
         Unsettled, From, Rest, disk, reader
<1>10. CASE PostGarbled
  BY <1>1, <1>10 DEF PostGarbled, Breach
<1>11. CASE Commit
  BY <1>2, <1>11, CommitKeeps
<1>12. CASE Stop
  BY <1>3, <1>12 DEF Stop, NothingLost, GoneAreDone, DiskKeeps, MemoryKeeps, DrainedKeeps, Written,
       Delivered, From, disk
<1>13. CASE StartRead \/ Start
  <2>1. UNCHANGED <<disk, ident, pos, post, saved, accepted, dropped>> /\ phase' # "eof"
    BY <1>13 DEF StartRead, Start, reader
  <2> QED
    BY <1>3, <2>1 DEF NothingLost, GoneAreDone, DiskKeeps, MemoryKeeps, DrainedKeeps, Written,
         Delivered, Unsettled, From, disk, post
<1>14. CASE UNCHANGED vars
  BY <1>3, <1>14 DEF vars, NothingLost, GoneAreDone, DiskKeeps, MemoryKeeps, DrainedKeeps, Written,
       Delivered, Unsettled, From, Rest, disk, reader, post
<1> QED
  BY <1>4, <1>5, <1>6, <1>7, <1>8, <1>9, <1>10, <1>11, <1>12, <1>13, <1>14,
     NextCases, ProcessCases DEF Posting

-----------------------------------------------------------------------------
\* The invariant holds of the initial states.
LEMMA IInvInit ==
  ASSUME BoundsAssumption, Init
  PROVE  IInv
<1>1. TypeOK
  BY DEF Init, BoundsAssumption, TypeOK, DiskType, ReaderType, PostType, LedgerType, Position,
         NoPosition, Phases, Inode, Line, None
<1>2. Structure
  BY DEF Init, Structure, Inode, None, NoPosition
<1>3. Written = {}
  BY DEF Init, Written
<1>4. OnlyRejectedDropped /\ NothingLost
  BY <1>3 DEF Init, OnlyRejectedDropped, NothingLost, GoneAreDone, DiskKeeps, MemoryKeeps,
              DrainedKeeps
<1> QED
  BY <1>1, <1>2, <1>4 DEF IInv

\* The invariant holds in every state log shipping can reach: no line written is lost unless
\* the operator breaches the rotation discipline, and only refused lines are dropped.
THEOREM Invariance == Spec => []IInv
<1>1. Init => IInv
  BY IInvInit, BoundsAssumption
<1>2. IInv /\ [Next]_vars => IInv'
  BY TypeStep, StructureStep, DroppedStep, NothingLostStep, BoundsAssumption DEF IInv
<1> QED
  BY <1>1, <1>2, PTL DEF Spec

\* Types hold for every number of lines, files, restarts and every batch size.
THEOREM TypeCorrect == Spec => []TypeOK
<1>1. IInv => TypeOK
  BY DEF IInv
<1> QED
  BY Invariance, <1>1, PTL

\* However a batch is cut up, only lines the platform refuses by themselves are dropped.
THEOREM OnlyRejectedLinesDropped == Spec => []OnlyRejectedDropped
<1>1. IInv => OnlyRejectedDropped
  BY DEF IInv
<1> QED
  BY Invariance, <1>1, PTL

\* The stored position reaches exactly what a restarted tailer would read.
LEMMA ReachIsRecoverable ==
  ASSUME TypeOK, GoneAreDone
  PROVE  From(saved.ino, saved.off) \subseteq Recoverable
<1>1. saved.ino \notin gone
  BY PositionsType DEF GoneAreDone, Inode, None
<1> QED
  BY <1>1 DEF From, Reach, Recoverable, Rest, Resume, Size, TypeOK, DiskType, Inode, None

\* At-least-once: as long as the operator keeps the rotation discipline, every line written
\* is delivered or will be read again, through any number of crashes, rotations, lost answers
\* and refused batches.
THEOREM AtLeastOnce == Spec => []NeverLost
<1>1. IInv => NeverLost
  BY ReachIsRecoverable DEF IInv, NothingLost, DiskKeeps, NeverLost
<1> QED
  BY Invariance, <1>1, PTL
=============================================================================
