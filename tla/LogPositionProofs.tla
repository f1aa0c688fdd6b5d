-------------------------- MODULE LogPositionProofs --------------------------
(***************************************************************************)
(* Proofs about the stored position of LogShipping, for any number of      *)
(* lines, files, restarts and breaches and any batch size: it never moves  *)
(* back, all that lies before it has been delivered, none of that is       *)
(* posted again, and lines are delivered in the order of their file.       *)
(***************************************************************************)
EXTENDS LogShippingProofs

\* The tailer is inside a file: it holds it open, or posts what it read from it.
Active == ident # None /\ (fh # None \/ phase = "posting")

\* The i-th line of a file, the unterminated last one included, and the lines before an
\* offset that does not lie beyond the end of the file.
Nth(f, i) == IF i <= Len(content[f]) THEN content[f][i] ELSE torn[f]
Taken(f, off) == {Nth(f, i) : i \in 1..off}

\* Where the positions stand: the stored one is inside its file unless that file is the
\* newest; the tailer's is not behind it, nor behind the file's end, unless the file was
\* truncated, all of it acknowledged; a line held back is the next line of the file.
StoredFits == saved.ino # None /\ saved.ino < newest => saved.off <= Size(saved.ino)
NotBehind == Active /\ ident = saved.ino => pos >= saved.off \/ Size(saved.ino) < saved.off
BeyondEnd == Active /\ pos > Size(ident) => saved.ino = ident /\ saved.off = pos
TailIsNext == phase = "eof" /\ buf # None => pos + 1 <= Size(ident) /\ buf = Nth(ident, pos + 1)
Placed == StoredFits /\ NotBehind /\ BeyondEnd /\ TailIsNext
PlaceInv == "truncated" \notin breaches => Placed

-----------------------------------------------------------------------------

\* The steps of the operator and of tac_plus-ng one by one.
LEMMA EnvironmentCases ==
  ASSUME Environment
  PROVE  \/ BeginLine \/ EndLine \/ Rename \/ Create \/ Reopen \/ Truncate
         \/ \E f \in Inode : Vanish(f)
BY DEF Environment

\* Beginning a line makes the writer's file one longer.
LEMMA BeginLineSize ==
  ASSUME BoundsAssumption, TypeOK, BeginLine
  PROVE  /\ torn[writer] = None /\ next \in Line
         /\ \A f \in Inode : Size(f)' = IF f = writer THEN Size(f) + 1 ELSE Size(f)
<1>1. /\ content \in [Inode -> Seq(Line)] /\ torn \in [Inode -> Line \cup {None}]
      /\ writer \in Inode /\ next \in 1..(MaxLine + 1)
  BY DEF TypeOK, DiskType
<1>2. torn[writer] = None /\ next \in Line
  BY <1>1 DEF BeginLine, Line, BoundsAssumption
<1>3. next # None
  BY <1>2 DEF Line, None
<1> QED BY <1>1, <1>2, <1>3 DEF BeginLine, Size

\* Ending a line changes the size of no file: the unterminated line counted already.
LEMMA EndLineSize ==
  ASSUME TypeOK, EndLine
  PROVE  \A f \in Inode : Size(f)' = Size(f)
<1> TAKE f \in Inode
<1>1. content \in [Inode -> Seq(Line)] /\ torn \in [Inode -> Line \cup {None}] /\ writer \in Inode
  BY DEF TypeOK, DiskType
<1>2. torn[writer] \in Line /\ Len(Append(content[writer], torn[writer])) = Len(content[writer]) + 1
  BY <1>1 DEF EndLine
<1>3. CASE f = writer
  BY <1>1, <1>2, <1>3 DEF EndLine, Size
<1>4. CASE f # writer
  BY <1>1, <1>4 DEF EndLine, Size
<1> QED BY <1>3, <1>4

\* A line keeps its place in its file.
LEMMA LinesStay ==
  ASSUME BoundsAssumption, TypeOK, BeginLine \/ EndLine, NEW f \in Inode, NEW i \in 1..Size(f)
  PROVE  Nth(f, i)' = Nth(f, i)
<1>1. /\ content \in [Inode -> Seq(Line)] /\ torn \in [Inode -> Line \cup {None}]
      /\ writer \in Inode
  BY DEF TypeOK, DiskType
<1>2. CASE f # writer
  BY <1>1, <1>2 DEF BeginLine, EndLine, Nth
<1>3. CASE f = writer /\ BeginLine
  BY <1>1, <1>3 DEF BeginLine, Nth, Size
<1>4. CASE f = writer /\ EndLine
  <2> DEFINE lines == content[f]
             longer == Append(lines, torn[f])
  <2>1. /\ Len(longer) = Len(lines) + 1 /\ Len(lines) \in Nat /\ longer[Len(lines) + 1] = torn[f]
        /\ \A k \in 1..Len(lines) : longer[k] = lines[k]
    BY <1>1, <1>4 DEF EndLine
  <2>2. content'[f] = longer /\ torn'[f] = None /\ Size(f) = Len(lines) + 1
    BY <1>1, <1>4 DEF EndLine, Size
  <2> HIDE DEF longer
  <2> QED BY <2>1, <2>2 DEF Nth
<1> QED BY <1>2, <1>3, <1>4

\* So do all lines before an offset that is inside the file.
LEMMA TakenStays ==
  ASSUME BoundsAssumption, TypeOK, BeginLine \/ EndLine,
         NEW f \in Inode, NEW off \in Nat, off <= Size(f)
  PROVE  Taken(f, off)' = Taken(f, off)
<1>1. \A i \in 1..off : Nth(f, i)' = Nth(f, i)
  <2>1. Size(f) \in Nat BY SizeType DEF TypeOK
  <2> QED BY <2>1, LinesStay
<1> QED BY <1>1 DEF Taken

\* What the operator leaves of the agent's positions.
LEMMA EnvironmentPlaced ==
  ASSUME BoundsAssumption, TypeOK, Structure, Environment, Placed, "truncated" \notin breaches'
  PROVE  Placed'
<1> USE DEF Placed, None
<1>1. UNCHANGED <<phase, reader, saved>> /\ UNCHANGED <<fh, ident, pos, buf>>
  BY EnvironmentFrame DEF reader
<1>2. /\ saved.ino \in Inode \cup {None} /\ saved.off \in Nat
      /\ ident \in Inode \cup {None} /\ pos \in Nat
      /\ newest \in Inode /\ writer \in Inode /\ \A f \in Inode : Size(f) \in Nat
  BY PositionsType, SizeType DEF TypeOK, DiskType
<1>3. CASE BeginLine
  <2>1. \A off \in Remembered(writer) : off # Size(writer) + 1
    BY <1>3, "truncated" \notin breaches' DEF BeginLine, Breach, When
  <2>2. saved.ino = writer => saved.off # Size(writer) + 1
    BY <2>1 DEF Remembered
  <2>3. ident = writer => pos # Size(writer) + 1
    BY <2>1 DEF Remembered
  <2>4. newest' = newest BY <1>3 DEF BeginLine
  <2>5. /\ torn[writer] = None
        /\ \A f \in Inode : Size(f)' = IF f = writer THEN Size(f) + 1 ELSE Size(f)
    BY <1>3, BeginLineSize
  <2>6. phase = "eof" => ident \in Inode BY <1>2 DEF Structure
  <2>7. StoredFits' BY <1>1, <1>2, <2>4, <2>5 DEF StoredFits
  <2>8. NotBehind' BY <1>1, <1>2, <2>2, <2>5 DEF NotBehind, Active
  <2>9. BeyondEnd' BY <1>1, <1>2, <2>3, <2>5 DEF BeyondEnd, Active
  <2>10. \A f \in Inode : \A i \in 1..Size(f) : Nth(f, i)' = Nth(f, i)
    BY <1>3, LinesStay
  <2>11. TailIsNext' BY <1>1, <1>2, <2>5, <2>6, <2>10 DEF TailIsNext
  <2> QED BY <2>7, <2>8, <2>9, <2>11
<1>4. CASE EndLine
  <2>1. newest' = newest BY <1>4 DEF EndLine
  <2>2. \A f \in Inode : Size(f)' = Size(f) BY <1>4, EndLineSize
  <2>3. phase = "eof" => ident \in Inode BY <1>2 DEF Structure
  <2>4. \A f \in Inode : \A i \in 1..Size(f) : Nth(f, i)' = Nth(f, i)
    BY <1>4, LinesStay
  <2>5. TailIsNext' BY <1>1, <1>2, <2>2, <2>3, <2>4 DEF TailIsNext
  <2> QED BY <1>1, <1>2, <2>1, <2>2, <2>5 DEF StoredFits, NotBehind, BeyondEnd, Active
<1>5. CASE Rename \/ (\E f \in Inode : Vanish(f)) \/ (Reopen /\ UNCHANGED newest)
  <2>1. UNCHANGED <<content, torn, newest>> BY <1>5 DEF Rename, Vanish, Reopen
  <2>2. \A f, i : Size(f)' = Size(f) /\ Nth(f, i)' = Nth(f, i) BY <2>1 DEF Size, Nth
  <2> QED BY <1>1, <2>1, <2>2 DEF StoredFits, NotBehind, BeyondEnd, TailIsNext, Active
<1>6. CASE NewFile /\ UNCHANGED <<content, torn>>
  <2>1. newest' = newest + 1 BY <1>6 DEF NewFile
  <2>2. \A off \in Remembered(newest) : ~(off > Size(newest))
    BY <1>6, "truncated" \notin breaches' DEF NewFile, Breach, When
  <2>3. saved.ino = newest => saved.off <= Size(newest)
    BY <1>2, <2>2 DEF Remembered
  <2>4. \A f, i : Size(f)' = Size(f) /\ Nth(f, i)' = Nth(f, i) BY <1>6 DEF Size, Nth
  <2>5. saved.ino <= newest BY DEF Structure
  <2>6. StoredFits' BY <1>1, <1>2, <2>1, <2>3, <2>4, <2>5 DEF StoredFits, Inode
  <2>7. NotBehind' /\ BeyondEnd' /\ TailIsNext'
    BY <1>1, <2>4 DEF NotBehind, BeyondEnd, TailIsNext, Active
  <2> QED BY <2>6, <2>7
<1>7. CASE Truncate
  <2>1. /\ phase \in {"down", "idle"} /\ saved.ino = live
        /\ saved.off = Len(content[live]) /\ (fh # None => fh = live /\ pos = saved.off)
    BY <1>7, "truncated" \notin breaches' DEF Truncate, Breach, When
  <2>2. live = newest /\ live # None /\ newest' = newest
    BY <1>7 DEF Truncate, Structure
  <2>3. content[live] \in Seq(Line) /\ content[live] # << >>
    BY <1>2, <1>7, <2>2 DEF Truncate, TypeOK, DiskType
  <2>4. saved.off > 0 BY <2>1, <2>3
  <2>5. content'[live] = << >> /\ torn'[live] = None
    BY <1>2, <1>7, <2>2 DEF Truncate, TypeOK, DiskType
  <2>6. Size(live)' = 0
    <3>1. live' = live BY <1>7 DEF Truncate
    <3> QED BY <2>5, <3>1 DEF Size
  <2>7. fh # None => ident = live BY <2>1 DEF Structure
  <2>8. StoredFits' BY <1>1, <1>2, <2>1, <2>2 DEF StoredFits, Inode
  <2>9. NotBehind' /\ BeyondEnd' /\ TailIsNext'
    BY <1>1, <1>2, <2>1, <2>2, <2>4, <2>6, <2>7 DEF NotBehind, BeyondEnd, TailIsNext, Active
  <2> QED BY <2>8, <2>9
<1> QED
  BY <1>3, <1>4, <1>5, <1>6, <1>7, EnvironmentCases DEF Create, Reopen

\* What a read makes of position, batch and line held back.
LEMMA ReadLinesMoves ==
  ASSUME BoundsAssumption, TypeOK, Structure, ReadLines
  PROVE  \E n \in Nat :
           /\ n = 0 \/ pos + n <= Len(content[ident])
           /\ pos' = pos + n /\ batch' = batch \o SubSeq(content[ident], pos + 1, pos + n)
           /\ phase' = "eof" =>
                buf' = IF pos + n = Len(content[ident]) THEN torn[ident] ELSE None
<1> DEFINE room == BatchSize - Len(batch)
           avail == IF pos < Len(content[fh]) THEN Len(content[fh]) - pos ELSE 0
           n == IF room <= avail THEN room ELSE avail
<1>1. fh \in Inode /\ pos \in Nat /\ batch \in Seq(Line) /\ content[fh] \in Seq(Line) /\ ident = fh
  BY DEF ReadLines, TypeOK, DiskType, ReaderType, PostType, Structure
<1>2. room \in Nat /\ Len(content[fh]) \in Nat
  BY <1>1 DEF ReadLines, Structure, BoundsAssumption
<1>3. n \in Nat /\ (n = 0 \/ pos + n <= Len(content[fh]))
  BY <1>1, <1>2
<1>4. pos' = pos + n /\ batch' = batch \o SubSeq(content[fh], pos + 1, pos + n)
  BY DEF ReadLines, Return
<1>5. phase' = "eof" => buf' = IF pos + n = Len(content[fh]) THEN torn[fh] ELSE None
  BY DEF ReadLines, Return
<1> HIDE DEF n
<1> QED BY <1>1, <1>3, <1>4, <1>5

\* What the agent's own steps leave of its positions.
LEMMA ProcessPlaced ==
  ASSUME BoundsAssumption, TypeOK, Structure, Process, Placed
  PROVE  Placed'
<1> USE DEF Placed, None
<1>1. /\ UNCHANGED <<content, torn, newest, live>>
      /\ \A f, i : Size(f)' = Size(f) /\ Nth(f, i)' = Nth(f, i)
  BY ProcessFrame DEF disk, Size, Nth
<1>2. /\ saved.ino \in Inode \cup {None} /\ saved.off \in Nat
      /\ ident \in Inode \cup {None} /\ pos \in Nat /\ newest \in Inode
      /\ \A f \in Inode : Size(f) \in Nat
  BY PositionsType, SizeType DEF TypeOK, DiskType
<1>3. live \in {None, newest} /\ saved.ino <= newest /\ ident <= newest
      /\ (ident # None => saved.ino <= ident)
  BY DEF Structure
<1>4. CASE OpenLog
  <2>1. live = newest /\ UNCHANGED saved /\ phase' = "read" /\ StoredFits'
    BY <1>1, <1>3, <1>4 DEF OpenLog, StoredFits
  <2>2. /\ pos' <= Size(ident')
        /\ ident' = saved.ino => pos' = saved.off \/ Size(saved.ino) < saved.off
    <3>1. CASE saved.ino = live /\ OpenFile(live, Resume(live, saved.off))
      BY <1>2, <2>1, <3>1 DEF OpenFile, Resume
    <3>2. CASE /\ saved.ino \notin {None, live}
               /\ OpenFile(saved.ino,
                           IF saved.off <= Size(saved.ino) THEN saved.off ELSE Size(saved.ino))
      BY <1>2, <3>2 DEF OpenFile
    <3>3. CASE saved.ino # live /\ OpenFile(live, 0)
      BY <1>2, <2>1, <3>3 DEF OpenFile
    <3> QED BY <1>4, <2>1, <3>1, <3>2, <3>3 DEF OpenLog, Inode
  <2>3. ident' \in Inode /\ pos' \in Nat
    BY <1>2, <1>4, <2>1 DEF OpenLog, OpenFile, Resume
  <2>4. NotBehind' BY <1>1, <1>2, <2>1, <2>2, <2>3 DEF NotBehind
  <2>5. BeyondEnd' BY <1>1, <1>2, <2>2, <2>3 DEF BeyondEnd
  <2> QED BY <2>1, <2>4, <2>5 DEF TailIsNext
<1>5. CASE ReadLines
  <2>1. PICK n \in Nat :
          /\ n = 0 \/ pos + n <= Len(content[ident])
          /\ pos' = pos + n
          /\ phase' = "eof" =>
               buf' = IF pos + n = Len(content[ident]) THEN torn[ident] ELSE None
    BY <1>5, ReadLinesMoves
  <2>2. UNCHANGED <<fh, ident, saved>> /\ phase = "read" /\ fh # None /\ ident = fh
    BY <1>5 DEF ReadLines, Structure
  <2>3. ident \in Inode BY <1>2, <2>2
  <2>4. Len(content[ident]) \in Nat /\ Len(content[ident]) <= Size(ident)
    BY <2>3, SizeType DEF TypeOK
  <2>5. StoredFits' /\ NotBehind' /\ BeyondEnd'
    BY <1>1, <1>2, <2>1, <2>2, <2>3, <2>4 DEF StoredFits, NotBehind, BeyondEnd, Active
  <2>6. torn[ident] # None =>
          Size(ident) = Len(content[ident]) + 1 /\ Nth(ident, Len(content[ident]) + 1) = torn[ident]
    BY <2>4 DEF Size, Nth
  <2>7. TailIsNext' BY <1>1, <1>2, <2>1, <2>2, <2>3, <2>4, <2>6 DEF TailIsNext
  <2> QED BY <2>5, <2>7
<1>6. CASE CheckTruncated
  <2>1. UNCHANGED <<fh, ident, saved>> /\ pos' = 0 /\ fh # None /\ Size(ident) < pos
        /\ buf' = None
    BY <1>6 DEF CheckTruncated, Structure
  <2> QED BY <1>1, <1>2, <2>1, Structure
       DEF StoredFits, NotBehind, BeyondEnd, TailIsNext, Active, Structure
<1>7. CASE CheckRotated
  <2>1. /\ UNCHANGED saved /\ ident' = newest /\ pos' = 0 /\ buf' = None /\ saved.ino < newest
    BY <1>2, <1>3, <1>7 DEF CheckRotated, OpenFile, Structure, Inode
  <2> QED BY <1>1, <1>2, <2>1 DEF StoredFits, NotBehind, BeyondEnd, TailIsNext, Inode
<1>8. CASE CheckRotatedOpenFails
  <2>1. UNCHANGED <<saved, ident>> /\ buf' = None /\ pos' = pos + Len(WithTail) - Len(batch)
        /\ fh # None /\ ident = fh /\ phase = "eof"
    BY <1>8 DEF CheckRotatedOpenFails, Structure
  <2>2. pos' = IF buf = None THEN pos ELSE pos + 1
    <3>1. batch \in Seq(Line) BY DEF TypeOK, PostType
    <3> QED BY <1>2, <2>1, <3>1 DEF WithTail
  <2> QED BY <1>1, <1>2, <2>1, <2>2
       DEF StoredFits, NotBehind, BeyondEnd, TailIsNext, Active
<1>9. CASE Commit
  <2>1. /\ UNCHANGED <<fh, ident, pos, buf>> /\ saved'.ino = ident /\ saved'.off = pos
        /\ phase = "posting" /\ phase' = "idle" /\ ident # None
    BY <1>9 DEF Commit, Structure, reader
  <2>2. StoredFits' BY <1>1, <1>2, <2>1 DEF StoredFits, BeyondEnd, Active
  <2> QED BY <1>1, <1>2, <2>1, <2>2 DEF NotBehind, BeyondEnd, TailIsNext, Active
<1>10. CASE Stop
  <2>1. UNCHANGED saved /\ ident' = None /\ buf' = None BY <1>10 DEF Stop
  <2> QED BY <1>1, <2>1 DEF StoredFits, NotBehind, BeyondEnd, TailIsNext, Active
<1>11. CASE Posting /\ ~Commit
  <2>1. UNCHANGED <<fh, ident, pos, buf, saved>> /\ phase = "posting" /\ phase' \in {"posting", "idle"}
    BY <1>11, PostingFrame
       DEF Posting, reader, PostAccepted, PostAnswerLost, PostSplit, PostDropped, PostGarbled
  <2> QED BY <1>1, <2>1 DEF StoredFits, NotBehind, BeyondEnd, TailIsNext, Active
<1>12. CASE StartRead \/ CheckNothingNew \/ Start
  <2>1. UNCHANGED <<fh, ident, pos, buf, saved>>
        /\ phase' # "eof" /\ (phase' = "posting" => fh # None)
    BY <1>12 DEF StartRead, CheckNothingNew, Start, Return, Structure, reader
  <2> QED BY <1>1, <2>1 DEF StoredFits, NotBehind, BeyondEnd, TailIsNext, Active
<1> QED
  BY <1>4, <1>5, <1>6, <1>7, <1>8, <1>9, <1>10, <1>11, <1>12, ProcessCases

\* Every step leaves the positions where they belong.
LEMMA PlaceStep ==
  ASSUME BoundsAssumption, TypeOK, Structure, PlaceInv, [Next]_vars
  PROVE  PlaceInv'
<1>1. SUFFICES ASSUME "truncated" \notin breaches' PROVE Placed'
  BY DEF PlaceInv
<1>2. breaches \subseteq breaches' BY BreachesType DEF vars
<1>3. Placed BY <1>1, <1>2 DEF PlaceInv
<1>4. CASE Environment BY <1>1, <1>3, <1>4, EnvironmentPlaced
<1>5. CASE Process BY <1>3, <1>5, ProcessPlaced
<1>6. CASE UNCHANGED vars
  BY <1>3, <1>6 DEF Placed, StoredFits, NotBehind, BeyondEnd, TailIsNext, Active, Size, Nth,
                    vars, disk, reader, post
<1> QED BY <1>4, <1>5, <1>6, NextCases

\* Only a commit moves the stored position.
LEMMA OnlyCommitMoves ==
  ASSUME Next, saved' # saved
  PROVE  Commit
BY DEF Next, Environment, Tailer, Shipper, BeginLine, EndLine, Rename, Create, Reopen, Truncate,
       Vanish, OpenLog, StartRead, ReadLines, CheckNothingNew, CheckTruncated, CheckRotated,
       PostAccepted, PostSplit, PostDropped, CheckRotatedOpenFails, PostAnswerLost, PostGarbled,
       Stop, Start

-----------------------------------------------------------------------------
\* What lies before the stored position is delivered; what lies before the tailer's is
\* delivered or in the batch.
StoredDelivered ==
  saved.ino # None /\ saved.off <= Size(saved.ino) => Taken(saved.ino, saved.off) \subseteq Delivered
ReadKept == Active /\ pos <= Size(ident) => Taken(ident, pos) \subseteq Delivered \cup Unsettled
Prefixed == StoredDelivered /\ ReadKept
PrefixInv == breaches \cap {"truncated", "garbled"} = {} => Prefixed

\* Nothing lies before the beginning of a file.
LEMMA TakenNothing == \A f : Taken(f, 0) = {}
BY DEF Taken

\* One line lies between an offset and the next.
LEMMA TakenNext ==
  ASSUME NEW f, NEW off \in Nat
  PROVE  Taken(f, off + 1) \subseteq Taken(f, off) \cup {Nth(f, off + 1)}
BY DEF Taken

\* A reader that moves on takes along the lines it read.
LEMMA TakenMove ==
  ASSUME TypeOK, NEW f \in Inode, NEW off \in Nat, NEW n \in Nat,
         off + n <= Len(content[f])
  PROVE  Taken(f, off + n) \subseteq
           Taken(f, off) \cup Behind(SubSeq(content[f], off + 1, off + n), None, 0)
<1>1. content[f] \in Seq(Line) /\ Len(content[f]) \in Nat BY DEF TypeOK, DiskType
<1>2. \A i \in 1..(off + n) : i <= Len(content[f]) BY <1>1
<1>3. \A i \in 1..(off + n) : Nth(f, i) = content[f][i] BY <1>2 DEF Nth
<1> DEFINE lines == content[f]
           read == SubSeq(lines, off + 1, off + n)
<1>4. Len(read) = n /\ \A k \in 1..n : read[k] = lines[off + k] BY <1>1
<1> HIDE DEF read
<1>5. {read[i] : i \in 1..n} \subseteq Behind(read, None, 0)
  BY <1>4 DEF Behind
<1>6. ASSUME NEW i \in 1..(off + n), ~(i <= off)
      PROVE  Nth(f, i) \in {read[k] : k \in 1..n}
  <2>1. i - off \in 1..n /\ off + (i - off) = i BY <1>6
  <2>2. read[i - off] = lines[i] BY <1>4, <2>1
  <2> QED BY <1>3, <2>1, <2>2
<1>7. Taken(f, off + n) \subseteq Taken(f, off) \cup Behind(read, None, 0)
  <2>1. ASSUME NEW i \in 1..(off + n), i <= off PROVE Nth(f, i) \in Taken(f, off)
    BY <2>1 DEF Taken
  <2> QED BY <1>5, <1>6, <2>1 DEF Taken
<1> QED BY <1>7 DEF read

\* What the operator's steps leave of the prefixes.
LEMMA EnvironmentPrefixed ==
  ASSUME BoundsAssumption, TypeOK, Structure, Environment, Placed, Prefixed,
         "truncated" \notin breaches'
  PROVE  Prefixed'
<1> USE DEF Prefixed, None
<1>1. UNCHANGED <<phase, saved, fh, ident, pos, buf, batch, done, accepted, dropped>>
  BY EnvironmentFrame DEF reader, post
<1>2. Delivered' = Delivered /\ Unsettled' = Unsettled /\ Active' = Active
  BY <1>1 DEF Delivered, Unsettled, Active
<1>3. /\ saved.ino \in Inode \cup {None} /\ saved.off \in Nat
      /\ ident \in Inode \cup {None} /\ pos \in Nat
      /\ \A f \in Inode : Size(f) \in Nat /\ Len(content[f]) \in Nat
      /\ phase = "eof" => ident \in Inode
  BY PositionsType, SizeType DEF TypeOK, Structure
<1>4. CASE BeginLine
  <2>1. \A off \in Remembered(writer) : off # Size(writer) + 1
    BY <1>4, "truncated" \notin breaches' DEF BeginLine, Breach, When
  <2>2. /\ saved.ino = writer => saved.off # Size(writer) + 1
        /\ ident = writer => pos # Size(writer) + 1
    BY <2>1 DEF Remembered
  <2>3. /\ torn[writer] = None
        /\ \A f \in Inode : Size(f)' = IF f = writer THEN Size(f) + 1 ELSE Size(f)
    BY <1>4, BeginLineSize
  <2>5. \A f \in Inode, off \in Nat : off <= Size(f) => Taken(f, off)' = Taken(f, off)
    BY <1>4, TakenStays
  <2>6. StoredDelivered' BY <1>1, <1>2, <1>3, <2>2, <2>3, <2>5 DEF StoredDelivered
  <2>7. ReadKept' BY <1>1, <1>2, <1>3, <2>2, <2>3, <2>5 DEF ReadKept, Active
  <2> QED BY <2>6, <2>7
<1>5. CASE EndLine
  <2>1. \A f \in Inode : Size(f)' = Size(f) BY <1>5, EndLineSize
  <2>2. \A f \in Inode, off \in Nat : off <= Size(f) => Taken(f, off)' = Taken(f, off)
    BY <1>5, TakenStays
  <2> QED BY <1>1, <1>2, <1>3, <2>1, <2>2 DEF StoredDelivered, ReadKept, Active
<1>6. CASE UNCHANGED <<content, torn>>
  <2>1. \A f, off : Size(f)' = Size(f) /\ Taken(f, off)' = Taken(f, off) BY <1>6 DEF Size, Taken, Nth
  <2> QED BY <1>1, <1>2, <2>1 DEF StoredDelivered, ReadKept
<1>7. CASE Truncate
  <2>1. /\ phase \in {"down", "idle"} /\ saved.ino = live
        /\ saved.off = Len(content[live]) /\ (fh # None => fh = live /\ pos = saved.off)
    BY <1>7, "truncated" \notin breaches' DEF Truncate, Breach, When
  <2>2. live \in Inode /\ content[live] \in Seq(Line) /\ content[live] # << >>
    BY <1>7 DEF Truncate, TypeOK, DiskType
  <2>3. saved.off > 0 BY <2>1, <2>2
  <2>4. content'[live] = << >> /\ torn'[live] = None /\ live' = live
    BY <1>7, <2>2 DEF Truncate, TypeOK, DiskType
  <2>5. Size(live)' = 0 BY <2>4 DEF Size
  <2>6. fh # None => ident = live BY <2>1 DEF Structure
  <2>7. ~(saved.off <= Size(saved.ino))' BY <1>1, <1>3, <2>1, <2>3, <2>4, <2>5
  <2>8. Active => ~(pos <= Size(ident))' BY <1>1, <1>3, <2>1, <2>3, <2>4, <2>5, <2>6 DEF Active
  <2> QED BY <1>1, <1>2, <2>1, <2>7, <2>8 DEF StoredDelivered, ReadKept
<1>8. BeginLine \/ EndLine \/ Truncate \/ UNCHANGED <<content, torn>>
  BY EnvironmentCases DEF Rename, Create, Reopen, Vanish
<1> QED BY <1>4, <1>5, <1>6, <1>7, <1>8

\* What the agent's own steps leave of the prefixes.
LEMMA ProcessPrefixed ==
  ASSUME BoundsAssumption, TypeOK, Structure, Process, Placed, Prefixed,
         "garbled" \notin breaches'
  PROVE  Prefixed'
<1> USE DEF Prefixed, None
<1>1. /\ UNCHANGED <<content, torn, newest, live>>
      /\ \A f, off : Size(f)' = Size(f) /\ Taken(f, off)' = Taken(f, off)
  BY ProcessFrame DEF disk, Size, Taken, Nth
<1>2. /\ saved.ino \in Inode \cup {None} /\ saved.off \in Nat
      /\ ident \in Inode \cup {None} /\ pos \in Nat /\ newest \in Inode
      /\ \A f \in Inode : Size(f) \in Nat
      /\ batch \in Seq(Line) /\ done \in Nat
  BY PositionsType, SizeType DEF TypeOK, DiskType, PostType
<1>3. ASSUME UNCHANGED <<saved, accepted, dropped>> PROVE StoredDelivered'
  BY <1>1, <1>3 DEF StoredDelivered, Delivered
<1>4. CASE OpenLog
  <2>1. /\ UNCHANGED <<saved, accepted, dropped>> /\ phase' = "read" /\ live = newest
        /\ live \in Inode
    BY <1>2, <1>4 DEF OpenLog, Structure
  <2>2. Taken(ident', pos') \subseteq Delivered
    <3>1. CASE saved.ino = live /\ OpenFile(live, Resume(live, saved.off))
      BY <1>2, <2>1, <3>1, TakenNothing DEF OpenFile, Resume, StoredDelivered, Inode
    <3>2. CASE /\ saved.ino \notin {None, live}
               /\ OpenFile(saved.ino,
                           IF saved.off <= Size(saved.ino) THEN saved.off ELSE Size(saved.ino))
      <4>1. saved.ino < newest
        BY <1>2, <2>1, <3>2 DEF Structure, Inode
      <4>2. saved.off <= Size(saved.ino) BY <3>2, <4>1 DEF Placed, StoredFits
      <4> QED BY <3>2, <4>2 DEF OpenFile, StoredDelivered
    <3>3. CASE OpenFile(live, 0)
      BY <2>1, <3>3, TakenNothing DEF OpenFile
    <3> QED BY <1>4, <3>1, <3>2, <3>3 DEF OpenLog
  <2>3. Delivered' = Delivered BY <2>1 DEF Delivered
  <2>4. ReadKept' BY <1>1, <2>2, <2>3 DEF ReadKept
  <2> QED BY <1>3, <2>1, <2>4
<1>5. CASE ReadLines
  <2>1. PICK n \in Nat :
          /\ n = 0 \/ pos + n <= Len(content[ident])
          /\ pos' = pos + n /\ batch' = batch \o SubSeq(content[ident], pos + 1, pos + n)
          /\ phase' = "eof" =>
               buf' = IF pos + n = Len(content[ident]) THEN torn[ident] ELSE None
    BY <1>5, ReadLinesMoves
  <2>2. /\ UNCHANGED <<fh, ident, saved, accepted, dropped>> /\ phase = "read" /\ fh # None
        /\ ident = fh /\ ident \in Inode /\ done = 0 /\ done' = 0
    BY <1>2, <1>5 DEF ReadLines, Return, Structure
  <2>3. /\ content[ident] \in Seq(Line) /\ Len(content[ident]) \in Nat
        /\ Len(content[ident]) <= Size(ident)
    BY <2>2, SizeType DEF TypeOK, DiskType
  <2>4. Delivered' = Delivered BY <2>2 DEF Delivered
  <2> DEFINE read == SubSeq(content[ident], pos + 1, pos + n)
  <2>5. read \in Seq(Line) BY <1>2, <2>1, <2>3, BehindMove
  <2>6. Unsettled \cup Behind(read, None, 0) \subseteq Unsettled'
    BY <1>2, <2>1, <2>2, <2>5, BehindConcat DEF Unsettled
  <2>7. pos + n <= Size(ident) => Taken(ident, pos + n) \subseteq Delivered \cup Unsettled'
    <3>1. CASE n = 0
      BY <1>2, <2>2, <2>6, <3>1 DEF ReadKept, Active
    <3>2. CASE pos + n <= Len(content[ident])
      <4>1. pos <= Size(ident) BY <1>2, <2>2, <2>3, <3>2
      <4>2. Taken(ident, pos) \subseteq Delivered \cup Unsettled
        BY <2>2, <4>1 DEF ReadKept, Active
      <4>3. Taken(ident, pos + n) \subseteq Taken(ident, pos) \cup Behind(read, None, 0)
        BY <1>2, <2>2, <3>2, TakenMove
      <4> QED BY <2>6, <4>2, <4>3
    <3> QED BY <2>1, <3>1, <3>2
  <2>8. ReadKept' BY <1>1, <2>1, <2>2, <2>4, <2>7 DEF ReadKept
  <2> QED BY <1>3, <2>2, <2>8
<1>6. CASE CheckTruncated
  <2>1. /\ UNCHANGED <<ident, saved, accepted, dropped>> /\ pos' = 0 /\ buf' = None
        /\ ident \in Inode
    BY <1>2, <1>6 DEF CheckTruncated, Structure
  <2>2. Taken(ident, 0) = {} BY <2>1, TakenNothing
  <2> QED BY <1>1, <1>3, <2>1, <2>2 DEF ReadKept
<1>7. CASE CheckRotated
  <2>1. /\ UNCHANGED <<saved, accepted, dropped>> /\ ident' = newest /\ pos' = 0 /\ buf' = None
    BY <1>7 DEF CheckRotated, OpenFile, Structure
  <2>2. Taken(newest, 0) = {} BY <1>2, TakenNothing
  <2> QED BY <1>1, <1>3, <2>1, <2>2 DEF ReadKept
<1>8. CASE CheckRotatedOpenFails
  <2>1. /\ UNCHANGED <<saved, ident, accepted, dropped>> /\ buf' = None /\ done' = 0
        /\ pos' = pos + Len(WithTail) - Len(batch) /\ batch' = WithTail
        /\ fh # None /\ ident = fh /\ phase = "eof" /\ done = 0
    BY <1>8 DEF CheckRotatedOpenFails, Structure, Return
  <2>2. pos' = IF buf = None THEN pos ELSE pos + 1
    BY <1>2, <2>1 DEF WithTail
  <2>3. Unsettled \cup ({buf} \ {None}) \subseteq Unsettled'
    BY <2>1, WithTailHolds DEF Unsettled
  <2>4. Delivered' = Delivered BY <2>1 DEF Delivered
  <2>5. pos' <= Size(ident) => Taken(ident, pos') \subseteq Delivered \cup Unsettled'
    <3>1. CASE buf = None BY <2>1, <2>2, <2>3, <3>1 DEF ReadKept, Active
    <3>2. CASE buf # None
      <4>1. pos <= Size(ident) BY <1>2, <2>1, <3>2 DEF Placed, TailIsNext
      <4>2. Taken(ident, pos) \subseteq Delivered \cup Unsettled
        BY <2>1, <4>1 DEF ReadKept, Active
      <4>3. Taken(ident, pos + 1) \subseteq Taken(ident, pos) \cup {buf}
        BY <1>2, <2>1, <3>2, TakenNext DEF Placed, TailIsNext
      <4> QED BY <2>2, <2>3, <3>2, <4>2, <4>3
    <3> QED BY <3>1, <3>2
  <2>6. ReadKept' BY <1>1, <2>1, <2>4, <2>5 DEF ReadKept
  <2> QED BY <1>3, <2>1, <2>6
<1>9. CASE Commit
  <2>1. /\ UNCHANGED <<fh, ident, pos, accepted, dropped>> /\ saved'.ino = ident /\ saved'.off = pos
        /\ phase = "posting" /\ phase' = "idle" /\ ident # None /\ done = Len(batch)
    BY <1>9 DEF Commit, Structure, reader
  <2>2. Unsettled = {} BY <1>2, <2>1 DEF Unsettled, Behind
  <2>3. Delivered' = Delivered BY <2>1 DEF Delivered
  <2>4. pos <= Size(ident) => Taken(ident, pos) \subseteq Delivered
    BY <2>1, <2>2 DEF ReadKept, Active
  <2> QED BY <1>1, <2>1, <2>3, <2>4 DEF StoredDelivered, ReadKept
<1>10. CASE PostAccepted \/ PostDropped
  <2>1. PICK end \in 1..Len(batch) : done' = end /\ Delivered' = Delivered \cup Piece(end)
    BY <1>10 DEF PostAccepted, PostDropped, Delivered
  <2>2. UNCHANGED <<fh, ident, pos, buf, batch, saved, phase>>
    BY <1>10 DEF PostAccepted, PostDropped, reader
  <2>3. Unsettled \subseteq Piece(end) \cup Unsettled'
    BY <1>2, <2>1, <2>2 DEF Unsettled, Behind, Piece
  <2>4. StoredDelivered' BY <1>1, <2>1, <2>2 DEF StoredDelivered
  <2>5. ReadKept' BY <1>1, <2>1, <2>2, <2>3 DEF ReadKept, Active
  <2> QED BY <1>1, <2>2, <2>4, <2>5
<1>11. CASE PostAnswerLost \/ PostSplit
  <2>1. /\ UNCHANGED <<phase, fh, ident, pos, buf, batch, done, saved>>
        /\ Delivered \subseteq Delivered'
    BY <1>11 DEF PostAnswerLost, PostSplit, reader, post, Delivered
  <2>2. Unsettled' = Unsettled BY <2>1 DEF Unsettled
  <2> QED BY <1>1, <2>1, <2>2 DEF StoredDelivered, ReadKept, Active
<1>12. CASE PostGarbled
  BY <1>12 DEF PostGarbled, Breach
<1>13. CASE Stop
  <2>1. UNCHANGED <<saved, accepted, dropped>> /\ ident' = None /\ buf' = None BY <1>13 DEF Stop
  <2> QED BY <1>3, <2>1 DEF ReadKept, Active
<1>14. CASE StartRead \/ CheckNothingNew \/ Start
  <2>1. /\ UNCHANGED <<fh, ident, pos, buf, batch, saved, accepted, dropped>> /\ done' = done
        /\ phase' # "eof" /\ (phase' = "posting" => fh # None)
    BY <1>14 DEF StartRead, CheckNothingNew, Start, Return, Structure, reader, post
  <2>2. Unsettled' = Unsettled /\ Delivered' = Delivered BY <2>1 DEF Unsettled, Delivered
  <2> QED BY <1>1, <1>3, <2>1, <2>2 DEF ReadKept, Active
<1> QED
  BY <1>4, <1>5, <1>6, <1>7, <1>8, <1>9, <1>10, <1>11, <1>12, <1>13, <1>14, ProcessCases
     DEF Posting

\* Every step keeps what lies before the positions delivered or in the batch.
LEMMA PrefixStep ==
  ASSUME BoundsAssumption, TypeOK, Structure, PlaceInv, PrefixInv, [Next]_vars
  PROVE  PrefixInv'
<1>1. SUFFICES ASSUME "truncated" \notin breaches', "garbled" \notin breaches' PROVE Prefixed'
  BY DEF PrefixInv
<1>2. breaches \subseteq breaches' BY BreachesType DEF vars
<1>3. Placed /\ Prefixed BY <1>1, <1>2 DEF PlaceInv, PrefixInv
<1>4. CASE Environment BY <1>1, <1>3, <1>4, EnvironmentPrefixed
<1>5. CASE Process BY <1>1, <1>3, <1>5, ProcessPrefixed
<1>6. CASE UNCHANGED vars
  <2>1. \A f, off : Size(f)' = Size(f) /\ Taken(f, off)' = Taken(f, off)
    BY <1>6 DEF vars, disk, Size, Taken, Nth
  <2>2. /\ UNCHANGED <<phase, saved, fh, ident, pos>>
        /\ Delivered' = Delivered /\ Unsettled' = Unsettled
    BY <1>6 DEF vars, reader, post, Delivered, Unsettled
  <2> QED BY <1>3, <2>1, <2>2 DEF Prefixed, StoredDelivered, ReadKept, Active
<1> QED BY <1>4, <1>5, <1>6, NextCases

\* The invariants of the positions hold in every state log shipping can reach.
LEMMA Positions == Spec => [](PlaceInv /\ PrefixInv)
<1>1. Init => PlaceInv /\ PrefixInv
  BY DEF Init, PlaceInv, Placed, StoredFits, NotBehind, BeyondEnd, TailIsNext, Active, NoPosition,
         PrefixInv, Prefixed, StoredDelivered, ReadKept
<1>2. IInv /\ PlaceInv /\ PrefixInv /\ [Next]_vars => PlaceInv' /\ PrefixInv'
  BY PlaceStep, PrefixStep, BoundsAssumption DEF IInv
<1> QED BY Invariance, <1>1, <1>2, PTL DEF Spec

\* A stored position never moves back within a file that was not truncated, nor to an older
\* file, whatever the operator rotates and however often the agent dies.
THEOREM PositionOnlyAdvances == Spec => PositionAdvances
<1>1. PlaceInv /\ IInv /\ [Next]_vars =>
        [ \/ "truncated" \in breaches
          \/ saved'.ino > saved.ino
          \/ saved'.ino = saved.ino
               /\ (saved'.off >= saved.off \/ Size(saved.ino) < saved.off)
        ]_saved
  <2> SUFFICES ASSUME PlaceInv, IInv, Next, saved' # saved, "truncated" \notin breaches
               PROVE  \/ saved'.ino > saved.ino
                      \/ saved'.ino = saved.ino
                           /\ (saved'.off >= saved.off \/ Size(saved.ino) < saved.off)
    BY DEF vars
  <2>1. Commit BY OnlyCommitMoves
  <2>2. /\ saved'.ino = ident /\ saved'.off = pos /\ phase = "posting" /\ ident # None
        /\ saved.ino <= ident
    BY <2>1 DEF Commit, IInv, Structure
  <2>3. ident \in Nat /\ saved.ino \in Nat
    BY PositionsType DEF IInv, Inode, None
  <2>4. NotBehind BY DEF PlaceInv, Placed
  <2> QED BY <2>2, <2>3, <2>4 DEF NotBehind, Active
<1> QED
  BY Invariance, Positions, <1>1, PTL DEF Spec, PositionAdvances

\* All lines of a file before the stored position have been delivered, whatever is rotated
\* and however often the agent dies.
THEOREM PrefixCommitted == Spec => []CommittedPrefix
<1>1. IInv /\ PrefixInv => CommittedPrefix
  <2> SUFFICES ASSUME IInv, Prefixed, saved.ino # None, saved.off <= Size(saved.ino),
                      NEW i \in 1..Len(content[saved.ino]), i <= saved.off
               PROVE  content[saved.ino][i] \in Delivered
    BY DEF PrefixInv, CommittedPrefix
  <2>1. saved.off \in Nat BY PositionsType DEF IInv
  <2>2. i \in 1..saved.off /\ Nth(saved.ino, i) = content[saved.ino][i] BY <2>1 DEF Nth
  <2> QED BY <2>2 DEF Prefixed, StoredDelivered, Taken
<1> QED BY Invariance, Positions, <1>1, PTL

-----------------------------------------------------------------------------
\* No line stands twice, in one file or in two, and what is in the files has been written.
Unique ==
  \A f, g \in Inode : \A i \in 1..Size(f), j \in 1..Size(g) : Nth(f, i) = Nth(g, j) => f = g /\ i = j
Fresh == \A f \in Inode : \A i \in 1..Size(f) : Nth(f, i) \in Written
LinesInv == Unique /\ Fresh

\* A batch holds lines that were written, and none of those before the stored position.
Known == Batched \subseteq Written /\ Delivered \subseteq Written
NotAgain ==
  saved.ino # None /\ saved.off <= Size(saved.ino) =>
    \A i \in 1..saved.off : Nth(saved.ino, i) \notin Batched
BatchInv == "truncated" \notin breaches => Known /\ NotAgain

\* What is settled of a batch is delivered; of the lines of a file, the earlier ones come
\* first in the batch, unless they have been delivered, and are delivered first.
SettledDelivered == \A k \in 1..Len(batch) : k <= done => batch[k] \in Delivered
BatchOrder ==
  \A f \in Inode : \A i, j \in 1..Size(f) : \A k \in 1..Len(batch) :
    i < j /\ batch[k] = Nth(f, j) =>
      Nth(f, i) \in Delivered \/ \E m \in 1..(k - 1) : batch[m] = Nth(f, i)
DeliveryOrder ==
  \A f \in Inode : \A i, j \in 1..Size(f) :
    i < j /\ Nth(f, j) \in Delivered => Nth(f, i) \in Delivered
Ordered == SettledDelivered /\ BatchOrder /\ DeliveryOrder
OrderInv == breaches \cap {"truncated", "garbled"} = {} => Ordered

\* Each line of a file was there before the step, or is the one the step begins.
LinesMove ==
  \A f \in Inode : \A i \in 1..Size(f)' :
    \/ i \in 1..Size(f) /\ Nth(f, i)' = Nth(f, i)
    \/ f = writer /\ i = Size(f) + 1 /\ Nth(f, i)' = next /\ next' = next + 1

\* It is so for every step of the environment, truncation included.
LEMMA EnvironmentLines ==
  ASSUME BoundsAssumption, TypeOK, Structure, Environment
  PROVE  LinesMove /\ next \in Nat /\ next' \in {next, next + 1}
<1> USE DEF None
<1>1. \A f \in Inode : Size(f) \in Nat BY SizeType DEF TypeOK
<1>2. next \in Nat BY DEF TypeOK, DiskType
<1>3. CASE BeginLine
  <2>1. /\ torn[writer] = None /\ next \in Line /\ next' = next + 1
        /\ \A f \in Inode : Size(f)' = IF f = writer THEN Size(f) + 1 ELSE Size(f)
    BY <1>3, BeginLineSize DEF BeginLine
  <2>2. \A f \in Inode : \A i \in 1..Size(f) : Nth(f, i)' = Nth(f, i) BY <1>3, LinesStay
  <2>3. Size(writer) = Len(content[writer]) /\ writer \in Inode
    BY <2>1 DEF Size, TypeOK, DiskType
  <2>4. \A i \in Nat : i = Size(writer) + 1 => Nth(writer, i)' = next
    <3>1. /\ writer' = writer /\ content'[writer] = content[writer] /\ torn'[writer] = next
          /\ Len(content[writer]) \in Nat
      BY <1>3, <2>3 DEF BeginLine, TypeOK, DiskType
    <3> QED BY <2>3, <3>1 DEF Nth
  <2>5. ASSUME NEW f \in Inode, NEW i \in 1..Size(f)'
        PROVE  \/ i \in 1..Size(f) /\ Nth(f, i)' = Nth(f, i)
               \/ f = writer /\ i = Size(f) + 1 /\ Nth(f, i)' = next
    <3>1. Size(f)' = IF f = writer THEN Size(f) + 1 ELSE Size(f) BY <2>1
    <3>2. Size(f) \in Nat BY <1>1
    <3>3. CASE i \in 1..Size(f) BY <2>2, <3>3
    <3>4. CASE i \notin 1..Size(f)
      <4>1. f = writer /\ i = Size(f) + 1 BY <3>1, <3>2, <3>4
      <4>2. writer' = writer BY <1>3 DEF BeginLine
      <4> QED BY <2>4, <4>1, <4>2
    <3> QED BY <3>3, <3>4
  <2> QED BY <1>2, <2>1, <2>5 DEF LinesMove
<1>4. CASE EndLine
  <2>1. \A f \in Inode : Size(f)' = Size(f) BY <1>4, EndLineSize
  <2>2. \A f \in Inode : \A i \in 1..Size(f) : Nth(f, i)' = Nth(f, i) BY <1>4, LinesStay
  <2> QED BY <1>2, <1>4, <2>1, <2>2 DEF LinesMove, EndLine
<1>5. CASE UNCHANGED <<content, torn, next>>
  <2>1. \A f, i : Size(f)' = Size(f) /\ Nth(f, i)' = Nth(f, i) BY <1>5 DEF Size, Nth
  <2> QED BY <1>2, <1>5, <2>1 DEF LinesMove
<1>6. CASE Truncate
  <2>1. \A f \in Inode : f # live => Size(f)' = Size(f) /\ \A i : Nth(f, i)' = Nth(f, i)
    BY <1>6 DEF Truncate, Size, Nth, TypeOK, DiskType
  <2>2. \A f \in Inode : f = live => Size(f)' = 0
    BY <1>6 DEF Truncate, Size, TypeOK, DiskType
  <2> QED BY <1>2, <1>6, <2>1, <2>2 DEF LinesMove, Truncate
<1>7. BeginLine \/ EndLine \/ Truncate \/ UNCHANGED <<content, torn, next>>
  BY EnvironmentCases DEF Rename, Create, Reopen, Vanish
<1> QED BY <1>3, <1>4, <1>5, <1>6, <1>7

\* No step writes a line twice.
LEMMA LinesStep ==
  ASSUME BoundsAssumption, TypeOK, Structure, LinesInv, [Next]_vars
  PROVE  LinesInv'
<1>1. CASE Environment
  <2>1. LinesMove /\ next \in Nat /\ next' \in {next, next + 1} BY <1>1, EnvironmentLines
  <2>2. \A f \in Inode : \A i \in 1..Size(f) : Nth(f, i) \in 1..(next - 1)
    BY DEF LinesInv, Fresh, Written
  <2>3. Fresh'
    <3> SUFFICES ASSUME NEW f \in Inode, NEW i \in 1..Size(f)'
                 PROVE  Nth(f, i)' \in 1..(next' - 1)
      BY DEF Fresh, Written
    <3>1. CASE i \in 1..Size(f) /\ Nth(f, i)' = Nth(f, i)
      <4>1. Nth(f, i)' \in 1..(next - 1) BY <2>2, <3>1
      <4> QED BY <2>1, <4>1
    <3>2. CASE Nth(f, i)' = next /\ next' = next + 1
      <4>1. next >= 1 BY DEF TypeOK, DiskType
      <4> QED BY <2>1, <3>2, <4>1
    <3> QED BY <2>1, <3>1, <3>2 DEF LinesMove
  <2>4. Unique'
    <3> SUFFICES ASSUME NEW f \in Inode, NEW g \in Inode,
                        NEW i \in 1..Size(f)', NEW j \in 1..Size(g)', Nth(f, i)' = Nth(g, j)'
                 PROVE  f = g /\ i = j
      BY DEF Unique
    <3>1. \/ i \in 1..Size(f) /\ Nth(f, i)' = Nth(f, i)
          \/ f = writer /\ i = Size(f) + 1 /\ Nth(f, i)' = next
      BY <2>1 DEF LinesMove
    <3>2. \/ j \in 1..Size(g) /\ Nth(g, j)' = Nth(g, j)
          \/ g = writer /\ j = Size(g) + 1 /\ Nth(g, j)' = next
      BY <2>1 DEF LinesMove
    <3>3. next \notin 1..(next - 1) BY <2>1
    <3> QED BY <2>2, <3>1, <3>2, <3>3 DEF LinesInv, Unique
  <2> QED BY <2>3, <2>4 DEF LinesInv
<1>2. CASE UNCHANGED disk
  <2>1. Written' = Written /\ \A f, i : Size(f)' = Size(f) /\ Nth(f, i)' = Nth(f, i)
    BY <1>2 DEF disk, Size, Nth, Written
  <2> QED BY <2>1 DEF LinesInv, Unique, Fresh
<1> QED BY <1>1, <1>2, NextCases, ProcessFrame DEF vars

\* What the agent's steps do to the batch: the next lines of the file are added to it, a
\* piece of it is settled or posted, it is given up, or it is left alone.
Grows ==
  /\ fh # None /\ ident # None /\ done' = 0 /\ UNCHANGED <<saved, accepted, dropped>>
  /\ \E n \in Nat :
       /\ n = 0 \/ pos + n <= Size(ident)
       /\ Len(batch') = Len(batch) + n
       /\ \A k \in 1..Len(batch) : batch'[k] = batch[k]
       /\ \A k \in 1..n : batch'[Len(batch) + k] = Nth(ident, pos + k)
Settles ==
  \E end \in 1..Len(batch) :
    /\ Delivered' = Delivered \cup Piece(end) /\ done' \in {done, end}
    /\ UNCHANGED <<saved, batch>>
Empties == batch' = << >> /\ UNCHANGED <<accepted, dropped>>
Keeps == UNCHANGED <<saved, batch, done, accepted, dropped>>

\* The elements of a concatenation.
LEMMA ConcatNth ==
  ASSUME NEW s \in Seq(Line), NEW t \in Seq(Line)
  PROVE  /\ Len(s \o t) = Len(s) + Len(t)
         /\ \A k \in 1..Len(s) : (s \o t)[k] = s[k]
         /\ \A k \in 1..Len(t) : (s \o t)[Len(s) + k] = t[k]
OBVIOUS

\* Every step of the agent does one of these four to the batch.
LEMMA ProcessBatch ==
  ASSUME BoundsAssumption, TypeOK, Structure, Placed, Process
  PROVE  Grows \/ Settles \/ Empties \/ Keeps
<1>1. /\ batch \in Seq(Line) /\ Len(batch) \in Nat /\ pos \in Nat
      /\ content \in [Inode -> Seq(Line)] /\ ident \in Inode \cup {None}
  BY DEF TypeOK, PostType, ReaderType, DiskType
<1>2. CASE ReadLines
  <2>1. PICK n \in Nat :
          /\ n = 0 \/ pos + n <= Len(content[ident])
          /\ batch' = batch \o SubSeq(content[ident], pos + 1, pos + n)
    BY <1>2, ReadLinesMoves
  <2>2. /\ UNCHANGED <<saved, accepted, dropped>> /\ fh # None /\ ident # None /\ done' = 0
    BY <1>2 DEF ReadLines, Return, Structure
  <2>3. /\ content[ident] \in Seq(Line) /\ Len(content[ident]) \in Nat
        /\ Size(ident) \in Nat /\ Len(content[ident]) <= Size(ident)
    BY <1>1, <2>2, SizeType DEF TypeOK
  <2> DEFINE read == SubSeq(content[ident], pos + 1, pos + n)
  <2>4. /\ read \in Seq(Line) /\ Len(read) = n
        /\ \A k \in 1..n : read[k] = content[ident][pos + k] /\ pos + k <= Len(content[ident])
    BY <1>1, <2>1, <2>3
  <2> HIDE DEF read
  <2>5. /\ Len(batch \o read) = Len(batch) + n
        /\ \A k \in 1..Len(batch) : (batch \o read)[k] = batch[k]
        /\ \A k \in 1..n : (batch \o read)[Len(batch) + k] = read[k]
    BY <1>1, <2>4, ConcatNth
  <2>6. batch' = batch \o read BY <2>1 DEF read
  <2>7. \A k \in 1..n : Nth(ident, pos + k) = read[k] BY <2>4 DEF Nth
  <2>8. n = 0 \/ pos + n <= Size(ident) BY <1>1, <2>1, <2>3
  <2> QED BY <2>2, <2>5, <2>6, <2>7, <2>8 DEF Grows
<1>3. CASE CheckRotated \/ CheckRotatedOpenFails
  <2>1. /\ UNCHANGED <<saved, accepted, dropped>> /\ fh # None /\ ident # None /\ done' = 0
        /\ batch' = WithTail /\ phase = "eof"
    BY <1>3 DEF CheckRotated, CheckRotatedOpenFails, NextRound, Return, Structure
  <2>2. CASE buf = None
    <3>1. batch' = batch BY <2>1, <2>2 DEF WithTail
    <3>2. /\ Len(batch') = Len(batch) + 0 /\ \A k \in 1..Len(batch) : batch'[k] = batch[k]
          /\ \A k \in 1..0 : batch'[Len(batch) + k] = Nth(ident, pos + k)
      BY <1>1, <3>1
    <3> QED BY <2>1, <3>2 DEF Grows
  <2>3. CASE buf # None
    <3>1. batch' = Append(batch, buf) BY <2>1, <2>3 DEF WithTail
    <3>2. pos + 1 <= Size(ident) /\ buf = Nth(ident, pos + 1)
      BY <2>1, <2>3 DEF Placed, TailIsNext
    <3>3. /\ Len(batch') = Len(batch) + 1 /\ batch'[Len(batch) + 1] = buf
          /\ \A k \in 1..Len(batch) : batch'[k] = batch[k]
      BY <1>1, <3>1
    <3> QED BY <2>1, <3>2, <3>3 DEF Grows
  <2> QED BY <2>2, <2>3
<1>4. CASE PostAccepted \/ PostDropped \/ PostAnswerLost
  BY <1>4 DEF PostAccepted, PostDropped, PostAnswerLost, Delivered, Settles, post
<1>5. CASE PostGarbled \/ Commit \/ Stop
  BY <1>5 DEF PostGarbled, Commit, Stop, Empties
<1>6. CASE OpenLog \/ StartRead \/ CheckNothingNew \/ CheckTruncated \/ PostSplit \/ Start
  BY <1>6 DEF OpenLog, StartRead, CheckNothingNew, CheckTruncated, PostSplit, Start, NextRound,
              Return, Structure, Keeps, post
<1> QED BY <1>2, <1>3, <1>4, <1>5, <1>6, ProcessCases DEF Posting

\* What the operator's steps leave of the batch and of the order.
LEMMA EnvironmentOrdered ==
  ASSUME BoundsAssumption, TypeOK, Structure, Environment, LinesInv, Known,
         "truncated" \notin breaches'
  PROVE  Known' /\ (NotAgain => NotAgain') /\ (Ordered => Ordered')
<1> USE DEF None
<1>1. LinesMove /\ next \in Nat /\ next' \in {next, next + 1} BY EnvironmentLines
<1>2. UNCHANGED <<saved, batch, done, accepted, dropped>>
  BY EnvironmentFrame DEF post
<1>3. Delivered' = Delivered /\ Batched' = Batched BY <1>2 DEF Delivered, Batched
<1>4. next \notin Delivered /\ next \notin Batched BY <1>1 DEF Known, Written
<1>5. Known'
  <2>1. 1..(next - 1) \subseteq 1..(next' - 1)
    <3>1. CASE next' = next BY <3>1
    <3>2. CASE next' = next + 1 BY <1>1, <3>2
    <3> QED BY <1>1, <3>1, <3>2
  <2> QED BY <1>3, <2>1 DEF Known, Written
<1>6. ASSUME NEW f \in Inode, NEW i \in 1..Size(f)', Nth(f, i)' \in Delivered \cup Batched
      PROVE  i \in 1..Size(f) /\ Nth(f, i)' = Nth(f, i)
  BY <1>1, <1>4, <1>6 DEF LinesMove
<1>7. ASSUME NEW f \in Inode, NEW i \in 1..Size(f)', NEW j \in 1..Size(f)', i < j, j \in 1..Size(f)
      PROVE  i \in 1..Size(f) /\ Nth(f, i)' = Nth(f, i)
  <2>1. Size(f) \in Nat BY SizeType DEF TypeOK
  <2> QED BY <1>1, <1>7, <2>1 DEF LinesMove
<1>8. ASSUME Ordered PROVE Ordered'
  <2>1. SettledDelivered' BY <1>2, <1>3, <1>8 DEF Ordered, SettledDelivered
  <2>2. BatchOrder'
    <3> SUFFICES ASSUME NEW f \in Inode, NEW i \in 1..Size(f)', NEW j \in 1..Size(f)',
                        NEW k \in 1..Len(batch), i < j, batch[k] = Nth(f, j)'
                 PROVE  Nth(f, i)' \in Delivered \/ \E m \in 1..(k - 1) : batch[m] = Nth(f, i)'
      BY <1>2, <1>3 DEF BatchOrder
    <3>1. Nth(f, j)' \in Batched BY DEF Batched
    <3>2. j \in 1..Size(f) /\ Nth(f, j)' = Nth(f, j) BY <1>6, <3>1
    <3>3. i \in 1..Size(f) /\ Nth(f, i)' = Nth(f, i) BY <1>7, <3>2
    <3> QED BY <1>8, <3>2, <3>3 DEF Ordered, BatchOrder
  <2>3. DeliveryOrder'
    <3> SUFFICES ASSUME NEW f \in Inode, NEW i \in 1..Size(f)', NEW j \in 1..Size(f)',
                        i < j, Nth(f, j)' \in Delivered
                 PROVE  Nth(f, i)' \in Delivered
      BY <1>3 DEF DeliveryOrder
    <3>1. j \in 1..Size(f) /\ Nth(f, j)' = Nth(f, j) BY <1>6
    <3>2. i \in 1..Size(f) /\ Nth(f, i)' = Nth(f, i) BY <1>7, <3>1
    <3> QED BY <1>8, <3>1, <3>2 DEF Ordered, DeliveryOrder
  <2> QED BY <2>1, <2>2, <2>3 DEF Ordered
<1>9. ASSUME NotAgain PROVE NotAgain'
  <2> DEFINE f == saved.ino
  <2>1. f \in Inode \cup {None} /\ saved.off \in Nat BY PositionsType
  <2>2. PICK s \in Inode \cup {None} : s = saved.ino BY <2>1
  <2>3. PICK off \in Nat : off = saved.off BY <2>1
  <2>4. s # None /\ off <= Size(s)' => off <= Size(s)
    <3> SUFFICES ASSUME s # None, off <= Size(s)' PROVE off <= Size(s)
      OBVIOUS
    <3>1. s \in Inode /\ Size(s) \in Nat BY SizeType DEF TypeOK
    <3>2. CASE BeginLine
      <4>1. Size(s)' = IF s = writer THEN Size(s) + 1 ELSE Size(s) BY <3>1, <3>2, BeginLineSize
      <4>2. s = writer => off # Size(writer) + 1
        BY <2>2, <2>3, <3>2, "truncated" \notin breaches'
           DEF BeginLine, Breach, When, Remembered
      <4> QED BY <3>1, <4>1, <4>2
    <3>3. CASE EndLine BY <3>1, <3>3, EndLineSize
    <3>4. CASE UNCHANGED <<content, torn>> BY <3>4 DEF Size
    <3>5. CASE Truncate
      <4>1. Size(s)' = IF s = live THEN 0 ELSE Size(s)
        <5>1. CASE s = live BY <3>1, <3>5, <5>1 DEF Truncate, Size, TypeOK, DiskType
        <5>2. CASE s # live BY <3>1, <3>5, <5>2 DEF Truncate, Size, TypeOK, DiskType
        <5> QED BY <5>1, <5>2
      <4> QED BY <3>1, <4>1
    <3>6. BeginLine \/ EndLine \/ Truncate \/ UNCHANGED <<content, torn>>
      BY EnvironmentCases DEF Rename, Create, Reopen, Vanish
    <3> QED BY <3>2, <3>3, <3>4, <3>5, <3>6
  <2>5. SUFFICES ASSUME s # None, off <= Size(s)', NEW i \in 1..off
                 PROVE  Nth(s, i)' \notin Batched
    BY <1>2, <1>3, <2>2, <2>3 DEF NotAgain
  <2>6. off <= Size(s) /\ s \in Inode BY <2>4, <2>5
  <2>7. Nth(s, i) \notin Batched BY <1>9, <2>2, <2>3, <2>5, <2>6 DEF NotAgain
  <2>8. Size(s)' \in Nat
    <3>1. DiskType' BY DiskTypeStep DEF Next
    <3> QED BY <2>6, <3>1 DEF DiskType, Size
  <2>9. i \in 1..Size(s)' BY <2>5, <2>8
  <2> QED BY <1>6, <2>6, <2>7, <2>9
<1> QED BY <1>5, <1>8, <1>9

\* What the agent's steps leave of the batch: what they add lies behind the stored position.
LEMMA ProcessBatched ==
  ASSUME BoundsAssumption, TypeOK, Structure, Process, LinesInv, Placed, Known, NotAgain
  PROVE  Known' /\ NotAgain'
<1>1. /\ UNCHANGED disk /\ Written' = Written
      /\ \A f, i : Size(f)' = Size(f) /\ Nth(f, i)' = Nth(f, i)
  BY ProcessFrame DEF disk, Size, Nth, Written
<1>2. /\ Len(batch) \in Nat /\ pos \in Nat /\ ident \in Inode \cup {None} /\ done \in Nat
      /\ saved.ino \in Inode \cup {None} /\ saved.off \in Nat
      /\ \A f \in Inode : Size(f) \in Nat
  BY PositionsType, SizeType DEF TypeOK, PostType
<1>3. CASE Grows
  <2>1. PICK n \in Nat :
          /\ n = 0 \/ pos + n <= Size(ident)
          /\ Len(batch') = Len(batch) + n
          /\ \A k \in 1..Len(batch) : batch'[k] = batch[k]
          /\ \A k \in 1..n : batch'[Len(batch) + k] = Nth(ident, pos + k)
    BY <1>3 DEF Grows
  <2>2. UNCHANGED <<saved, accepted, dropped>> /\ ident # None /\ fh # None BY <1>3 DEF Grows
  <2>3. \A k \in 1..n : pos + k \in 1..Size(ident) BY <1>2, <2>1, <2>2
  <2>4. ASSUME NEW x \in Batched'
        PROVE  x \in Batched \/ \E k \in 1..n : x = Nth(ident, pos + k)
    <3>1. PICK k \in 1..(Len(batch) + n) : x = batch'[k] BY <2>1 DEF Batched
    <3>2. CASE k <= Len(batch) BY <1>2, <2>1, <3>1, <3>2 DEF Batched
    <3>3. CASE k > Len(batch)
      <4>1. k - Len(batch) \in 1..n /\ Len(batch) + (k - Len(batch)) = k BY <1>2, <3>3
      <4>2. batch'[k] = Nth(ident, pos + (k - Len(batch))) BY <2>1, <4>1
      <4> QED BY <3>1, <4>1, <4>2
    <3> QED BY <1>2, <3>2, <3>3
  <2>5. Known'
    <3>1. \A k \in 1..n : Nth(ident, pos + k) \in Written
      BY <1>2, <2>2, <2>3 DEF LinesInv, Fresh
    <3> QED BY <1>1, <2>2, <2>4, <3>1 DEF Known, Delivered
  <2>6. NotAgain'
    <3> SUFFICES ASSUME saved.ino # None, saved.off <= Size(saved.ino), NEW i \in 1..saved.off
                 PROVE  Nth(saved.ino, i) \notin Batched'
      BY <1>1, <2>2 DEF NotAgain
    <3>1. Nth(saved.ino, i) \notin Batched BY Zenon DEF NotAgain
    <3>2. ASSUME NEW k \in 1..n PROVE Nth(saved.ino, i) # Nth(ident, pos + k)
      <4> DEFINE s == saved.ino
      <4>1. i \in 1..Size(s) /\ pos + k \in 1..Size(ident)
        <5>1. s \in Inode /\ Size(s) \in Nat /\ saved.off \in Nat /\ saved.off <= Size(s) BY <1>2
        <5> HIDE DEF s
        <5> QED BY <2>3, <5>1
      <4>2. Nth(saved.ino, i) = Nth(ident, pos + k) => saved.ino = ident /\ i = pos + k
        BY <1>2, <2>2, <4>1 DEF LinesInv, Unique
      <4>3. saved.ino = ident => pos >= saved.off
        BY <1>2, <2>2 DEF Placed, NotBehind, Active
      <4> QED BY <1>2, <4>2, <4>3
    <3> QED BY <2>4, <3>1, <3>2
  <2> QED BY <2>5, <2>6
<1>4. CASE Settles
  <2>1. PICK end \in 1..Len(batch) : Delivered' = Delivered \cup Piece(end)
    BY <1>4 DEF Settles
  <2>2. UNCHANGED <<saved, batch>> BY <1>4 DEF Settles
  <2>3. Piece(end) \subseteq Batched /\ Batched' = Batched BY <2>2 DEF Piece, Batched
  <2> QED BY <1>1, <2>1, <2>2, <2>3 DEF Known, NotAgain
<1>5. CASE Empties
  <2>1. Batched' = {} /\ Delivered' = Delivered BY <1>5 DEF Empties, Batched, Delivered
  <2> QED BY <1>1, <2>1 DEF Known, NotAgain
<1>6. CASE Keeps
  <2>1. Batched' = Batched /\ Delivered' = Delivered /\ saved' = saved
    BY <1>6 DEF Keeps, Batched, Delivered
  <2> QED BY <1>1, <2>1 DEF Known, NotAgain
<1> QED BY <1>3, <1>4, <1>5, <1>6, ProcessBatch

\* What the agent's steps leave of the order: the batch grows by the lines that follow what
\* is delivered or in it already, and a piece is delivered after what comes before it.
LEMMA ProcessOrdered ==
  ASSUME BoundsAssumption, TypeOK, Structure, Process, LinesInv, Placed, Prefixed, Ordered
  PROVE  Ordered'
<1>1. \A f, i : Size(f)' = Size(f) /\ Nth(f, i)' = Nth(f, i)
  BY ProcessFrame DEF disk, Size, Nth
<1>2. /\ Len(batch) \in Nat /\ pos \in Nat /\ ident \in Inode \cup {None} /\ done \in Nat
      /\ \A f \in Inode : Size(f) \in Nat
  BY PositionsType, SizeType DEF TypeOK, PostType
<1>3. CASE Grows
  <2>1. PICK n \in Nat :
          /\ n = 0 \/ pos + n <= Size(ident)
          /\ Len(batch') = Len(batch) + n
          /\ \A k \in 1..Len(batch) : batch'[k] = batch[k]
          /\ \A k \in 1..n : batch'[Len(batch) + k] = Nth(ident, pos + k)
    BY <1>3 DEF Grows
  <2>2. /\ UNCHANGED <<accepted, dropped>> /\ ident # None /\ fh # None /\ done' = 0
        /\ Delivered' = Delivered
    BY <1>3 DEF Grows, Delivered
  <2>3. BatchOrder'
    <3> SUFFICES ASSUME NEW f \in Inode, NEW i \in 1..Size(f), NEW j \in 1..Size(f),
                        NEW k \in 1..(Len(batch) + n), i < j, batch'[k] = Nth(f, j)
                 PROVE  Nth(f, i) \in Delivered \/ \E m \in 1..(k - 1) : batch'[m] = Nth(f, i)
      BY <1>1, <2>1, <2>2 DEF BatchOrder
    <3>1. CASE k <= Len(batch)
      <4>1. k \in 1..Len(batch) /\ batch[k] = Nth(f, j) BY <1>2, <2>1, <3>1
      <4>2. Nth(f, i) \in Delivered \/ \E m \in 1..(k - 1) : batch[m] = Nth(f, i)
        BY <4>1 DEF Ordered, BatchOrder
      <4>3. \A m \in 1..(k - 1) : batch'[m] = batch[m] BY <1>2, <2>1, <3>1
      <4> QED BY <4>2, <4>3
    <3>2. CASE k > Len(batch)
      <4>1. PICK t \in 1..n : k = Len(batch) + t
        <5>1. k - Len(batch) \in 1..n /\ k = Len(batch) + (k - Len(batch)) BY <1>2, <3>2
        <5> QED BY <5>1
      <4>2. pos + t \in 1..Size(ident) /\ pos <= Size(ident) BY <1>2, <2>1, <2>2
      <4>3. f = ident /\ j = pos + t
        <5>1. Nth(f, j) = Nth(ident, pos + t) BY <2>1, <4>1
        <5>2. ident \in Inode BY <1>2, <2>2
        <5> QED BY <4>2, <5>1, <5>2 DEF LinesInv, Unique
      <4>4. CASE i <= pos
        <5>1. Nth(ident, i) \in Taken(ident, pos) BY <1>2, <4>4 DEF Taken
        <5>2. Nth(ident, i) \in Delivered \cup Unsettled
          BY <2>2, <4>2, <5>1 DEF Prefixed, ReadKept, Active
        <5>3. ASSUME Nth(ident, i) \in Unsettled
              PROVE  \E m \in 1..Len(batch) : batch[m] = Nth(ident, i)
          BY <5>3 DEF Unsettled, Behind
        <5>4. \A m \in 1..Len(batch) : m \in 1..(k - 1) /\ batch'[m] = batch[m]
          BY <1>2, <2>1, <3>2
        <5> QED BY <4>3, <5>2, <5>3, <5>4
      <4>5. CASE i > pos
        <5>1. PICK u \in 1..n : i = pos + u /\ u < t
          <6>1. i - pos \in 1..n /\ i = pos + (i - pos) /\ i - pos < t BY <1>2, <4>3, <4>5
          <6> QED BY <6>1
        <5>2. Len(batch) + u \in 1..(k - 1) BY <1>2, <4>1, <5>1
        <5>3. batch'[Len(batch) + u] = Nth(f, i) BY <2>1, <4>3, <5>1
        <5> QED BY <5>2, <5>3
      <4> QED BY <1>2, <4>4, <4>5
    <3> QED BY <1>2, <3>1, <3>2
  <2>4. SettledDelivered' BY <2>2 DEF SettledDelivered
  <2>5. DeliveryOrder' BY <1>1, <2>2 DEF Ordered, DeliveryOrder
  <2> QED BY <2>3, <2>4, <2>5 DEF Ordered
<1>4. CASE Settles
  <2>1. PICK end \in 1..Len(batch) :
          Delivered' = Delivered \cup Piece(end) /\ done' \in {done, end}
    BY <1>4 DEF Settles
  <2>2. batch' = batch BY <1>4 DEF Settles
  <2>3. \A k \in 1..Len(batch) : k <= end => batch[k] \in Delivered'
    BY <1>2, <2>1 DEF Piece, Ordered, SettledDelivered
  <2>4. SettledDelivered' BY <2>1, <2>2, <2>3 DEF Ordered, SettledDelivered
  <2>5. BatchOrder' BY <1>1, <2>1, <2>2 DEF Ordered, BatchOrder
  <2>6. DeliveryOrder'
    <3> SUFFICES ASSUME NEW f \in Inode, NEW i \in 1..Size(f), NEW j \in 1..Size(f),
                        i < j, Nth(f, j) \in Delivered'
                 PROVE  Nth(f, i) \in Delivered'
      BY <1>1 DEF DeliveryOrder
    <3>1. CASE Nth(f, j) \in Delivered
      BY <2>1, <3>1 DEF Ordered, DeliveryOrder
    <3>2. CASE Nth(f, j) \in Piece(end)
      <4>1. PICK k \in 1..Len(batch) : k <= end /\ batch[k] = Nth(f, j) BY <3>2 DEF Piece
      <4>2. Nth(f, i) \in Delivered \/ \E m \in 1..(k - 1) : batch[m] = Nth(f, i)
        BY <4>1 DEF Ordered, BatchOrder
      <4>3. \A m \in 1..(k - 1) : m \in 1..Len(batch) /\ m <= end BY <1>2, <4>1
      <4> QED BY <2>1, <2>3, <4>2, <4>3
    <3> QED BY <2>1, <3>1, <3>2
  <2> QED BY <2>4, <2>5, <2>6 DEF Ordered
<1>5. CASE Empties
  <2>1. Delivered' = Delivered /\ Len(batch') = 0 BY <1>5 DEF Empties, Delivered
  <2>2. DeliveryOrder' BY <1>1, <2>1 DEF Ordered, DeliveryOrder
  <2> QED BY <2>1, <2>2 DEF Ordered, SettledDelivered, BatchOrder
<1>6. CASE Keeps
  <2>1. Delivered' = Delivered /\ batch' = batch /\ done' = done BY <1>6 DEF Keeps, Delivered
  <2> QED BY <1>1, <2>1 DEF Ordered, SettledDelivered, BatchOrder, DeliveryOrder
<1> QED BY <1>3, <1>4, <1>5, <1>6, ProcessBatch

\* Every step keeps the lines distinct, the batch ahead of the stored position, the order.
LEMMA OrderStep ==
  ASSUME BoundsAssumption, TypeOK, Structure, PlaceInv, PrefixInv, LinesInv, BatchInv, OrderInv,
         [Next]_vars
  PROVE  LinesInv' /\ BatchInv' /\ OrderInv'
<1>1. LinesInv' BY LinesStep
<1>2. breaches \subseteq breaches' BY BreachesType DEF vars
<1>3. CASE UNCHANGED vars
  <2>1. \A f, i : Size(f)' = Size(f) /\ Nth(f, i)' = Nth(f, i)
    BY <1>3 DEF vars, disk, Size, Nth
  <2>2. /\ UNCHANGED <<saved, batch, done, breaches>> /\ Delivered' = Delivered
        /\ Batched' = Batched /\ Written' = Written
    BY <1>3 DEF vars, disk, post, Delivered, Batched, Written
  <2>3. BatchInv' BY <2>1, <2>2 DEF BatchInv, Known, NotAgain
  <2>4. OrderInv'
    BY <2>1, <2>2 DEF OrderInv, Ordered, SettledDelivered, BatchOrder, DeliveryOrder
  <2> QED BY <1>1, <2>3, <2>4
<1>4. ASSUME Environment \/ Process, "truncated" \notin breaches'
      PROVE  Known' /\ NotAgain'
  <2>1. Known /\ NotAgain /\ Placed BY <1>2, <1>4 DEF BatchInv, PlaceInv
  <2> QED BY <1>4, <2>1, EnvironmentOrdered, ProcessBatched
<1>5. ASSUME Environment \/ Process, "truncated" \notin breaches', "garbled" \notin breaches'
      PROVE  Ordered'
  <2>1. Known /\ Placed /\ Prefixed /\ Ordered
    BY <1>2, <1>5 DEF BatchInv, PlaceInv, PrefixInv, OrderInv
  <2> QED BY <1>5, <2>1, EnvironmentOrdered, ProcessOrdered
<1>6. CASE Environment \/ Process BY <1>1, <1>4, <1>5, <1>6 DEF BatchInv, OrderInv
<1> QED BY <1>3, <1>6, NextCases

\* The invariants of batch and order hold in every state log shipping can reach.
LEMMA Orders == Spec => [](LinesInv /\ BatchInv /\ OrderInv)
<1>1. Init => LinesInv /\ BatchInv /\ OrderInv
  <2> SUFFICES ASSUME Init PROVE LinesInv /\ BatchInv /\ OrderInv
    OBVIOUS
  <2>1. \A f \in Inode : Size(f) = 0 BY DEF Init, Size
  <2>2. Batched = {} /\ Delivered = {} /\ Len(batch) = 0 /\ saved.ino = None
    BY DEF Init, Batched, Delivered, NoPosition
  <2> QED BY <2>1, <2>2 DEF LinesInv, Unique, Fresh, BatchInv, Known, NotAgain, OrderInv, Ordered,
       SettledDelivered, BatchOrder, DeliveryOrder
<1>2. IInv /\ PlaceInv /\ PrefixInv /\ LinesInv /\ BatchInv /\ OrderInv /\ [Next]_vars =>
        LinesInv' /\ BatchInv' /\ OrderInv'
  BY OrderStep, BoundsAssumption DEF IInv
<1> QED BY Invariance, Positions, <1>1, <1>2, PTL DEF Spec

\* What is posted lies behind the stored position: a crash repeats what was not committed
\* and nothing else.
THEOREM NothingRepeated == Spec => []NothingCommittedIsPosted
<1>1. IInv /\ BatchInv => NothingCommittedIsPosted
  <2> SUFFICES ASSUME IInv, NotAgain, saved.ino # None, saved.off <= Size(saved.ino),
                      NEW i \in 1..Len(batch), NEW j \in 1..Len(content[saved.ino]),
                      batch[i] = content[saved.ino][j], j <= saved.off
               PROVE  FALSE
    BY PositionsType DEF BatchInv, NothingCommittedIsPosted, IInv
  <2>1. j \in 1..saved.off BY PositionsType DEF IInv
  <2>2. Nth(saved.ino, j) = batch[i] BY DEF Nth
  <2> QED BY <2>1, <2>2 DEF NotAgain, Batched
<1> QED BY Invariance, Orders, <1>1, PTL

\* Lines reach the platform, or are dropped, in the order of their file, however the batches
\* that carry them are cut up, refused and posted again.
THEOREM OrderKept == Spec => []DeliveredInOrder
<1>1. IInv /\ OrderInv => DeliveredInOrder
  <2> SUFFICES ASSUME IInv, Ordered, NEW f \in Inode,
                      NEW i \in 1..Len(content[f]), NEW j \in 1..Len(content[f]),
                      i < j, content[f][j] \in Delivered
               PROVE  content[f][i] \in Delivered
    BY DEF OrderInv, DeliveredInOrder
  <2>1. Len(content[f]) \in Nat /\ Size(f) \in Nat /\ Len(content[f]) <= Size(f)
    BY SizeType DEF IInv, TypeOK
  <2>2. /\ i \in 1..Size(f) /\ Nth(f, i) = content[f][i]
        /\ j \in 1..Size(f) /\ Nth(f, j) = content[f][j]
    BY <2>1 DEF Nth
  <2> QED BY <2>2 DEF Ordered, DeliveryOrder
<1> QED BY Invariance, Orders, <1>1, PTL
=============================================================================
