---------------------------- MODULE DeliveryProofs ----------------------------
(***************************************************************************)
(* LogShipping implements Delivery, for any number of lines, files and     *)
(* restarts and any batch size: with inodes, offsets and batches hidden,   *)
(* each step is one the at-least-once channel may take, or a stutter.      *)
(***************************************************************************)
EXTENDS LogPositionProofs

\* The lines of a file behind an offset, one by one, and what a tailer reads that resumes
\* the file there and then goes on to the newest one.
Later(f, off) == {Nth(f, i) : i \in {j \in 1..Size(f) : j > off}}
AheadOf(f, off) ==
  IF f = None THEN Later(newest, 0)
  ELSE IF f = newest THEN Later(newest, Resume(newest, off))
  ELSE Later(f, off) \cup Later(newest, 0)
Ahead == AheadOf(saved.ino, saved.off)

\* Between the file of the stored position and the newest one no line is left behind, and
\* whatever the agent holds in memory a restart would read again.
MiddleEmpty == \A f \in Inode : saved.ino < f /\ f < newest => Size(f) = 0
HandsInv == breaches = {} => MiddleEmpty /\ Batched \subseteq Ahead

\* What is recoverable, line by line.
OwedInv == breaches = {} => Recoverable = Ahead

-----------------------------------------------------------------------------
\* The rest of a file are its later lines.
LEMMA RestIsLater ==
  ASSUME TypeOK, NEW f \in Inode, NEW off \in Nat
  PROVE  Rest(f, off) = Later(f, off)
<1> DEFINE lines == content[f]
           last == torn[f]
<1>1. lines \in Seq(Line) /\ Len(lines) \in Nat BY DEF TypeOK, DiskType
<1>2. \A i \in 1..Len(lines) : Nth(f, i) = lines[i] BY DEF Nth
<1>3. CASE last = None
  <2>1. Size(f) = Len(lines) BY <1>1, <1>3 DEF Size
  <2>2. Rest(f, off) = {lines[i] : i \in {j \in 1..Len(lines) : j > off}}
    BY <1>3 DEF Rest, Behind
  <2> QED BY <1>2, <2>1, <2>2 DEF Later
<1>4. CASE last # None
  <2>1. Size(f) = Len(lines) + 1 /\ Nth(f, Len(lines) + 1) = last
    BY <1>1, <1>4 DEF Size, Nth
  <2>2. Rest(f, off) = {lines[i] : i \in {j \in 1..Len(lines) : j > off}}
                         \cup (IF off <= Len(lines) THEN {last} ELSE {})
    BY <1>4 DEF Rest, Behind
  <2>3. ASSUME NEW x \in Rest(f, off) PROVE x \in Later(f, off)
    <3>1. CASE x \in {lines[i] : i \in {j \in 1..Len(lines) : j > off}}
      BY <1>1, <1>2, <2>1, <3>1 DEF Later
    <3>2. CASE off <= Len(lines) /\ x = last
      BY <1>1, <2>1, <3>2 DEF Later
    <3> QED BY <2>2, <2>3, <3>1, <3>2
  <2>4. ASSUME NEW i \in 1..(Len(lines) + 1), i > off PROVE Nth(f, i) \in Rest(f, off)
    <3>1. CASE i \in 1..Len(lines) BY <1>2, <2>2, <2>4, <3>1
    <3>2. CASE i = Len(lines) + 1 BY <1>1, <2>1, <2>2, <2>4, <3>2
    <3> QED BY <1>1, <3>1, <3>2
  <2> QED BY <2>1, <2>3, <2>4 DEF Later
<1> QED BY <1>3, <1>4

\* Under the rotation discipline the file of the stored position is there, so what a tailer
\* started now would read is what lies ahead of that position.
LEMMA RecoverableIsAhead == IInv => OwedInv
<1> SUFFICES ASSUME IInv, breaches = {} PROVE Recoverable = Ahead
  BY DEF OwedInv
<1>1. PICK s \in Inode \cup {None} : s = saved.ino BY PositionsType DEF IInv
<1>2. PICK o \in Nat : o = saved.off BY PositionsType DEF IInv
<1>3. newest \in Inode BY DEF IInv, TypeOK, DiskType
<1>4. s \notin gone
  BY <1>1 DEF IInv, NothingLost, GoneAreDone, TypeOK, DiskType, Inode, None
<1>5. TypeOK BY DEF IInv
<1>6. Size(newest) \in Nat BY <1>3, <1>5, SizeType DEF TypeOK
<1>7. Resume(newest, o) \in Nat BY <1>2, <1>6 DEF Resume
<1>8. /\ Rest(newest, 0) = Later(newest, 0)
      /\ Rest(newest, Resume(newest, o)) = Later(newest, Resume(newest, o))
  BY <1>3, <1>5, <1>7, RestIsLater
<1>9. s # None => Rest(s, o) = Later(s, o) BY <1>2, <1>5, RestIsLater
<1>10. Recoverable = IF s = None THEN Rest(newest, 0)
                     ELSE IF s = newest THEN Rest(newest, Resume(newest, o))
                     ELSE Rest(s, o) \cup Rest(newest, 0)
  BY <1>1, <1>2, <1>3, <1>4 DEF Recoverable, None, Inode
<1> QED BY <1>1, <1>2, <1>8, <1>9, <1>10 DEF Ahead, AheadOf

\* A later offset leaves less, and nothing is later than the end.
LEMMA LaterLess ==
  ASSUME NEW f, NEW p, NEW q, p >= q, p \in Nat, q \in Nat, Size(f) \in Nat
  PROVE  Later(f, p) \subseteq Later(f, q)
BY DEF Later

\* An empty file has no later lines.
LEMMA LaterNone ==
  ASSUME NEW f, Size(f) = 0
  PROVE  \A off : Later(f, off) = {}
BY DEF Later

\* A tailer inside a file is at or past the stored position: it would read no more.
LEMMA TailerAhead ==
  ASSUME TypeOK, Structure, Placed, MiddleEmpty, Active
  PROVE  /\ AheadOf(ident, pos) \subseteq Ahead
         /\ Later(ident, pos) \subseteq AheadOf(ident, pos)
<1>1. PICK s \in Inode \cup {None} : s = saved.ino BY PositionsType
<1>2. PICK o \in Nat : o = saved.off BY PositionsType
<1>3. PICK f \in Inode : f = ident BY PositionsType DEF Active
<1>4. PICK p \in Nat : p = pos BY PositionsType
<1>5. PICK w \in Inode : w = newest BY DEF TypeOK, DiskType
<1>6. \A g \in Inode : Size(g) \in Nat BY SizeType DEF TypeOK
<1>7. s <= f /\ f <= w /\ f # None /\ w # None
  BY <1>1, <1>3, <1>5 DEF Structure, Active, Inode, None
<1>8. s = f => p >= o \/ Size(f) < o
  BY <1>1, <1>2, <1>3, <1>4 DEF Placed, NotBehind
<1>9. p > Size(f) => s = f /\ o = p
  BY <1>1, <1>2, <1>3, <1>4 DEF Placed, BeyondEnd
<1>10. s = f /\ f # w => o <= Size(f)
  BY <1>1, <1>2, <1>3, <1>5, <1>7 DEF Placed, StoredFits, Inode, None
<1>11. s < f /\ f < w => Size(f) = 0
  BY <1>1, <1>3, <1>5 DEF MiddleEmpty
<1>12. \A g \in Inode, a, b \in Nat : a >= b => Later(g, a) \subseteq Later(g, b)
  BY <1>6, LaterLess
<1>13. Later(f, p) \subseteq AheadOf(f, p)
  BY <1>5, <1>7, <1>12 DEF AheadOf, Resume
<1>14. AheadOf(f, p) \subseteq AheadOf(s, o)
  <2>1. CASE s = f /\ f = w
    <3>1. CASE p > Size(f) BY <1>9, <2>1, <3>1
    <3>2. CASE ~(p > Size(f))
      <4>1. Resume(w, p) = p /\ Resume(w, o) \in Nat /\ Resume(w, o) <= p
        BY <1>6, <1>8, <2>1, <3>2 DEF Resume
      <4> QED BY <1>5, <1>7, <1>12, <2>1, <4>1 DEF AheadOf
    <3> QED BY <3>1, <3>2
  <2>2. CASE s = f /\ f # w
    <3>1. p >= o BY <1>6, <1>8, <1>10, <2>2
    <3> QED BY <1>5, <1>7, <1>12, <2>2, <3>1 DEF AheadOf
  <2>3. CASE s # f /\ f = w
    <3>1. Resume(w, p) \in Nat /\ Resume(w, p) >= 0 BY <1>6 DEF Resume
    <3>2. AheadOf(f, p) \subseteq Later(w, 0) BY <1>5, <1>7, <1>12, <2>3, <3>1 DEF AheadOf
    <3> QED BY <1>5, <2>3, <3>2 DEF AheadOf
  <2>4. CASE s # f /\ f # w
    <3>1. s < f /\ f < w BY <1>7, <2>4 DEF Inode, None
    <3>2. Later(f, p) = {} BY <1>11, <3>1, LaterNone
    <3>3. AheadOf(f, p) = Later(w, 0) BY <1>5, <1>7, <2>4, <3>2 DEF AheadOf
    <3>4. s # w BY <3>1 DEF Inode, None
    <3> QED BY <1>5, <3>3, <3>4 DEF AheadOf
  <2> QED BY <2>1, <2>2, <2>3, <2>4
<1> QED BY <1>1, <1>2, <1>3, <1>4, <1>13, <1>14 DEF Ahead

-----------------------------------------------------------------------------
\* A file whose lines stay has the same later lines.
LEMMA LaterStays ==
  ASSUME NEW f, Size(f)' = Size(f), \A i \in 1..Size(f) : Nth(f, i)' = Nth(f, i)
  PROVE  \A off : Later(f, off)' = Later(f, off)
BY DEF Later

\* The file a line is begun in gets that line behind every offset in it.
LEMMA LaterGrows ==
  ASSUME NEW f, NEW n \in Nat, n = Size(f), Size(f)' = n + 1, NEW x, Nth(f, n + 1)' = x,
         \A i \in 1..n : Nth(f, i)' = Nth(f, i), NEW off \in Nat, off <= n
  PROVE  Later(f, off)' = Later(f, off) \cup {x}
<1>1. {i \in 1..(n + 1) : i > off} = {i \in 1..n : i > off} \cup {n + 1} OBVIOUS
<1>2. Later(f, off)' = {Nth(f, i)' : i \in {j \in 1..(n + 1) : j > off}} BY DEF Later
<1>3. Later(f, off) = {Nth(f, i) : i \in {j \in 1..n : j > off}} BY DEF Later
<1> QED BY <1>1, <1>2, <1>3

\* What a line that is begun does to what lies ahead.
LEMMA BeginLineAhead ==
  ASSUME BoundsAssumption, TypeOK, BeginLine, MiddleEmpty, breaches' = {}
  PROVE  MiddleEmpty' /\ Ahead' = Ahead \cup {next}
<1>1. PICK s \in Inode \cup {None} : s = saved.ino BY PositionsType
<1>2. PICK o \in Nat : o = saved.off BY PositionsType
<1>3. PICK w \in Inode : w = newest BY DEF TypeOK, DiskType
<1>4. saved' = saved /\ newest' = w /\ writer' = writer BY <1>3 DEF BeginLine
<1>5. writer = w /\ (s = w => o # Size(w) + 1)
  <2>1. /\ When(writer # newest, "late") \subseteq breaches'
        /\ When(\E off \in Remembered(writer) : off = Size(writer) + 1, "truncated") \subseteq breaches'
    BY DEF BeginLine, Breach
  <2>2. writer = newest /\ ~\E off \in Remembered(writer) : off = Size(writer) + 1
    BY <2>1 DEF When
  <2> QED BY <1>1, <1>2, <1>3, <2>2 DEF Remembered
<1>6. /\ \A f \in Inode : Size(f) \in Nat
      /\ \A f \in Inode : Size(f)' = IF f = w THEN Size(f) + 1 ELSE Size(f)
      /\ \A f \in Inode : \A i \in 1..Size(f) : Nth(f, i)' = Nth(f, i)
  BY <1>5, BeginLineSize, LinesStay, SizeType DEF TypeOK
<1>7. PICK n \in Nat : n = Size(w) /\ Size(w)' = n + 1 /\ Nth(w, n + 1)' = next
  <2>1. torn[w] = None /\ content[w] \in Seq(Line) BY <1>5, BeginLineSize DEF TypeOK, DiskType
  <2>2. content' = content /\ torn'[w] = next BY <1>5 DEF BeginLine, TypeOK, DiskType
  <2>3. PICK n \in Nat : n = Len(content[w]) BY <2>1
  <2>4. Size(w) = n BY <2>1, <2>3 DEF Size
  <2>5. Nth(w, n + 1)' = next BY <2>2, <2>3 DEF Nth
  <2> QED BY <1>6, <2>4, <2>5
<1>8. \A f \in Inode, off \in Nat : f # w => Later(f, off)' = Later(f, off)
  BY <1>6, LaterStays
<1>9. \A off \in Nat : off <= n => Later(w, off)' = Later(w, off) \cup {next}
  BY <1>6, <1>7, LaterGrows
<1>10. MiddleEmpty'
  BY <1>3, <1>4, <1>6 DEF MiddleEmpty, Inode
<1>11. s = w => Resume(w, o)' = Resume(w, o) /\ Resume(w, o) \in Nat /\ Resume(w, o) <= Size(w)
  <2>1. Size(w) \in Nat /\ Size(w)' = Size(w) + 1 BY <1>6
  <2> QED BY <1>5, <2>1 DEF Resume
<1>12. w # None BY DEF Inode, None
<1>13. 0 <= n OBVIOUS
<1>14. CASE s = None BY <1>1, <1>3, <1>4, <1>9, <1>10, <1>13, <1>14 DEF Ahead, AheadOf
<1>15. CASE s = w
  <2>1. PICK r \in Nat : r = Resume(w, o) /\ Resume(w, o)' = r /\ r <= Size(w) BY <1>11, <1>15
  <2>2. Ahead = Later(w, r) BY <1>1, <1>2, <1>3, <1>12, <1>15, <2>1 DEF Ahead, AheadOf
  <2>3. Ahead' = Later(w, r)'
    BY <1>1, <1>2, <1>3, <1>4, <1>12, <1>15, <2>1 DEF Ahead, AheadOf
  <2> QED BY <1>7, <1>9, <1>10, <2>1, <2>2, <2>3
<1>16. CASE s # None /\ s # w
  BY <1>1, <1>2, <1>3, <1>4, <1>8, <1>9, <1>10, <1>13, <1>16 DEF Ahead, AheadOf
<1> QED BY <1>14, <1>15, <1>16

\* What a new file does: if it does not come too early, all behind the position is empty.
LEMMA NewFileAhead ==
  ASSUME BoundsAssumption, TypeOK, Structure, NewFile, MiddleEmpty, breaches' = {},
         UNCHANGED <<content, torn, saved>>
  PROVE  MiddleEmpty' /\ Ahead' = Ahead
<1>1. PICK s \in Inode \cup {None} : s = saved.ino BY PositionsType
<1>2. PICK o \in Nat : o = saved.off BY PositionsType
<1>3. PICK w \in Inode : w = newest BY DEF TypeOK, DiskType
<1>4. PICK v \in Inode : v = newest' /\ v = w + 1
  BY <1>3, NewFileType DEF TypeOK
<1>5. \A f, i : Size(f)' = Size(f) /\ Nth(f, i)' = Nth(f, i) BY DEF Size, Nth
<1>6. \A f, off : Later(f, off)' = Later(f, off) /\ Resume(f, off)' = Resume(f, off)
  BY <1>5 DEF Later, Resume
<1>7. \A f \in Inode : Size(f) \in Nat BY SizeType DEF TypeOK
<1>8. /\ \A f \in Inode : s < f /\ f <= w => Size(f) = 0
      /\ s = w => o <= Size(w)
  <2>1. /\ ~\E f \in Inode : saved.ino < f /\ f <= newest /\ Size(f) > 0
        /\ ~\E off \in Remembered(newest) : off > Size(newest)
    BY DEF NewFile, Breach, When
  <2>2. \A f \in Inode : s < f /\ f <= w => ~(Size(f) > 0) BY <1>1, <1>3, <2>1
  <2>3. s = w => ~(o > Size(w)) BY <1>1, <1>2, <1>3, <2>1 DEF Remembered
  <2> QED BY <1>7, <2>2, <2>3
<1>9. Size(v) = 0
  <2>1. v > newest BY <1>3, <1>4 DEF Inode
  <2>2. content[v] = << >> /\ torn[v] = None BY <2>1 DEF Structure
  <2> QED BY <2>2 DEF Size
<1>10. \A off : Later(v, off) = {} BY <1>9, LaterNone
<1>11. s # w => \A off : Later(w, off) = {}
  <2>1. s <= w BY <1>1, <1>3 DEF Structure
  <2> QED BY <1>8, <2>1, LaterNone DEF Inode, None
<1>12. MiddleEmpty'
  <2>1. \A f \in Inode : f < v => f <= w BY <1>4 DEF Inode
  <2> QED BY <1>1, <1>4, <1>5, <1>8, <2>1 DEF MiddleEmpty
<1>13. s # v /\ w # v /\ w # None /\ v # None
  <2>1. s <= w BY <1>1, <1>3 DEF Structure
  <2> QED BY <1>4, <2>1 DEF Inode, None
<1>14. s = w => Resume(w, o) = o BY <1>8 DEF Resume
<1>15. Ahead = IF s = None THEN {} ELSE Later(s, o)
  BY <1>1, <1>2, <1>3, <1>11, <1>13, <1>14 DEF Ahead, AheadOf
<1>16. Ahead' = IF s = None THEN {} ELSE Later(s, o)
  BY <1>1, <1>2, <1>4, <1>6, <1>10, <1>13 DEF Ahead, AheadOf
<1> QED BY <1>12, <1>15, <1>16

\* A truncation of what is acknowledged takes nothing away.
LEMMA TruncateAhead ==
  ASSUME TypeOK, Structure, Truncate, MiddleEmpty, breaches' = {}
  PROVE  MiddleEmpty' /\ Ahead' = Ahead
<1>1. /\ torn[live] = None /\ saved = [ino |-> live, off |-> Len(content[live])]
      /\ live # None
  BY DEF Truncate, Breach, When
<1>2. PICK w \in Inode : w = newest /\ w = live
  BY <1>1 DEF Structure, TypeOK, DiskType
<1>3. saved' = saved /\ newest' = newest BY DEF Truncate
<1>4. content[w] \in Seq(Line) /\ content'[w] = << >> /\ torn'[w] = None
  BY <1>2 DEF Truncate, TypeOK, DiskType
<1>5. PICK o \in Nat : o = Len(content[w]) BY <1>4
<1>6. saved.ino = w /\ saved.off = o /\ Size(w) = o /\ Size(w)' = 0
  BY <1>1, <1>2, <1>4, <1>5 DEF Size
<1>7. Later(w, o) = {} /\ \A off \in Nat : Later(w, off)' = {}
  <2>1. {j \in 1..o : j > o} = {} OBVIOUS
  <2> QED BY <1>6, <2>1 DEF Later
<1>8. Resume(w, o) = o /\ Resume(w, o)' \in Nat
  BY <1>6 DEF Resume
<1>9. w # None BY DEF Inode, None
<1>10. Ahead = {} BY <1>2, <1>6, <1>7, <1>8, <1>9 DEF Ahead, AheadOf
<1>11. PICK r \in Nat : r = Resume(w, o)' BY <1>8
<1>12. Ahead' = {} BY <1>2, <1>3, <1>6, <1>7, <1>9, <1>11 DEF Ahead, AheadOf
<1>13. MiddleEmpty'
  <2>1. w \in Nat /\ \A f \in Inode : f \in Nat BY BoundsAssumption DEF BoundsAssumption, Inode
  <2>2. \A f \in Inode : ~(w < f /\ f < w) BY <2>1
  <2> QED BY <1>2, <1>3, <1>6, <2>2 DEF MiddleEmpty
<1> QED BY <1>10, <1>12, <1>13

\* Every step of the environment leaves what lies ahead as it is, or adds the next line.
LEMMA EnvironmentAhead ==
  ASSUME BoundsAssumption, TypeOK, Structure, Environment, MiddleEmpty, breaches' = {}
  PROVE  /\ MiddleEmpty'
         /\ \/ next' = next /\ Ahead' = Ahead
            \/ next \in Line /\ next' = next + 1 /\ Ahead' = Ahead \cup {next}
<1>1. saved' = saved BY EnvironmentFrame
<1>2. CASE BeginLine
  <2>1. next \in Line /\ next' = next + 1 BY <1>2, BeginLineSize DEF BeginLine
  <2> QED BY <1>2, <2>1, BeginLineAhead
<1>3. CASE EndLine
  <2>1. /\ \A f \in Inode : Size(f)' = Size(f)
        /\ \A f \in Inode : \A i \in 1..Size(f) : Nth(f, i)' = Nth(f, i)
    BY <1>3, EndLineSize, LinesStay
  <2>2. \A f \in Inode : \A off : Later(f, off)' = Later(f, off) BY <2>1, LaterStays
  <2>3. \A f \in Inode : \A off : Resume(f, off)' = Resume(f, off) BY <2>1 DEF Resume
  <2>4. newest' = newest /\ next' = next BY <1>3 DEF EndLine
  <2>5. PICK s \in Inode \cup {None} : s = saved.ino BY PositionsType
  <2>6. PICK o \in Nat : o = saved.off BY PositionsType
  <2>7. PICK w \in Inode : w = newest BY DEF TypeOK, DiskType
  <2>8. Ahead' = Ahead
    BY <1>1, <2>2, <2>3, <2>4, <2>5, <2>6, <2>7 DEF Ahead, AheadOf
  <2>9. MiddleEmpty' BY <1>1, <2>1, <2>4 DEF MiddleEmpty
  <2> QED BY <2>4, <2>8, <2>9
<1>4. CASE NewFile /\ UNCHANGED <<content, torn, next>> BY <1>1, <1>4, NewFileAhead
<1>5. CASE UNCHANGED <<content, torn, newest, next>>
  <2>1. \A f, i : Size(f)' = Size(f) /\ Nth(f, i)' = Nth(f, i) BY <1>5 DEF Size, Nth
  <2>2. \A f, off : Later(f, off)' = Later(f, off) /\ Resume(f, off)' = Resume(f, off)
    BY <2>1 DEF Later, Resume
  <2> QED BY <1>1, <1>5, <2>1, <2>2 DEF MiddleEmpty, Ahead, AheadOf
<1>6. CASE Truncate BY <1>6, TruncateAhead DEF Truncate
<1> QED
  BY <1>2, <1>3, <1>4, <1>5, <1>6, EnvironmentCases DEF Rename, Create, Reopen, Vanish

-----------------------------------------------------------------------------
\* A step of the agent that leaves the stored position leaves what lies ahead of it.
LEMMA AheadStays ==
  ASSUME Process, saved' = saved
  PROVE  Ahead' = Ahead /\ (MiddleEmpty => MiddleEmpty')
<1>1. /\ newest' = newest
      /\ \A f, i : Size(f)' = Size(f) /\ Nth(f, i)' = Nth(f, i)
  BY ProcessFrame DEF disk, Size, Nth
<1>2. \A f, off : Later(f, off)' = Later(f, off) /\ Resume(f, off)' = Resume(f, off)
  BY <1>1 DEF Later, Resume
<1> QED BY <1>1, <1>2 DEF Ahead, AheadOf, MiddleEmpty

\* A commit moves the stored position to the tailer's, and adds nothing to what lies ahead.
LEMMA CommitAhead ==
  ASSUME TypeOK, Structure, Placed, MiddleEmpty, Commit
  PROVE  MiddleEmpty' /\ Ahead' \subseteq Ahead
<1>1. /\ newest' = newest
      /\ \A f, i : Size(f)' = Size(f) /\ Nth(f, i)' = Nth(f, i)
  BY DEF Commit, disk, Size, Nth
<1>2. \A f, off : Later(f, off)' = Later(f, off) /\ Resume(f, off)' = Resume(f, off)
  BY <1>1 DEF Later, Resume
<1>3. PICK i \in Inode, p \in Nat : i = ident /\ p = pos
  BY PositionsType DEF Commit, Structure
<1>4. saved' = [ino |-> i, off |-> p] /\ Active /\ saved.ino <= i
  BY <1>3 DEF Commit, Active, Structure, Inode, None
<1>5. AheadOf(i, p) \subseteq Ahead BY <1>3, <1>4, TailerAhead
<1>6. Ahead' = AheadOf(i, p) BY <1>1, <1>2, <1>4 DEF Ahead, AheadOf
<1>7. MiddleEmpty'
  <2>1. PICK s \in Inode \cup {None} : s = saved.ino BY PositionsType
  <2>2. saved'.ino = i BY <1>4
  <2>3. \A f \in Inode : i < f => s < f BY <1>4, <2>1 DEF Inode, None
  <2> QED BY <1>1, <2>1, <2>2, <2>3 DEF MiddleEmpty
<1> QED BY <1>5, <1>6, <1>7

\* What the agent takes into its hands lies ahead of the stored position.
LEMMA HandsStep ==
  ASSUME BoundsAssumption, TypeOK, Structure, PlaceInv, HandsInv, [Next]_vars
  PROVE  HandsInv'
<1>1. breaches \subseteq breaches' BY BreachesType DEF vars
<1> SUFFICES ASSUME breaches' = {} PROVE MiddleEmpty' /\ Batched' \subseteq Ahead'
  BY DEF HandsInv
<1>2. breaches = {} /\ Placed /\ MiddleEmpty /\ Batched \subseteq Ahead
  BY <1>1 DEF HandsInv, PlaceInv
<1>3. CASE Environment
  <2>1. Batched' = Batched BY <1>3, EnvironmentFrame DEF Batched, post
  <2> QED BY <1>2, <1>3, <2>1, EnvironmentAhead
<1>4. CASE Process /\ saved' # saved
  <2>1. Commit BY <1>4, OnlyCommitMoves DEF Next, Process
  <2>2. Batched' = {} BY <2>1 DEF Commit, Batched
  <2> QED BY <1>2, <2>1, <2>2, CommitAhead
<1>5. CASE Process /\ saved' = saved
  <2>1. Ahead' = Ahead /\ MiddleEmpty' BY <1>2, <1>5, AheadStays
  <2>2. CASE Grows
    <3>1. PICK n \in Nat :
            /\ n = 0 \/ pos + n <= Size(ident)
            /\ Len(batch') = Len(batch) + n
            /\ \A k \in 1..Len(batch) : batch'[k] = batch[k]
            /\ \A k \in 1..n : batch'[Len(batch) + k] = Nth(ident, pos + k)
      BY <2>2 DEF Grows
    <3>2. Active /\ ident # None BY <2>2 DEF Grows, Active
    <3>3. Len(batch) \in Nat /\ pos \in Nat /\ Size(ident) \in Nat
      BY <3>2, PositionsType, SizeType DEF TypeOK, PostType
    <3>4. Later(ident, pos) \subseteq Ahead BY <1>2, <3>2, TailerAhead
    <3>5. \A k \in 1..n : Nth(ident, pos + k) \in Later(ident, pos)
      <4> TAKE k \in 1..n
      <4>1. pos + k \in 1..Size(ident) /\ pos + k > pos BY <3>1, <3>3
      <4> QED BY <4>1 DEF Later
    <3>6. ASSUME NEW x \in Batched' PROVE x \in Ahead
      <4>1. PICK k \in 1..(Len(batch) + n) : x = batch'[k] BY <3>1 DEF Batched
      <4>2. CASE k <= Len(batch) BY <1>2, <3>1, <3>3, <4>1, <4>2 DEF Batched
      <4>3. CASE k > Len(batch)
        <5>1. k - Len(batch) \in 1..n /\ Len(batch) + (k - Len(batch)) = k BY <3>3, <4>3
        <5>2. batch'[k] = Nth(ident, pos + (k - Len(batch))) BY <3>1, <5>1
        <5> QED BY <3>4, <3>5, <4>1, <5>1, <5>2
      <4> QED BY <3>3, <4>2, <4>3
    <3> QED BY <2>1, <3>6
  <2>3. CASE Settles \/ Keeps
    <3>1. Batched' = Batched BY <2>3 DEF Settles, Keeps, Batched
    <3> QED BY <1>2, <2>1, <3>1
  <2>4. CASE Empties
    <3>1. Batched' = {} BY <2>4 DEF Empties, Batched
    <3> QED BY <2>1, <3>1
  <2> QED BY <1>2, <1>5, <2>2, <2>3, <2>4, ProcessBatch
<1>6. CASE UNCHANGED vars
  <2>1. \A f, i : Size(f)' = Size(f) /\ Nth(f, i)' = Nth(f, i)
    BY <1>6 DEF vars, disk, Size, Nth
  <2>2. \A f, off : Later(f, off)' = Later(f, off) /\ Resume(f, off)' = Resume(f, off)
    BY <2>1 DEF Later, Resume
  <2>3. newest' = newest /\ saved' = saved /\ Batched' = Batched
    BY <1>6 DEF vars, disk, post, Batched
  <2> QED BY <1>2, <2>1, <2>2, <2>3 DEF Ahead, AheadOf, MiddleEmpty
<1> QED BY <1>3, <1>4, <1>5, <1>6, NextCases

\* In every state log shipping can reach, a restart would read again what the agent holds.
LEMMA Hands == Spec => [](HandsInv /\ OwedInv)
<1>1. Init => HandsInv
  <2> SUFFICES ASSUME Init PROVE MiddleEmpty /\ Batched \subseteq Ahead
    BY DEF HandsInv
  <2>1. \A f \in Inode : Size(f) = 0 BY DEF Init, Size
  <2>2. Batched = {} BY DEF Init, Batched
  <2> QED BY <2>1, <2>2 DEF MiddleEmpty
<1>2. IInv /\ PlaceInv /\ HandsInv /\ [Next]_vars => HandsInv'
  BY HandsStep, BoundsAssumption DEF IInv
<1> QED BY Invariance, Positions, RecoverableIsAhead, <1>1, <1>2, PTL DEF Spec

-----------------------------------------------------------------------------
\* Reading only ever adds to the batch.
LEMMA ReadingCarries ==
  ASSUME BoundsAssumption, TypeOK, Structure,
         \/ OpenLog \/ StartRead \/ ReadLines \/ CheckNothingNew \/ CheckTruncated
         \/ CheckRotated \/ CheckRotatedOpenFails
  PROVE  Batched \subseteq Batched' /\ UNCHANGED <<disk, saved, accepted, dropped>>
<1>1. batch \in Seq(Line) BY DEF TypeOK, PostType
<1>2. CASE OpenLog \/ StartRead \/ CheckNothingNew \/ CheckTruncated
  BY <1>2 DEF OpenLog, StartRead, CheckNothingNew, CheckTruncated, NextRound, Return, post, Batched
<1>3. CASE ReadLines
  <2>1. PICK n \in Nat :
          /\ n = 0 \/ pos + n <= Len(content[ident])
          /\ batch' = batch \o SubSeq(content[ident], pos + 1, pos + n)
    BY <1>3, ReadLinesMoves
  <2>2. content[ident] \in Seq(Line) /\ pos \in Nat
    BY <1>3 DEF ReadLines, Structure, TypeOK, DiskType, ReaderType
  <2> DEFINE read == SubSeq(content[ident], pos + 1, pos + n)
  <2>3. read \in Seq(Line) BY <2>1, <2>2
  <2>4. batch' = batch \o read BY <2>1
  <2> HIDE DEF read
  <2>5. Len(batch') = Len(batch) + Len(read) /\ \A k \in 1..Len(batch) : batch'[k] = batch[k]
    BY <1>1, <2>3, <2>4, ConcatNth
  <2>6. Len(batch) \in Nat /\ Len(read) \in Nat BY <1>1, <2>3
  <2>7. Batched \subseteq Batched' BY <2>5, <2>6 DEF Batched
  <2> QED BY <1>3, <2>7 DEF ReadLines
<1>4. CASE CheckRotated \/ CheckRotatedOpenFails
  <2>1. batch' = WithTail /\ UNCHANGED <<disk, saved, accepted, dropped>>
    BY <1>4 DEF CheckRotated, CheckRotatedOpenFails, NextRound, Return
  <2>2. /\ Len(WithTail) \in Nat /\ Len(batch) \in Nat /\ Len(batch) <= Len(WithTail)
        /\ \A k \in 1..Len(batch) : WithTail[k] = batch[k]
    <3>1. CASE buf = None BY <1>1, <3>1 DEF WithTail
    <3>2. CASE buf # None BY <1>1, <3>2 DEF WithTail, TypeOK, ReaderType
    <3> QED BY <3>1, <3>2
  <2>3. Batched \subseteq Batched' BY <2>1, <2>2 DEF Batched
  <2> QED BY <2>1, <2>3
<1> QED BY <1>2, <1>3, <1>4

\* What a post carries is in the agent's hands.
LEMMA PieceInHand == \A end \in 1..Len(batch) : Piece(end) \subseteq Batched
BY DEF Piece, Batched

\* A piece that is refused and cannot be halved is one line the platform does not take.
LEMMA RefusedAlone ==
  ASSUME BoundsAssumption, TypeOK, NEW end \in 1..Len(batch), Permanent(end), end - done = 1
  PROVE  Piece(end) = {batch[end]} /\ batch[end] \in Rejected \cap Batched
<1>1. Piece(end) = {batch[end]}
  <2>1. done \in Nat /\ end \in Nat /\ done = end - 1 BY DEF TypeOK, PostType
  <2>2. \A j \in 1..Len(batch) : done < j /\ j <= end <=> j = end BY <2>1
  <2> QED BY <2>2 DEF Piece
<1>2. Piece(end) \cap Rejected # {} BY DEF Permanent, BoundsAssumption
<1> QED BY <1>1, <1>2 DEF Batched

\* Every step of the environment is a write to the channel, or shows nothing.
LEMMA EnvironmentDelivers ==
  ASSUME BoundsAssumption, TypeOK, Structure, Environment, MiddleEmpty,
         breaches = {}, breaches' = {}, Recoverable = Ahead, Recoverable' = Ahead'
  PROVE  [Channel!Next]_(Channel!vars)
<1>1. UNCHANGED <<accepted, dropped>> /\ Batched' = Batched
  BY EnvironmentFrame DEF post, Batched
<1>2. CASE next' = next /\ Ahead' = Ahead
  BY <1>1, <1>2 DEF Channel!vars, Written
<1>3. CASE next \in Line /\ next' = next + 1 /\ Ahead' = Ahead \cup {next}
  <2>1. next \in Nat /\ next >= 1 BY DEF TypeOK, DiskType
  <2>2. Written' = Written \cup {next} /\ next \notin Written
    <3>1. 1..((next + 1) - 1) = 1..(next - 1) \cup {next} /\ next \notin 1..(next - 1) BY <2>1
    <3> QED BY <1>3, <3>1 DEF Written
  <2>3. Channel!Write(next) BY <1>1, <1>3, <2>2 DEF Channel!Write
  <2> QED BY <1>3, <2>3 DEF Channel!Next
<1> QED BY <1>2, <1>3, EnvironmentAhead

\* Every step of the agent takes, delivers, refuses, acknowledges or forgets what the
\* channel allows it to, or shows nothing.
LEMMA ProcessDelivers ==
  ASSUME BoundsAssumption, TypeOK, Structure, Process, Ordered, Fresh, NeverLost',
         breaches = {}, breaches' = {},
         Recoverable = Ahead, Recoverable' = Ahead', Batched \subseteq Ahead,
         Batched' \subseteq Ahead', Ahead' \subseteq Ahead
  PROVE  [Channel!Next]_(Channel!vars)
<1>1. UNCHANGED disk /\ Written' = Written BY ProcessFrame DEF disk, Written
<1>2. (breaches' # {}) = (breaches # {}) OBVIOUS
<1>3. saved' = saved => Recoverable' = Recoverable BY AheadStays
<1>4. CASE \/ OpenLog \/ StartRead \/ ReadLines \/ CheckNothingNew \/ CheckTruncated
           \/ CheckRotated \/ CheckRotatedOpenFails
  <2>1. Batched \subseteq Batched' /\ UNCHANGED <<saved, accepted, dropped>>
    BY <1>4, ReadingCarries
  <2>2. Channel!Take BY <1>1, <1>2, <1>3, <2>1 DEF Channel!Take
  <2> QED BY <2>2 DEF Channel!Next
<1>5. CASE PostAccepted \/ PostAnswerLost
  <2>1. PICK end \in 1..Len(batch) : Accepts(end) /\ accepted' = accepted \cup Piece(end)
    BY <1>5 DEF PostAccepted, PostAnswerLost
  <2>2. UNCHANGED <<saved, dropped>> /\ Batched' = Batched
    BY <1>5 DEF PostAccepted, PostAnswerLost, post, Batched
  <2>3. Piece(end) \subseteq Batched \ Rejected
    BY <2>1, PieceInHand DEF Accepts, Permanent
  <2>4. Channel!Deliver(Piece(end)) BY <1>1, <1>2, <1>3, <2>1, <2>2 DEF Channel!Deliver
  <2> QED BY <2>3, <2>4 DEF Channel!Next
<1>6. CASE PostDropped
  <2>1. PICK end \in 1..Len(batch) :
          Permanent(end) /\ end - done = 1 /\ dropped' = dropped \cup Piece(end)
    BY <1>6 DEF PostDropped
  <2>2. UNCHANGED <<saved, accepted>> /\ Batched' = Batched
    BY <1>6 DEF PostDropped, Batched
  <2>3. Piece(end) = {batch[end]} /\ batch[end] \in Batched \cap Rejected
    BY <2>1, RefusedAlone
  <2>4. Channel!Refuse(batch[end])
    BY <1>1, <1>2, <1>3, <2>1, <2>2, <2>3 DEF Channel!Refuse
  <2> QED BY <2>3, <2>4 DEF Channel!Next
<1>7. CASE PostSplit \/ Start
  <2>1. UNCHANGED <<saved, accepted, dropped>> /\ Batched' = Batched
    BY <1>7 DEF PostSplit, Start, post, Batched
  <2> QED BY <1>1, <1>2, <1>3, <2>1 DEF Channel!vars
<1>8. CASE Commit
  <2>1. done = Len(batch) /\ UNCHANGED <<accepted, dropped>> /\ Batched' = {}
    BY <1>8 DEF Commit, Batched
  <2>2. Batched \subseteq Delivered
    BY <2>1 DEF Ordered, SettledDelivered, Batched, TypeOK, PostType
  <2>3. Ahead \subseteq Written
    <3>1. \A f \in Inode, off \in Nat : Later(f, off) \subseteq Written
      BY DEF Later, Fresh
    <3>2. \A f \in Inode : Size(f) \in Nat BY SizeType DEF TypeOK
    <3>3. PICK s \in Inode \cup {None}, o \in Nat : s = saved.ino /\ o = saved.off
      BY PositionsType
    <3>4. newest \in Inode BY DEF TypeOK, DiskType
    <3>5. Resume(newest, o) \in Nat BY DEF Resume
    <3> QED BY <3>1, <3>3, <3>4, <3>5 DEF Ahead, AheadOf
  <2>4. Written' \subseteq Delivered' \cup Recoverable' BY DEF NeverLost
  <2>5. Ahead \ Ahead' \subseteq Delivered
    BY <1>1, <2>1, <2>3, <2>4 DEF Delivered
  <2>6. Channel!Acknowledge
    BY <1>1, <1>2, <2>1, <2>2, <2>5 DEF Channel!Acknowledge, Channel!Settled, Delivered
  <2> QED BY <2>6 DEF Channel!Next
<1>9. CASE PostGarbled
  BY <1>9 DEF PostGarbled, Breach
<1>10. CASE Stop
  <2>1. UNCHANGED <<saved, accepted, dropped>> /\ Batched' = {} BY <1>10 DEF Stop, Batched
  <2>2. Channel!Forget BY <1>1, <1>2, <1>3, <2>1 DEF Channel!Forget
  <2> QED BY <2>2 DEF Channel!Next
<1> QED
  BY <1>4, <1>5, <1>6, <1>7, <1>8, <1>9, <1>10, ProcessCases DEF Posting

\* Every step is one of the channel's, or shows nothing of it.
LEMMA ChannelStep ==
  ASSUME BoundsAssumption, IInv, PlaceInv, LinesInv, OrderInv, HandsInv, OwedInv,
         HandsInv', OwedInv', NeverLost', [Next]_vars
  PROVE  [Channel!Next]_(Channel!vars)
<1>1. breaches \subseteq breaches' BY BreachesType DEF vars, IInv
<1>2. CASE breaches' # {}
  <2>1. Channel!Break BY <1>2 DEF Channel!Break
  <2> QED BY <2>1 DEF Channel!Next
<1>3. CASE breaches' = {}
  <2>1. /\ breaches = {} /\ Recoverable = Ahead /\ Recoverable' = Ahead'
        /\ MiddleEmpty /\ Batched \subseteq Ahead /\ Batched' \subseteq Ahead'
        /\ TypeOK /\ Structure /\ Placed /\ Fresh /\ Ordered
    BY <1>1, <1>3 DEF IInv, OwedInv, HandsInv, PlaceInv, LinesInv, OrderInv
  <2>2. CASE Environment BY <1>3, <2>1, <2>2, EnvironmentDelivers
  <2>3. CASE Process
    <3>1. CASE saved' = saved BY <1>3, <2>1, <2>3, <3>1, AheadStays, ProcessDelivers
    <3>2. CASE saved' # saved
      <4>1. Commit BY <2>3, <3>2, OnlyCommitMoves DEF Next, Process
      <4> QED BY <1>3, <2>1, <2>3, <4>1, CommitAhead, ProcessDelivers
    <3> QED BY <3>1, <3>2
  <2>4. CASE UNCHANGED vars
    <3>1. Written' = Written /\ Batched' = Batched /\ UNCHANGED <<accepted, dropped, breaches>>
      BY <2>4 DEF vars, disk, post, Written, Batched
    <3>2. \A f, off : Rest(f, off)' = Rest(f, off) /\ Resume(f, off)' = Resume(f, off)
      BY <2>4 DEF vars, disk, Rest, Resume, Size
    <3>3. UNCHANGED <<saved, newest, gone>> BY <2>4 DEF vars, disk
    <3>4. Recoverable' = Recoverable BY <3>2, <3>3 DEF Recoverable
    <3> QED BY <3>1, <3>4 DEF Channel!vars
  <2> QED BY <2>2, <2>3, <2>4, NextCases
<1> QED BY <1>2, <1>3

\* The empty log is an empty channel.
LEMMA ChannelInit == Init => Channel!Init
<1> SUFFICES ASSUME Init PROVE Channel!Init
  OBVIOUS
<1>1. Written = {} /\ Batched = {} BY DEF Init, Written, Batched
<1>2. \A f \in Inode : Rest(f, 0) = {} BY DEF Init, Rest, Behind
<1>3. newest \in Inode BY BoundsAssumption DEF Init, BoundsAssumption, Inode
<1>4. Recoverable = {} BY <1>2, <1>3 DEF Init, Recoverable, NoPosition, None
<1> QED BY <1>1, <1>4 DEF Init, Channel!Init

\* Tailer, shipper, stored position and ingest together are an at-least-once channel: however
\* files rotate, pieces are refused and the agent dies, it takes up only what a restart would
\* read again, delivers or drops only what it took up, and commits only what is settled.
THEOREM LogShippingImplements == Spec => ImplementsDelivery
<1>1. Init => Channel!Init BY ChannelInit
<1>2. /\ IInv /\ PlaceInv /\ LinesInv /\ OrderInv /\ HandsInv /\ OwedInv
      /\ HandsInv' /\ OwedInv' /\ NeverLost' /\ [Next]_vars
      => [Channel!Next]_(Channel!vars)
  BY ChannelStep, BoundsAssumption
<1> QED
  BY Invariance, Positions, Orders, Hands, AtLeastOnce, <1>1, <1>2, PTL
     DEF Spec, ImplementsDelivery, Channel!Spec

\* No step of the channel breaks what it promises.
LEMMA PromiseStep == Channel!Promise /\ [Channel!Next]_(Channel!vars) => Channel!Promise'
<1> SUFFICES ASSUME Channel!Promise, [Channel!Next]_(Channel!vars) PROVE Channel!Promise'
  OBVIOUS
<1> USE DEF Channel!Promise, Channel!Settled
<1>1. ASSUME NEW x \in Line, Channel!Write(x) PROVE Channel!Promise'
  BY <1>1 DEF Channel!Write
<1>2. CASE Channel!Take BY <1>2 DEF Channel!Take
<1>3. ASSUME NEW items \in SUBSET (Batched \ Rejected), Channel!Deliver(items)
      PROVE  Channel!Promise'
  BY <1>3 DEF Channel!Deliver
<1>4. ASSUME NEW x \in Batched \cap Rejected, Channel!Refuse(x) PROVE Channel!Promise'
  BY <1>4 DEF Channel!Refuse
<1>5. CASE Channel!Acknowledge BY <1>5 DEF Channel!Acknowledge
<1>6. CASE Channel!Forget BY <1>6 DEF Channel!Forget
<1>7. CASE Channel!Break BY <1>7 DEF Channel!Break
<1>8. CASE UNCHANGED Channel!vars BY <1>8 DEF Channel!vars
<1> QED BY <1>1, <1>2, <1>3, <1>4, <1>5, <1>6, <1>7, <1>8 DEF Channel!Next

\* What the channel promises holds of log shipping: what is written and not owed any more is
\* delivered or refused, memory holds nothing else than what is owed, and exactly the lines
\* the platform does not take are given up.
THEOREM PromiseKept == Spec => []Channel!Promise
<1>1. Channel!Init => Channel!Promise BY DEF Channel!Init, Channel!Promise, Channel!Settled
<1> QED
  BY LogShippingImplements, PromiseStep, <1>1, PTL DEF ImplementsDelivery, Channel!Spec
=============================================================================
