---------------------------- MODULE LogShipping ----------------------------
(***************************************************************************)
(* The accounting-log pipeline of one TACACS host: tac_plus-ng writes a    *)
(* log file, logrotate rotates it, the agent's FileTailer reads it, its    *)
(* LogShipper posts batches to POST /api/v1/accounting/ingest, and the     *)
(* OffsetStore remembers how far the platform has acknowledged.            *)
(*                                                                         *)
(* A line is a number, given out in writing order.  A file is its inode,   *)
(* given out in creation order; offsets count lines, an unterminated last  *)
(* line counting as one.  The tailer's read-ahead buffer is left out: what *)
(* lies below the end of a file changes only when the file is truncated.   *)
(***************************************************************************)
EXTENDS Naturals, Sequences, FiniteSets

CONSTANTS
  MaxLine,      \* lines the writer produces (a bound of the model)
  MaxInode,     \* log files that come to exist (a bound of the model)
  MaxRestarts,  \* how often the agent process dies (a bound of the model)
  MaxBreaches,  \* kinds of breach before the last rotation (a bound of the model)
  BatchSize,    \* NOM_AGENT_BATCH_SIZE
  BodyLimit,    \* lines a request may hold before it is refused with 413
  MaxRounds,    \* "bounded: at most a couple of rotations per call"; 4 in the code
  Rejected,     \* lines a request holding them is refused for (400/413/415/422)
  Unstorable    \* lines the database cannot store: the request ends in a 500

None  == 0
Line  == 1..MaxLine
Inode == 1..MaxInode

ASSUME BoundsAssumption ==
  /\ MaxLine \in Nat /\ MaxInode \in Nat \ {0} /\ MaxRestarts \in Nat /\ MaxBreaches \in Nat
  /\ BatchSize \in Nat \ {0} /\ BodyLimit \in Nat \ {0} /\ MaxRounds \in Nat \ {0}
ASSUME LineKindsAssumption == Rejected \subseteq Line /\ Unstorable \subseteq Line

VARIABLES
  content,   \* inode -> complete lines in the file
  torn,      \* inode -> last line, still without its newline, or None
  live,      \* inode at the log path, None between rename and re-creation
  newest,    \* youngest inode
  gone,      \* rotated inodes compressed or removed since
  writer,    \* inode tac_plus-ng appends to
  next,      \* next line number
  phase,     \* what the shipper thread is doing; "down" = no process
  fh,        \* FileTailer._fh, as the inode it is open on
  ident,     \* FileTailer._ident
  pos,       \* FileTailer._pos
  buf,       \* FileTailer._buf: the unterminated line read so far, or None
  round,     \* iteration of read_lines' loop
  batch,     \* lines returned by read_lines, being posted
  done,      \* how many of them are settled
  cuts,      \* ends of the pieces _split has cut the batch into
  saved,     \* the position in offsets.json
  accepted,  \* lines the platform has ingested
  dropped,   \* lines the shipper gave up on
  restarts,
  breaches   \* kinds of event the operator's rotation discipline excludes (history)

disk  == <<content, torn, live, newest, gone, writer, next>>
reader == <<fh, ident, pos, buf, round>>
post  == <<batch, done, cuts>>
vars  == <<disk, phase, reader, post, saved, accepted, dropped, restarts, breaches>>

Phases   == {"down", "idle", "read", "eof", "posting"}
Breaches == {"late", "lag", "race", "vanished", "truncated", "garbled"}

Delivered == accepted \cup dropped

\* Size of a file in lines, and what lies behind an offset in it.
Size(f) == Len(content[f]) + IF torn[f] = None THEN 0 ELSE 1
Behind(lines, last, off) ==
  {lines[i] : i \in {j \in 1..Len(lines) : j > off}}
    \cup (IF last # None /\ off <= Len(lines) THEN {last} ELSE {})
Rest(f, off) == Behind(content[f], torn[f], off)

\* Mutant: every file is read from its beginning.
ResumeAtStart(f, off) == 0

\* The offset a file is resumed at: 0 when it has shrunk below the stored one.
Resume(f, off) == IF off <= Size(f) THEN off ELSE 0

Position == [ino : Inode \cup {None}, off : Nat]
NoPosition == [ino |-> None, off |-> 0]

DiskType ==
  /\ content \in [Inode -> Seq(Line)] /\ torn \in [Inode -> Line \cup {None}]
  /\ live \in Inode \cup {None} /\ newest \in Inode /\ gone \subseteq Inode
  /\ writer \in Inode /\ next \in 1..(MaxLine + 1)
ReaderType ==
  /\ phase \in Phases /\ fh \in Inode \cup {None} /\ ident \in Inode \cup {None}
  /\ pos \in Nat /\ buf \in Line \cup {None} /\ round \in 0..MaxRounds
PostType == batch \in Seq(Line) /\ done \in Nat /\ cuts \subseteq Nat
LedgerType ==
  /\ saved \in Position /\ accepted \subseteq Line /\ dropped \subseteq Line
  /\ restarts \in 0..MaxRestarts /\ breaches \subseteq Breaches
TypeOK == DiskType /\ ReaderType /\ PostType /\ LedgerType

Init ==
  /\ content = [f \in Inode |-> << >>] /\ torn = [f \in Inode |-> None]
  /\ live = 1 /\ newest = 1 /\ gone = {} /\ writer = 1 /\ next = 1
  /\ phase = "idle" /\ fh = None /\ ident = None /\ pos = 0 /\ buf = None /\ round = 0
  /\ batch = << >> /\ done = 0 /\ cuts = {}
  /\ saved = NoPosition /\ accepted = {} /\ dropped = {}
  /\ restarts = 0 /\ breaches = {}

-----------------------------------------------------------------------------
(* tac_plus-ng and logrotate.  Nothing restrains them; "breaches" records   *)
(* the steps the at-least-once promise cannot survive.                      *)

Breach(kinds) == breaches' = breaches \cup kinds
Bounded == Cardinality(breaches') <= MaxBreaches
When(cond, kind) == IF cond THEN {kind} ELSE {}

\* Offsets remembered for a file, in memory or on disk.
Remembered(f) ==
  (IF saved.ino = f THEN {saved.off} ELSE {}) \cup (IF ident = f THEN {pos} ELSE {})

\* The writer starts a line: at the end of whatever file it has open.  Late if a
\* newer file already stands at the path; a truncated file that grows back to a
\* remembered offset can no longer be told from one that was never truncated.
BeginLine ==
  /\ next <= MaxLine /\ torn[writer] = None
  /\ torn' = [torn EXCEPT ![writer] = next]
  /\ next' = next + 1
  /\ Breach(When(writer # newest, "late")
       \cup When(\E off \in Remembered(writer) : off = Size(writer) + 1, "truncated"))
  /\ Bounded
  /\ UNCHANGED <<content, live, newest, gone, writer,
                 phase, reader, post, saved, accepted, dropped, restarts>>

EndLine ==
  /\ torn[writer] # None
  /\ content' = [content EXCEPT ![writer] = Append(@, torn[writer])]
  /\ torn' = [torn EXCEPT ![writer] = None]
  /\ Breach(When(writer # newest, "late"))
  /\ Bounded
  /\ UNCHANGED <<live, newest, gone, writer, next,
                 phase, reader, post, saved, accepted, dropped, restarts>>

\* logrotate renames the log; the writer still holds the old file.
Rename ==
  /\ live # None /\ newest < MaxInode
  /\ live' = None
  /\ UNCHANGED <<content, torn, newest, gone, writer, next,
                 phase, reader, post, saved, accepted, dropped, restarts, breaches>>

\* A new file appears at the path.  It is too early ("lag") while some file after
\* the committed one still holds lines, and it races the tailer if it appears
\* between the tailer's last read of the old file and its look at the path.
NewFile ==
  /\ live = None /\ newest < MaxInode
  /\ newest' = newest + 1 /\ live' = newest + 1
  /\ Breach(When(\E f \in Inode : saved.ino < f /\ f <= newest /\ Size(f) > 0, "lag")
       \cup When(phase = "eof", "race")
       \cup When(\E off \in Remembered(newest) : off > Size(newest), "truncated"))

\* logrotate "create" makes the file; otherwise tac_plus-ng does when told to reopen.
Create ==
  /\ NewFile
  /\ UNCHANGED <<content, torn, gone, writer, next,
                 phase, reader, post, saved, accepted, dropped, restarts>>

Reopen ==
  /\ \/ NewFile
     \/ live # None /\ live # writer /\ UNCHANGED <<live, newest, breaches>>
  /\ writer' = live'
  /\ UNCHANGED <<content, torn, gone, next,
                 phase, reader, post, saved, accepted, dropped, restarts>>

\* A rotated file is compressed or removed.
Vanish(f) ==
  /\ f < newest /\ f \notin gone
  /\ gone' = gone \cup {f}
  /\ Breach(When(f >= saved.ino, "vanished"))
  /\ Bounded
  /\ UNCHANGED <<content, torn, live, newest, writer, next,
                 phase, reader, post, saved, accepted, dropped, restarts>>

\* logrotate copytruncate: harmless when all of the file has been acknowledged.
Truncate ==
  /\ live # None /\ content[live] # << >>
  /\ content' = [content EXCEPT ![live] = << >>]
  /\ torn' = [torn EXCEPT ![live] = None]
  /\ LET acknowledged ==
           /\ writer = live /\ torn[live] = None
           /\ phase \in {"down", "idle"}
           /\ saved = [ino |-> live, off |-> Len(content[live])]
           /\ fh # None => fh = live /\ pos = saved.off
     IN Breach(When(~acknowledged, "truncated"))
  /\ Bounded
  /\ UNCHANGED <<live, newest, gone, writer, next,
                 phase, reader, post, saved, accepted, dropped, restarts>>

-----------------------------------------------------------------------------
(* FileTailer                                                               *)

\* Mutants: the seek is off by one; the stored offset is ignored.
OpenFileOffByOne(f, off) == fh' = f /\ ident' = f /\ pos' = off - 1 /\ buf' = None
OpenFileAtStart(f, off) == fh' = f /\ ident' = f /\ pos' = 0 /\ buf' = None

OpenFile(f, off) ==
  /\ fh' = f /\ ident' = f /\ pos' = off /\ buf' = None

\* Mutant: with no stored position, start at the end although "beginning" is configured.
OpenLogAtEnd ==
  /\ phase = "idle" /\ fh = None /\ live # None
  /\ IF saved.ino = live THEN OpenFile(live, Resume(live, saved.off))
     ELSE OpenFile(live, Size(live))
  /\ phase' = "read" /\ round' = 0
  /\ UNCHANGED <<disk, post, saved, accepted, dropped, restarts, breaches>>

\* _open: resume the live file, or the rotated one the stored position is in, or
\* start the live file from its beginning.
OpenLog ==
  /\ phase = "idle" /\ fh = None /\ live # None
  /\ \/ saved.ino = live /\ OpenFile(live, Resume(live, saved.off))
     \/ /\ saved.ino \notin {None, live} /\ saved.ino \notin gone
        /\ OpenFile(saved.ino,
                    IF saved.off <= Size(saved.ino) THEN saved.off ELSE Size(saved.ino))
     \/ /\ saved.ino = None \/ (saved.ino # live /\ saved.ino \in gone)
        /\ OpenFile(live, 0)
  /\ phase' = "read" /\ round' = 0
  /\ UNCHANGED <<disk, post, saved, accepted, dropped, restarts, breaches>>

\* read_lines on a file that is already open.
StartRead ==
  /\ phase = "idle" /\ fh # None
  /\ phase' = "read" /\ round' = 0
  /\ UNCHANGED <<disk, fh, ident, pos, buf, post, saved, accepted, dropped, restarts, breaches>>

\* read_lines returns: nothing to ship, or a batch to post.
Return(lines) ==
  /\ batch' = lines /\ done' = 0
  /\ cuts' = IF lines = << >> THEN {} ELSE {Len(lines)}
  /\ phase' = IF lines = << >> THEN "idle" ELSE "posting"

\* _read_from_handle: complete lines up to the batch size, or to the end of the file.
ReadLines ==
  /\ phase = "read"
  /\ LET room  == BatchSize - Len(batch)
         avail == IF pos < Len(content[fh]) THEN Len(content[fh]) - pos ELSE 0
         n     == IF room <= avail THEN room ELSE avail
         lines == batch \o SubSeq(content[fh], pos + 1, pos + n)
     IN /\ pos' = pos + n
        /\ IF room <= avail
           THEN Return(lines) /\ buf' = None
           ELSE /\ batch' = lines /\ phase' = "eof" /\ UNCHANGED <<done, cuts>>
                /\ buf' = IF pos + n = Len(content[fh]) THEN torn[fh] ELSE None
  /\ UNCHANGED <<disk, fh, ident, round, saved, accepted, dropped, restarts, breaches>>

\* The unterminated line of a rotated file counts as its last record.
WithTail == IF buf = None THEN batch ELSE Append(batch, buf)

\* After a switch or a restart at 0 the loop goes round, MaxRounds times at most.
NextRound(lines) ==
  /\ round' = round + 1
  /\ IF round + 1 < MaxRounds
     THEN phase' = "read" /\ batch' = lines /\ UNCHANGED <<done, cuts>>
     ELSE Return(lines)

\* _check_rotation, at end of file.
CheckNothingNew ==
  /\ phase = "eof" /\ (live = None \/ (live = ident /\ pos <= Size(live)))
  /\ Return(batch)
  /\ UNCHANGED <<disk, reader, saved, accepted, dropped, restarts, breaches>>

CheckTruncated ==
  /\ phase = "eof" /\ live = ident /\ Size(live) < pos
  /\ pos' = 0 /\ buf' = None
  /\ NextRound(batch)
  /\ UNCHANGED <<disk, fh, ident, saved, accepted, dropped, restarts, breaches>>

CheckRotated ==
  /\ phase = "eof" /\ live \notin {None, ident}
  /\ OpenFile(live, 0)
  /\ NextRound(WithTail)
  /\ UNCHANGED <<disk, saved, accepted, dropped, restarts, breaches>>

\* ... and the new file cannot be opened: no handle, the old position is kept.
CheckRotatedOpenFails ==
  /\ phase = "eof" /\ live \notin {None, ident}
  /\ fh' = None /\ pos' = pos + Len(WithTail) - Len(batch) /\ buf' = None
  /\ Return(WithTail)
  /\ UNCHANGED <<disk, ident, round, saved, accepted, dropped, restarts, breaches>>

-----------------------------------------------------------------------------
(* LogShipper and the platform's ingest                                     *)

\* The piece of the batch being posted ends at the first cut behind "done".
IsPiece(end) == end \in cuts /\ end > done /\ \A c \in cuts : c > done => end <= c
Piece(end) == {batch[i] : i \in {j \in 1..Len(batch) : done < j /\ j <= end}}

Permanent(end) == end - done > BodyLimit \/ Piece(end) \cap Rejected # {}
Accepts(end) == ~Permanent(end) /\ Piece(end) \cap Unstorable = {}

\* The platform ingests the piece and its answer arrives.  (A transport error or a
\* 5xx before that changes nothing but the back-off delay: a stuttering step.)
PostAccepted ==
  /\ phase = "posting"
  /\ \E end \in 1..Len(batch) :
       /\ IsPiece(end) /\ Accepts(end)
       /\ accepted' = accepted \cup Piece(end)
       /\ done' = end
  /\ UNCHANGED <<disk, phase, reader, batch, cuts, saved, dropped, restarts, breaches>>

\* It ingests the piece, the answer is lost: the same piece will be posted again.
PostAnswerLost ==
  /\ phase = "posting"
  /\ \E end \in 1..Len(batch) :
       /\ IsPiece(end) /\ Accepts(end)
       /\ accepted' = accepted \cup Piece(end)
  /\ UNCHANGED <<disk, phase, reader, post, saved, dropped, restarts, breaches>>

\* Mutant: a refused batch is posted again as it is.
PostSplitNever == phase = "posting" /\ UNCHANGED vars

\* A permanent error: _split halves the piece, or drops it when it is one line.
PostSplit ==
  /\ phase = "posting"
  /\ \E end \in 1..Len(batch) :
       /\ IsPiece(end) /\ Permanent(end) /\ end - done > 1
       /\ cuts' = cuts \cup {done + (end - done) \div 2}
  /\ UNCHANGED <<disk, phase, reader, batch, done, saved, accepted, dropped, restarts, breaches>>

\* Mutant: the whole refused piece is dropped, not the offending line.
PostDroppedWhole ==
  /\ phase = "posting"
  /\ \E end \in 1..Len(batch) :
       /\ IsPiece(end) /\ Permanent(end)
       /\ dropped' = dropped \cup Piece(end)
       /\ done' = end
  /\ UNCHANGED <<disk, phase, reader, batch, cuts, saved, accepted, restarts, breaches>>

PostDropped ==
  /\ phase = "posting"
  /\ \E end \in 1..Len(batch) :
       /\ IsPiece(end) /\ Permanent(end) /\ end - done = 1
       /\ dropped' = dropped \cup Piece(end)
       /\ done' = end
  /\ UNCHANGED <<disk, phase, reader, batch, cuts, saved, accepted, restarts, breaches>>

\* A 200 whose body is not the platform's JSON (a proxy's page): r.json() raises,
\* run() logs it and carries on with the next batch.
PostGarbled ==
  /\ phase = "posting" /\ done < Len(batch)
  /\ phase' = "idle" /\ batch' = << >> /\ done' = 0 /\ cuts' = {}
  /\ Breach({"garbled"})
  /\ Bounded
  /\ UNCHANGED <<disk, reader, saved, accepted, dropped, restarts>>

\* Mutant: the position is stored before the platform has answered.
CommitEarly ==
  /\ phase = "posting" /\ done < Len(batch)
  /\ saved' = [ino |-> ident, off |-> pos]
  /\ UNCHANGED <<disk, phase, reader, post, accepted, dropped, restarts, breaches>>

\* commit: every piece is settled, the position is stored.
Commit ==
  /\ phase = "posting" /\ done = Len(batch)
  /\ saved' = [ino |-> ident, off |-> pos]
  /\ phase' = "idle" /\ batch' = << >> /\ done' = 0 /\ cuts' = {}
  /\ UNCHANGED <<disk, reader, accepted, dropped, restarts, breaches>>

\* Mutant: stopping during a retry stores the position (a "finally: commit").
StopCommits ==
  /\ phase = "posting" /\ restarts < MaxRestarts
  /\ phase' = "down" /\ restarts' = restarts + 1
  /\ saved' = [ino |-> ident, off |-> pos]
  /\ fh' = None /\ ident' = None /\ pos' = 0 /\ buf' = None /\ round' = 0
  /\ batch' = << >> /\ done' = 0 /\ cuts' = {}
  /\ UNCHANGED <<disk, accepted, dropped, breaches>>

\* The process dies or is stopped (Stopped, SIGTERM, crash): only disk survives.
Stop ==
  /\ phase # "down" /\ restarts < MaxRestarts
  /\ phase' = "down" /\ restarts' = restarts + 1
  /\ fh' = None /\ ident' = None /\ pos' = 0 /\ buf' = None /\ round' = 0
  /\ batch' = << >> /\ done' = 0 /\ cuts' = {}
  /\ UNCHANGED <<disk, saved, accepted, dropped, breaches>>

Start ==
  /\ phase = "down"
  /\ phase' = "idle"
  /\ UNCHANGED <<disk, reader, post, saved, accepted, dropped, restarts, breaches>>

-----------------------------------------------------------------------------
Environment ==
  \/ BeginLine \/ EndLine \/ Rename \/ Create \/ Reopen \/ Truncate
  \/ \E f \in Inode : Vanish(f)
Tailer ==
  OpenLog \/ StartRead \/ ReadLines \/ CheckNothingNew \/ CheckTruncated \/ CheckRotated
Shipper == PostAccepted \/ PostSplit \/ PostDropped \/ Commit

Next ==
  \/ Environment \/ Tailer \/ Shipper
  \/ CheckRotatedOpenFails \/ PostAnswerLost \/ PostGarbled \/ Stop \/ Start

\* The shipper thread runs, the supervisor restarts the agent, the platform answers in
\* the end, the writer ends the line it began and reopens its log after a rotation;
\* opening a file that is there does not fail every time.
Fairness ==
  /\ WF_vars(Tailer) /\ WF_vars(Shipper) /\ WF_vars(Start)
  /\ WF_vars(EndLine) /\ WF_vars(Reopen)
  /\ SF_vars(CheckRotated)

Spec == Init /\ [][Next]_vars
FairSpec == Spec /\ Fairness

-----------------------------------------------------------------------------
(* Properties                                                               *)

\* What a tailer started now would still read: the rest of the file the stored
\* position is in, then the live file.
Recoverable ==
  LET known == saved.ino # None /\ saved.ino \notin gone
  IN (IF ~known THEN {}
      ELSE Rest(saved.ino,
                IF saved.ino = newest THEN Resume(newest, saved.off) ELSE saved.off))
       \cup (IF known /\ saved.ino = newest THEN {} ELSE Rest(newest, 0))

Written == 1..(next - 1)

\* "A batch may be ingested twice but is never lost" (tailer.py), for an operator who
\* keeps the rotation discipline: at every moment, crashes included, each line written is
\* ingested, dropped as unacceptable, or still ahead of the stored position.
NeverLost == breaches = {} => Written \subseteq Delivered \cup Recoverable

\* Within the file of the stored position this needs no discipline about rotation:
\* whatever logrotate does, no line before the stored offset is undelivered.
CommittedPrefix ==
  breaches \cap {"truncated", "garbled"} = {}
    /\ saved.ino # None /\ saved.off <= Size(saved.ino) =>
    \A i \in 1..Len(content[saved.ino]) :
      i <= saved.off => content[saved.ino][i] \in Delivered

\* Bisecting a refused batch settles its lines in the order of the file: none is
\* delivered before an earlier one of the same file is.
DeliveredInOrder ==
  breaches \cap {"truncated", "garbled"} = {} =>
    \A f \in Inode : \A i, j \in 1..Len(content[f]) :
      i < j /\ content[f][j] \in Delivered => content[f][i] \in Delivered

\* "The offending line is isolated": only lines the platform refuses by themselves are
\* dropped, however large or mixed the batch that carried them was.
OnlyRejectedDropped == dropped \subseteq Rejected

\* What is posted again after a crash is at most what was not committed.
NothingCommittedIsPosted ==
  "truncated" \notin breaches /\ phase = "posting"
    /\ saved.ino # None /\ saved.off <= Size(saved.ino) =>
    \A i \in 1..Len(batch), j \in 1..Len(content[saved.ino]) :
      batch[i] = content[saved.ino][j] => j > saved.off

\* The stored position never moves back within a file that is not truncated, nor to an
\* older file.
PositionAdvances ==
  [][ \/ "truncated" \in breaches
      \/ saved'.ino > saved.ino
      \/ saved'.ino = saved.ino /\ (saved'.off >= saved.off \/ Size(saved.ino) < saved.off)
    ]_saved

\* Lines in the agent's memory, on their way to the platform.
Batched == {batch[i] : i \in 1..Len(batch)}

Channel == INSTANCE Delivery WITH
  Item <- Line, Refusable <- Rejected,
  written <- Written, owed <- Recoverable, inFlight <- Batched,
  delivered <- accepted, refused <- dropped,
  broken <- (breaches # {})

\* Files, offsets and batches together are an at-least-once channel from the log to the
\* platform, step by step: only lines a restart would read again are in the agent's hands,
\* only those in its hands are delivered or dropped, and a commit forgets settled ones only.
ImplementsDelivery == Channel!Spec

\* The shipper catches up: again and again, all that is written so far has reached the
\* platform or is refused by it - through crashes, retries and rotations.
CatchesUp == []<>(breaches # {} \/ Written \subseteq Delivered)

\* Moving the stored position on to a newer file leaves no line of the older ones behind.
LeavesNothingBehind ==
  saved.ino # None =>
    \A f \in saved.ino..(saved'.ino - 1) : \A i \in 1..Len(content[f]) :
      content[f][i] \in Delivered

\* "Accounting records produced while the API is down are not lost: they remain in the
\* log files and are shipped from the persisted offsets" (docs/disaster-recovery.md):
\* rotations during the outage are the only breach.
OutageLosesNothing == [][breaches \subseteq {"lag"} => LeavesNothingBehind]_saved

\* "drains it to EOF, then switches to the new file" (tailer.py): one rotation at the
\* moment of the tailer's look at the path is the only breach.
RotationLosesNothing == [][breaches \subseteq {"race"} => LeavesNothingBehind]_saved

\* "one bad line can never wedge the pipeline" (shipper.py): lines that could be stored
\* arrive although one cannot be.
BadLineNeverWedges ==
  []<>(breaches # {} \/ Written \ Unstorable \subseteq Delivered)
=============================================================================
