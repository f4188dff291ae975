------------------------------- MODULE UsageLog -------------------------------
(* The savings log (internal/usage/stats.go): processes append a record for    *)
(* each tool call through a handle they keep, another program rotates the file,*)
(* a failed write may leave part of a line, and the summary reads what is at   *)
(* the path.                                                                   *)
EXTENDS Integers, Sequences, FiniteSets, SequencesExt, FiniteSetsExt, Functions

CONSTANTS Processes,    \* recorders: servers, and `ken search` runs
          CheckEvery,   \* usageRotationCheckEvery
          Answers,      \* answers of tool calls: sets of [file, chars]
          SizeOf,       \* file -> bytes; files not in it cannot be stat'ed
          Days,         \* days the log spans
          MaxRecords, MaxRotations, MaxFails   \* bounds

VARIABLES files,   \* every file that was at the path: sequence of pieces
          path,    \* the one that is there now: its number, or 0
          handle,  \* process -> the file it holds open, or 0
          since,   \* process -> writesSinceCheck
          day,
          sent,    \* history: records given to Record
          fails,   \* history: writes that failed
          stale,   \* history: process -> records it wrote to a rotated file
          summary  \* the last summary, or NoSummary

vars == <<files, path, handle, since, day, sent, fails, stale, summary>>
NoSummary == <<>>

\* What a write leaves: a line, the part of one, or all of it but its end.
Piece(rec, whole) == [rec |-> rec, whole |-> whole]
Cuts == {"part", "unended"}

-----------------------------------------------------------------------------
(* recordSearchUsage: the text shown, and the size of the files it came from. *)

Total(S, f(_)) == FoldSet(LAMBDA x, t : f(x) + t, 0, S)
Usage(answer) ==
  [snippet |-> Total(answer, LAMBDA r : r.chars),
   file |-> Total({r.file : r \in answer} \cap DOMAIN SizeOf, LAMBDA f : SizeOf[f]),
   day |-> day]

-----------------------------------------------------------------------------
Init ==
  /\ files = <<>> /\ path = 0 /\ day = Min(Days)
  /\ handle = [p \in Processes |-> 0] /\ since = [p \in Processes |-> 0]
  /\ sent = 0 /\ fails = 0 /\ stale = [p \in Processes |-> 0] /\ summary = NoSummary

\* Every so many writes, and before the write, the handle is compared with
\* the path.
Due_Late(p) == since[p] + 1 > CheckEvery         \* mutant: one write too late
Due(p) == since[p] + 1 >= CheckEvery
Keeps(p) == handle[p] # 0 /\ (~Due(p) \/ handle[p] = path)
SinceKept(p) == IF Due(p) THEN 0 ELSE since[p] + 1

\* O_CREATE: the file is made if there is none.
Opened == IF path # 0 THEN path ELSE Len(files) + 1
Made == IF path # 0 THEN files ELSE Append(files, <<>>)

\* Record, to the handle it keeps or opens.
Target(p) == IF Keeps(p) THEN handle[p] ELSE Opened
Write(p, answer, whole) ==
  LET had == IF Keeps(p) THEN files ELSE Made IN
  /\ answer # {} /\ sent < MaxRecords /\ sent' = sent + 1
  /\ files' = [had EXCEPT ![Target(p)] = Append(@, Piece(Usage(answer), whole))]
  /\ path' = IF Keeps(p) THEN path ELSE Opened
  /\ since' = [since EXCEPT ![p] = IF Keeps(p) THEN SinceKept(p) ELSE 0]
  /\ stale' = [stale EXCEPT ![p] = IF Target(p) = path' THEN 0 ELSE @ + 1]
  /\ summary' = NoSummary /\ UNCHANGED day

Record(p, answer) ==
  /\ Write(p, answer, "whole")
  /\ handle' = [handle EXCEPT ![p] = Target(p)]
  /\ UNCHANGED fails

\* The write fails, perhaps after some of its bytes; the handle is dropped.
WriteFails(p, answer) ==
  /\ fails < MaxFails /\ fails' = fails + 1
  /\ \E cut \in Cuts : Write(p, answer, cut)
  /\ handle' = [handle EXCEPT ![p] = 0]

\* The file cannot be opened: the record is lost.
OpenFails(p, answer) ==
  /\ ~Keeps(p) /\ answer # {}
  /\ fails < MaxFails /\ fails' = fails + 1
  /\ sent < MaxRecords /\ sent' = sent + 1
  /\ handle' = [handle EXCEPT ![p] = 0]
  /\ since' = [since EXCEPT ![p] = IF handle[p] # 0 THEN 0 ELSE @]
  /\ summary' = NoSummary /\ UNCHANGED <<files, path, day, stale>>

\* A call after Close opens the file again.
Close(p) ==
  /\ handle[p] # 0 /\ handle' = [handle EXCEPT ![p] = 0]
  /\ UNCHANGED <<files, path, since, day, sent, fails, stale, summary>>

Rotate ==
  /\ path # 0 /\ Len(files) < MaxRotations + 1 /\ path' = 0
  /\ summary' = NoSummary
  /\ UNCHANGED <<files, handle, since, day, sent, fails, stale>>

DayPasses ==
  /\ \E d \in Days : d > day
  /\ day' = Min({d \in Days : d > day}) /\ summary' = NoSummary
  /\ UNCHANGED <<files, path, handle, since, sent, fails, stale>>

-----------------------------------------------------------------------------
(* BuildSummary.                                                              *)

\* A line parses if it is one whole record: nothing cut runs into it, and only
\* its end may be missing, at the end of the file.
Parses(pieces, i) ==
  /\ i > 1 => pieces[i - 1].whole = "whole"
  /\ pieces[i].whole = "whole" \/ (pieces[i].whole = "unended" /\ i = Len(pieces))
Lines(pieces) ==
  [n \in 1..Cardinality({i \in DOMAIN pieces : Parses(pieces, i)}) |->
     pieces[SetToSortSeq({i \in DOMAIN pieces : Parses(pieces, i)}, <)[n]].rec]

Saved(rec) == IF rec.file > rec.snippet THEN rec.file - rec.snippet ELSE 0
Bucket(recs) ==
  [calls |-> Len(recs),
   snippet |-> Total(DOMAIN recs, LAMBDA i : recs[i].snippet),
   file |-> Total(DOMAIN recs, LAMBDA i : recs[i].file),
   saved |-> Total(DOMAIN recs, LAMBDA i : Saved(recs[i]))]
Since(recs, from) == SelectSeq(recs, LAMBDA r : r.day >= from)

\* The week is today and the six days before.
BuildSummary ==
  LET recs == IF path = 0 THEN <<>> ELSE Lines(files[path])
  IN [today |-> Bucket(Since(recs, day)), week |-> Bucket(Since(recs, day - 6)), all |-> Bucket(recs)]
Summarise ==
  /\ summary = NoSummary /\ summary' = BuildSummary
  /\ UNCHANGED <<files, path, handle, since, day, sent, fails, stale>>

Next ==
  \/ \E p \in Processes :
       \/ \E a \in Answers : Record(p, a) \/ WriteFails(p, a) \/ OpenFails(p, a)
       \/ Close(p)
  \/ Rotate \/ DayPasses \/ Summarise
Spec == Init /\ [][Next]_vars

-----------------------------------------------------------------------------
(* A process notices a rotation before it has written CheckEvery records to   *)
(* the file that was moved away (Recorder.Record).                            *)
RotationIsSeen == \A p \in Processes : stale[p] < CheckEvery

(* A failed write costs at most its own record and the next one to that file; *)
(* every other record is counted once wherever it is, and the summary of what *)
(* is at the path is complete: a day within its week within the whole, and no *)
(* saving above the size of the files.                                        *)
LogAddsUp ==
  LET counted == Total(DOMAIN files, LAMBDA f : Len(Lines(files[f])))
  IN /\ RotationIsSeen
     /\ counted <= sent /\ sent - counted <= 2 * fails
     /\ summary # NoSummary =>
          /\ summary.all.calls <= counted
          /\ summary.today.calls <= summary.week.calls /\ summary.week.calls <= summary.all.calls
          /\ Len(files) = 1 /\ path = 1 => summary.all.calls = counted
          /\ summary.all.file - summary.all.snippet <= summary.all.saved
          /\ summary.all.saved <= summary.all.file
===============================================================================
