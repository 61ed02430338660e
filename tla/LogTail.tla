------------------------------ MODULE LogTail -------------------------------
(***************************************************************************)
(* Ingestion of the game's log files by the desktop application            *)
(* (desktop-app/internal/ingest, app/local_ingestion.go,                   *)
(* storage/local_ingestion.go).                                            *)
(*                                                                         *)
(* A Tailer polls a directory: for every selected file it reads what was   *)
(* appended after the stored cursor, offers each complete line to the      *)
(* handler, and the handler's commit stores the line's event and the       *)
(* cursor in one transaction.  A scan has a budget of bytes and of         *)
(* records, shared by the files in directory order.  The polling begins    *)
(* when the first scan has succeeded; when it fails, LocalIngestion.Start  *)
(* drops the error and no scan follows until the application starts again. *)
(*                                                                         *)
(* A file is a sequence of bytes of which only the line feeds matter; a    *)
(* line with nothing in it is no event.                                    *)
(***************************************************************************)
EXTENDS Integers, Sequences, FiniteSets, SequencesExt

CONSTANTS NumFiles,   \* files 1..NumFiles, in directory order
          ReadBytes,  \* Config.MaxReadBytes
          ScanRecords,\* Config.MaxRecordsScan
          MaxBytes,   \* bound: length of each file
          MaxScanFaults  \* bound: rewritten files, failed commits, crashes

ASSUME LogTailAssumption ==
    /\ NumFiles \in Nat \ {0}
    /\ MaxBytes \in [1..NumFiles -> Nat]
    /\ ReadBytes \in Nat /\ ScanRecords \in Nat /\ MaxScanFaults \in Nat

VARIABLES content,   \* the bytes of each file: "c" or "lf"
          listed,    \* files that exist
          cursor,    \* log_cursors: committed offset, None without a row
          events,    \* normalized_local_events: <<start, end>> of each file
          scan,      \* the running Scan
          tailing,   \* Start's first scan, the loop, or neither
          scanFaults,
          base,      \* history: offset at which a file was first seen
          rewritten  \* history: files that became shorter

tailVars == <<content, listed, cursor, events, scan, tailing, scanFaults, base,
              rewritten>>

Files == 1..NumFiles
None == -1
NoScan == [file |-> 0, bytes |-> 0, records |-> 0, offset |-> 0, buf |-> << >>,
         pos |-> 0, open |-> FALSE]

TailInit ==
    /\ content = [f \in Files |-> << >>] /\ listed = {}
    /\ cursor = [f \in Files |-> None] /\ events = [f \in Files |-> {}]
    /\ scan = NoScan /\ tailing = "starting" /\ scanFaults = 0
    /\ base = [f \in Files |-> 0] /\ rewritten = {}

-----------------------------------------------------------------------------
(* The game *)

Create(f) ==
    /\ f \notin listed /\ listed' = listed \cup {f}
    /\ UNCHANGED <<content, cursor, events, scan, tailing, scanFaults, base,
                   rewritten>>

Write(f, b) ==
    /\ f \in listed /\ Len(content[f]) < MaxBytes[f]
    /\ content' = [content EXCEPT ![f] = Append(@, b)]
    /\ UNCHANGED <<listed, cursor, events, scan, tailing, scanFaults, base,
                   rewritten>>

\* The file is replaced by an empty one of the same name.
Rewrite(f) ==
    /\ content[f] # << >> /\ scanFaults < MaxScanFaults /\ scanFaults' = scanFaults + 1
    /\ content' = [content EXCEPT ![f] = << >>]
    /\ rewritten' = rewritten \cup {f}
    /\ UNCHANGED <<listed, cursor, events, scan, tailing, base>>

-----------------------------------------------------------------------------
(* Tailer.Scan; one at a time (scanMu). *)

\* Start's own scan, or the next tick of the loop.
BeginScan ==
    /\ scan = NoScan /\ tailing # "off"
    /\ scan' = [NoScan EXCEPT !.file = 1, !.bytes = ReadBytes, !.records = ScanRecords]
    /\ UNCHANGED <<content, listed, cursor, events, tailing, scanFaults, base,
                   rewritten>>

\* Once a scan has returned without error, the loop is running.
Polls == tailing' = IF scan' = NoScan THEN "polling" ELSE tailing

\* A mutant of After: a file with nothing new ends the scan.
AfterSome(f, read) ==
    IF f + 1 \in Files /\ read > 0 /\ scan.bytes > read /\ scan.records > 0
    THEN [NoScan EXCEPT !.file = f + 1, !.bytes = scan.bytes - read,
                      !.records = scan.records]
    ELSE NoScan

\* The loop ends when a budget is used up or the directory is.
After(f, read) ==
    IF f + 1 \in Files /\ scan.bytes > read /\ scan.records > 0
    THEN [NoScan EXCEPT !.file = f + 1, !.bytes = scan.bytes - read,
                      !.records = scan.records]
    ELSE NoScan

\* The stored offset, 0 again when the file is shorter than that.
Resume(f) == IF cursor[f] > Len(content[f]) THEN 0 ELSE cursor[f]

\* scanFile up to the first record.  A file without a cursor is begun at its
\* end: what it holds already is history.
OpenFile ==
    /\ scan # NoScan /\ ~ scan.open
    /\ LET f == scan.file  size == Len(content[f]) IN
       IF f \notin listed THEN /\ scan' = After(f, 0)
                               /\ UNCHANGED <<cursor, base>>
       ELSE IF cursor[f] = None
       THEN /\ cursor' = [cursor EXCEPT ![f] = size]
            /\ base' = [base EXCEPT ![f] = size]
            /\ scan' = After(f, 0)
       ELSE LET from == Resume(f)
                buf == SubSeq(content[f], from + 1,
                              from + Min({scan.bytes, size - from}))
            IN /\ cursor' = [cursor EXCEPT ![f] = from]
               /\ scan' = IF size > from
                          THEN [scan EXCEPT !.open = TRUE, !.offset = from, !.buf = buf]
                          ELSE After(f, 0)
               /\ UNCHANGED base
    /\ Polls
    /\ UNCHANGED <<content, listed, events, scanFaults, rewritten>>

\* A mutant of NewlineEnd: the line feed is left to the next record.
NewlineAt(buf, pos) ==
    LET ends == {i \in (pos + 2)..Len(buf) : buf[i] = "lf"}
    IN IF ends = {} THEN 0 ELSE Min(ends) - 1

\* newlineEnd: the end of the record that begins at pos, 0 if it is not there.
NewlineEnd(buf, pos) ==
    LET ends == {i \in (pos + 1)..Len(buf) : buf[i] = "lf"}
    IN IF ends = {} THEN 0 ELSE Min(ends)
Record == NewlineEnd(scan.buf, scan.pos)
HasRecord == scan.open /\ scan.records > 0 /\ Record > 0

\* An empty line is committed without an event.
NewEvents(start, end) == IF end > start + 1 THEN {<<start, end>>} ELSE {}

\* The handler commits: CommitNormalizedEvents, INSERT OR IGNORE by the ID of
\* kind, path, start and end, and the cursor, in one transaction.
CommitRecord ==
    /\ HasRecord
    /\ LET f == scan.file IN
       /\ events' = [events EXCEPT ![f] = @ \cup
                        NewEvents(scan.offset + scan.pos, scan.offset + Record)]
       /\ cursor' = [cursor EXCEPT ![f] = scan.offset + Record]
    /\ scan' = [scan EXCEPT !.pos = Record, !.records = @ - 1]
    /\ UNCHANGED <<content, listed, tailing, scanFaults, base, rewritten>>

\* The directory or a file cannot be read, or a transaction fails: the error ends
\* the scan.  The loop drops it and goes on; Start returns it without a loop,
\* and its caller drops it.
ScanFails ==
    /\ scan # NoScan \/ tailing = "starting"
    /\ scanFaults < MaxScanFaults /\ scanFaults' = scanFaults + 1
    /\ scan' = NoScan
    /\ tailing' = IF tailing = "starting" THEN "off" ELSE tailing
    /\ UNCHANGED <<content, listed, cursor, events, base, rewritten>>

\* No complete record is left in what was read; all of it counts.
CloseFile ==
    /\ scan.open /\ ~ HasRecord
    /\ scan' = After(scan.file, Len(scan.buf))
    /\ Polls
    /\ UNCHANGED <<content, listed, cursor, events, scanFaults, base, rewritten>>

\* The application stops and starts again.
Restart ==
    /\ scanFaults < MaxScanFaults /\ scanFaults' = scanFaults + 1
    /\ scan' = NoScan /\ tailing' = "starting"
    /\ UNCHANGED <<content, listed, cursor, events, base, rewritten>>

Scan == BeginScan \/ OpenFile \/ CommitRecord \/ CloseFile

TailNext ==
    \/ \E f \in Files : Create(f) \/ Rewrite(f) \/ \E b \in {"c", "lf"} : Write(f, b)
    \/ Scan \/ ScanFails \/ Restart

TailSpec == TailInit /\ [][TailNext]_tailVars
FairTail == TailSpec /\ WF_tailVars(Scan)

-----------------------------------------------------------------------------
(* Properties *)

TailTypeOK ==
    /\ \A f \in Files : /\ content[f] \in Seq({"c", "lf"})
                        /\ Len(content[f]) <= MaxBytes[f]
                        /\ cursor[f] \in None..MaxBytes[f]
                        /\ base[f] \in 0..MaxBytes[f]
    /\ listed \subseteq Files /\ rewritten \subseteq Files
    /\ scan.file \in 0..NumFiles /\ scan.pos <= Len(scan.buf)
    /\ scan.bytes \in 0..ReadBytes /\ scan.records \in 0..ScanRecords
    /\ scanFaults \in 0..MaxScanFaults
    /\ tailing \in {"starting", "polling", "off"}

\* The complete lines of a text after the offset from, each with where it begins.
Ends(text, from) == {i \in (from + 1)..Len(text) : text[i] = "lf"}
EndsBefore(text, from, e) == {d \in Ends(text, from) : d < e}
Begins(text, from, e) ==
    IF EndsBefore(text, from, e) = {} THEN from ELSE Max(EndsBefore(text, from, e))
Lines(text, from) == {<<Begins(text, from, e), e>> : e \in Ends(text, from)}

\* Those that end at the offset to or before and have something in them.
Records(text, from, to) == {l \in Lines(text, from) : l[2] <= to /\ l[2] > l[1] + 1}

\* Every line a file gets after it was first seen is stored once, as the line
\* it is, when the cursor has passed it and not before, whatever scans fail
\* (a file that is rewritten at its path excepted).
StoredExactlyOnce ==
    \A f \in Files \ rewritten : cursor[f] # None =>
        events[f] = Records(content[f], base[f], cursor[f])

\* Type correctness, and every line once.
TailInvariant == TailTypeOK /\ StoredExactlyOnce

\* What a scan has left for f once the unfinished lines before it are read.
Unread(f) == IF cursor[f] = None THEN 0 ELSE Len(content[f]) - cursor[f]
UnreadBefore(f) == FoldSet(LAMBDA g, n : n + Unread(g), 0, 1..(f - 1))
Clogged(f) ==
    /\ cursor[f] # None
    /\ \E l \in Lines(content[f], cursor[f]) :
           l[1] = cursor[f] /\ UnreadBefore(f) + (l[2] - l[1]) > ReadBytes

\* Every complete line is stored in the end, unless it does not fit into the
\* budget that the unfinished lines of the files before it leave, or the first
\* scan after a start has failed, which ends the ingestion (Tailer.Start).
EveryLineHandled ==
    \A f \in Files : \A e \in 1..MaxBytes[f] :
        (cursor[f] # None /\ Len(content[f]) >= e /\ content[f][e] = "lf")
            ~> (cursor[f] >= e \/ Clogged(f) \/ f \in rewritten \/ tailing = "off")
=============================================================================
