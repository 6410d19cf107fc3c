------------------------------ MODULE Collector ------------------------------
(***************************************************************************)
(* stream_records_from_source of collector.rs: how a backup reads one      *)
(* session file while its writer keeps appending to it.                    *)
(*                                                                         *)
(* Bytes matter here: the size snapshot may cut a line, a CRLF or a        *)
(* multi-byte character in two, and a tail without its newline is archived *)
(* or left for later by what the JSON parser says of it (JsonText).  What  *)
(* Backup calls the i-th line of a source is here a record, and its line   *)
(* count the byte offset checkpoint.                                       *)
(***************************************************************************)
EXTENDS JsonText

CONSTANTS
    Lines,      \* lines the writer writes, without their terminators
    MaxBytes    \* bound: longest session file

VARIABLES
    file,       \* bytes of the session file
    todo,       \* bytes of the line being written that are not in the file yet
    checkpoint, \* the committed offset
    archived,   \* the committed records
    pc,         \* whether a backup is reading
    snapshot,   \* size when the file was opened
    pos,        \* commit_offset: end of the last line handled
    staged,     \* records passed to the backup so far
    outcome     \* how the last backup ended

readerVars == <<pc, snapshot, pos, staged, outcome>>
vars == <<file, todo, checkpoint, archived, readerVars>>

-----------------------------------------------------------------------------
Terminators == {<<"nl">>, <<"cr", "nl">>}

\* Offset of the first byte after the line that begins at offset from, in the
\* first size bytes: raw lines end after a newline, or where the bytes end.
LineEnd(bytes, from, size) ==
    CHOOSE e \in (from + 1)..size :
        /\ e = size \/ bytes[e] = "nl"
        /\ \A i \in (from + 1)..(e - 1) : bytes[i] # "nl"

\* trim_end_matches of carriage returns and newlines.
Trimmed(line) ==
    SubSeq(line, 1, CHOOSE n \in 0..Len(line) :
        /\ \A i \in (n + 1)..Len(line) : line[i] \in Breaks
        /\ n > 0 => line[n] \notin Breaks)

Utf8(line) ==
    \A i \in 1..Len(line) :
        /\ line[i] = "lead" => i < Len(line) /\ line[i + 1] = "cont"
        /\ line[i] = "cont" => i > 1 /\ line[i - 1] = "lead"

\* What str::trim leaves of a text.
Ink(text) == {i \in 1..Len(text) : text[i] # "blank"}

\* is_likely_complete_json_line: without the blanks around it, the text begins
\* and ends with the brackets of a container, and the parser, which skips the
\* blanks before it, does not run out of input: what it finds malformed is kept.
LooksComplete(text) ==
    \E first, last \in Ink(text) :
        /\ Ink(text) \subseteq first..last
        /\ <<text[first], text[last]>> \in Pairs
        /\ Decided(Parse(text)[last])

\* The writer writes whole characters and no line breaks inside a line.  A line
\* may be anything else: not JSON at all, or malformed.
ASSUME LinesAssumption ==
    \A line \in Lines : line \in Seq(Byte \ Breaks) /\ Utf8(line)
ASSUME BytesAssumption == MaxBytes \in Nat

-----------------------------------------------------------------------------
Init ==
    /\ file = <<>> /\ todo = <<>>
    /\ checkpoint = 0 /\ archived = {}
    /\ pc = "idle" /\ snapshot = 0 /\ pos = 0 /\ staged = {}
    /\ outcome = "none"

(* The writer *)

BeginLine(line, end) ==
    /\ todo = <<>>
    /\ Len(file) + Len(line) + Len(end) <= MaxBytes
    /\ todo' = line \o end
    /\ UNCHANGED <<file, checkpoint, archived, readerVars>>

\* Part of a line reaches the file.
WriteBytes(n) ==
    /\ n \in 1..Len(todo)
    /\ file' = file \o SubSeq(todo, 1, n)
    /\ todo' = SubSeq(todo, n + 1, Len(todo))
    /\ UNCHANGED <<checkpoint, archived, readerVars>>

(* The reader *)

EndBackup(how) ==
    /\ pc' = "idle" /\ snapshot' = 0 /\ pos' = 0 /\ staged' = {}
    /\ outcome' = how

OpenFile ==
    /\ pc = "idle"
    /\ pc' = "read"
    /\ snapshot' = Len(file)
    /\ pos' = checkpoint
    /\ UNCHANGED <<file, todo, checkpoint, archived, staged, outcome>>

ReadOffset == LineEnd(file, pos, snapshot)
RawLine    == SubSeq(file, pos + 1, ReadOffset)
Terminated == file[ReadOffset] = "nl"

HasLine == pc = "read" /\ pos < snapshot

\* Mutated: the brackets alone decide.
DeferredUnlessEnclosed ==
    /\ ~ Terminated
    /\ \A first, last \in Ink(Trimmed(RawLine)) :
         Ink(Trimmed(RawLine)) \subseteq first..last
            => <<RawLine[first], RawLine[last]>> \notin Pairs

\* Mutated: terminated lines have to look complete too.
DeferredUnlessComplete == ~ LooksComplete(Trimmed(RawLine))

\* A tail that has no newline and does not look complete is left for later.
Deferred == ~ Terminated /\ ~ LooksComplete(Trimmed(RawLine))

\* Mutated: only what is empty with its line break is blank.
BlankUntrimmed == RawLine = <<>>

Blank == Trimmed(RawLine) = <<>>

RejectLine ==
    /\ HasLine /\ ~ Utf8(RawLine)
    /\ EndBackup("invalid")
    /\ UNCHANGED <<file, todo, checkpoint, archived>>

SkipBlankLine ==
    /\ HasLine /\ Utf8(RawLine) /\ ~ Deferred
    /\ Blank
    /\ pos' = ReadOffset
    /\ UNCHANGED <<file, todo, checkpoint, archived, pc, snapshot, staged, outcome>>

EmitRecord ==
    /\ HasLine /\ Utf8(RawLine) /\ ~ Deferred
    /\ ~ Blank
    /\ staged' = staged \cup {[at |-> pos, text |-> Trimmed(RawLine)]}
    /\ pos' = ReadOffset
    /\ UNCHANGED <<file, todo, checkpoint, archived, pc, snapshot, outcome>>

Commit ==
    /\ checkpoint' = pos
    /\ archived' = archived \cup staged
    /\ EndBackup("committed")
    /\ UNCHANGED <<file, todo>>

\* The loop ends at the snapshot or at a deferred tail; the backup commits.
CommitAtSnapshot == pc = "read" /\ pos = snapshot /\ Commit
CommitAtTail == HasLine /\ Utf8(RawLine) /\ Deferred /\ Commit

\* The backup is killed, or fails at something other than this file.
Kill ==
    /\ pc = "read"
    /\ EndBackup("killed")
    /\ UNCHANGED <<file, todo, checkpoint, archived>>

Reader == \/ OpenFile \/ RejectLine \/ SkipBlankLine \/ EmitRecord
          \/ CommitAtSnapshot \/ CommitAtTail

Writer == \/ \E line \in Lines, end \in Terminators : BeginLine(line, end)
          \/ \E n \in 1..Len(todo) : WriteBytes(n)

Next == Reader \/ Writer \/ Kill

Spec == Init /\ [][Next]_vars

\* Backups go on and are not killed forever; the writer finishes its lines.
FairSpec == /\ Spec
            /\ WF_vars(Reader)
            /\ WF_vars(\E n \in 1..Len(todo) : WriteBytes(n))
            /\ <>[][~ Kill]_vars

-----------------------------------------------------------------------------
(* Properties *)

\* What is in the file once the writer has finished its line.
Whole == file \o todo

\* The bytes part are at offset from.
HasAt(bytes, from, part) ==
    /\ from + Len(part) <= Len(bytes)
    /\ SubSeq(bytes, from + 1, from + Len(part)) = part

\* Offsets at which a line begins.
Starts(bytes) == {i \in 0..(Len(bytes) - 1) : i = 0 \/ bytes[i] = "nl"}

\* The records in a file, as its writer meant them: the nonempty lines.
RecordsOf(bytes) ==
    {[at |-> from, text |-> Trimmed(SubSeq(bytes, from + 1,
                                           LineEnd(bytes, from, Len(bytes))))] :
        from \in Starts(bytes)}
    \ [at : 0..Len(bytes), text : {<<>>}]

\* A line no part of which looks complete: it begins no container, or it is JSON
\* as written by a serializer, which puts no blanks after the last bracket.
Sound(line) ==
    \/ \A first \in Ink(line) :
         Ink(line) \subseteq first..Len(line) => line[first] \notin {"{", "["}
    \/ line[Len(line)] # "blank" /\ Parse(line)[Len(line)].mode = "done"

TypeOK ==
    /\ file \in Seq(Byte) /\ todo \in Seq(Byte)
    /\ Len(file) + Len(todo) <= MaxBytes
    /\ pc \in {"idle", "read"}
    /\ checkpoint \in 0..Len(file)
    /\ snapshot \in 0..Len(file)
    /\ pos \in 0..Len(file)
    /\ \A r \in archived \cup staged :
         r.at \in Nat /\ r.text \in Seq(Byte) /\ r.text # <<>>
    /\ outcome \in {"none", "committed", "invalid", "killed"}

PieceOf(r, line) == line.at <= r.at /\ HasAt(line.text, r.at - line.at, r.text)

Before(r, at) == r.at + Len(r.text) <= at

\* Up to an offset, the bytes of each line are in one record each, and a record
\* is a piece of one line, all of it if the line is sound.
ReadOnce(records, bytes, upto) ==
    /\ \A r \in records :
         /\ Before(r, upto)
         /\ \E line \in RecordsOf(bytes) :
              PieceOf(r, line) /\ (Sound(line.text) => r = line)
    /\ \A r, s \in records : r = s \/ Before(r, s.at) \/ Before(s, r.at)
    /\ \A i \in 1..upto :
         bytes[i] \in Breaks \/ \E r \in records : r.at < i /\ i <= r.at + Len(r.text)

\* However the writer's bytes and the backups interleave, the archive holds every
\* byte of every line up to the checkpoint once, and a sound line (JSON as it is
\* serialized, or one that begins with no bracket) as one whole record, as its
\* writer meant it, although its end may not even have been in the file when it
\* was read: no part of such a line, and no newline that came late, is a record.
\* Only a line that is not sound, met half-written, may be there in pieces.
ArchivedIsPrefix == ReadOnce(archived, Whole, checkpoint)

TerminatedAt(at) ==
    /\ \E i \in (at + 1)..Len(file) : file[i] = "nl"
    /\ \E r \in RecordsOf(file) : r.at = at /\ Sound(r.text)

\* A sound line whose newline is in the file is archived in the end, also when
\* backups meet half-written lines after it or a malformed line in pieces.
TerminatedLinesArchived ==
    \A at \in 0..(MaxBytes - 2) :
        TerminatedAt(at) ~> \E r \in archived : r.at = at /\ r \in RecordsOf(file)

\* "Defers incomplete tail lines to next run" (README.md): a backup never fails
\* over a file in which every line is valid once it is written.
IncompleteTailDeferred == outcome # "invalid"

\* "... instead of archiving partial records" (README.md): every archived record
\* is a line of the file.
NoPartialRecords == archived \subseteq RecordsOf(Whole)

-----------------------------------------------------------------------------
(* The inductive invariant behind ArchivedIsPrefix *)

\* The writer's lines follow each other, each with its terminator.
WholeLines(bytes) ==
    /\ \A i \in Starts(bytes) :
         \E line \in Lines, end \in Terminators : HasAt(bytes, i, line \o end)
    /\ bytes # <<>> => bytes[Len(bytes)] = "nl"

\* Where a backup may stop: at the end of what is written, before the rest of a
\* terminator that was not in the file when its line was archived, where a line
\* begins, or within a line that is not sound.
Boundary(bytes, at) ==
    \/ at = Len(bytes)
    \/ \E end \in Terminators : HasAt(bytes, at, end)
    \/ \E i \in Starts(bytes), line \in Lines, end \in Terminators :
         /\ HasAt(bytes, i, line \o end)
         /\ i <= at /\ at < i + Len(line)
         /\ i = at \/ ~ Sound(line)

\* What a backup at pos has read since the last commit, and nothing else.
ReadInv ==
    /\ pc = "idle" => staged = {}
    /\ Boundary(Whole, checkpoint)
    /\ pc = "read" =>
         /\ checkpoint <= pos /\ pos <= snapshot
         /\ Boundary(Whole, pos)
         /\ ReadOnce(archived \cup staged, Whole, pos)

\* The inductive invariant of stream_records_from_source beside its writer: what
\* is read is what was written up to there, each byte once, and the reader stops
\* inside a line only if the line is not sound.
CollectorInv == TypeOK /\ WholeLines(Whole) /\ ReadInv /\ ArchivedIsPrefix
=============================================================================
