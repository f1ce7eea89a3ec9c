--------------------------- MODULE ArchiveConsumer ---------------------------
(***************************************************************************)
(* The archive consumer: Run and flushBatch of archive-consumer/archive.go *)
(* over the ArchiveWriter of writer.go, started by main.go.  A batch of    *)
(* messages is written as NDJSON lines to the current hour's plain file,   *)
(* fsynced, and then committed; closed hours are gzipped and their plain   *)
(* file removed.                                                           *)
(*                                                                         *)
(* A line is two tokens, its text and its end (the last bytes and the      *)
(* newline), because bufio hands its buffer to the operating system        *)
(* wherever it happens to be full: a file can end in the middle of a line. *)
(* A file is a sequence of tokens.  Crashes lose the process's buffer and  *)
(* keep what the operating system was given.                               *)
(***************************************************************************)
EXTENDS Integers, Sequences

CONSTANTS
    BatchSize,      \* batchSize of main.go
    BufCap,         \* bufio.Writer's buffer, in tokens; a line fits in it
    StartLatest,    \* ARCHIVE_AUTO_OFFSET_RESET: TRUE latest, FALSE earliest
    MaxHour,        \* bound: the clock runs over hours 0..MaxHour
    MaxLog,         \* bound: messages ever published
    MaxCrashes,     \* bound: process kills
    MaxShortWrites, \* bound: file writes that fail part-way (disk full)
    MaxClockBacks   \* bound: clock corrections across an hour boundary

ASSUME BatchAssumption == BatchSize \in Nat \ {0} /\ BufCap \in Nat /\ BufCap >= 2
ASSUME ResetAssumption == StartLatest \in BOOLEAN
ASSUME ArchiveBoundsAssumption ==
    /\ MaxHour \in Nat /\ MaxLog \in Nat /\ MaxCrashes \in Nat
    /\ MaxShortWrites \in Nat /\ MaxClockBacks \in Nat

VARIABLES
    published,   \* messages in the topic (one partition)
    committed,   \* the group's committed position, or None
    pc,          \* where the program is
    position,    \* how many messages this process has been handed
    batch,       \* Run's batch, as offsets
    written,     \* how many messages of the batch w.Write has taken
    curKey,      \* ArchiveWriter.curKey
    open,        \* curFile # nil
    buf,         \* the bufio.Writer's contents
    hour,        \* the wall clock, truncated to the hour
    plain,       \* [hour -> contents of HH.ndjson]
    plainHours,  \* hours whose HH.ndjson exists
    gz,          \* [hour -> contents of HH.ndjson.gz]
    gzHours,     \* hours whose HH.ndjson.gz exists
    crashes, shortWrites, clockBacks,
    durable,     \* history: offsets with a line in a file when it was fsynced
    missed,      \* history: offsets a start at "latest" skipped
    late,        \* history: offsets written to an hour already gzipped
    glued        \* history: offsets appended right behind a torn line

disk == <<plain, plainHours, gz, gzHours>>
process == <<position, batch, written, curKey, open, buf>>
bounds == <<crashes, shortWrites, clockBacks>>
history == <<durable, missed, late, glued>>
vars == <<published, committed, pc, process, hour, disk, bounds, history>>

-----------------------------------------------------------------------------
None == -1
Hours == 0..MaxHour
Offsets == 1..published
Token == [off : 1..MaxLog, part : {"text", "end"}]

Line(o) == <<[off |-> o, part |-> "text"], [off |-> o, part |-> "end"]>>

\* A line of o stands by itself in a file: it starts the file or follows a
\* newline, and nothing interrupts it.
HasLine(file, o) ==
    \E i \in 1..(Len(file) - 1) :
        /\ SubSeq(file, i, i + 1) = Line(o)
        /\ i = 1 \/ file[i - 1].part = "end"

Torn(file) == file # <<>> /\ file[Len(file)].part = "text"

\* Offsets that have an intact line in some file of the archive.
Archived ==
    {o \in Offsets : \E h \in Hours : \/ h \in plainHours /\ HasLine(plain[h], o)
                                      \/ h \in gzHours /\ HasLine(gz[h], o)}

\* bufio.Writer: how many tokens of `pending` are handed to the file when the
\* buffer overflows -- whole buffers, the last 1..BufCap tokens staying behind.
Spilled(pending) == BufCap * ((Len(pending) - 1) \div BufCap)

Stale == plainHours \ {curKey}

Init ==
    /\ published = 0 /\ committed = None
    /\ pc = "down"
    /\ position = 0 /\ batch = <<>> /\ written = 0
    /\ curKey = 0 /\ open = FALSE /\ buf = <<>>
    /\ hour = 0
    /\ plain = [h \in Hours |-> <<>>] /\ plainHours = {}
    /\ gz = [h \in Hours |-> <<>>] /\ gzHours = {}
    /\ crashes = 0 /\ shortWrites = 0 /\ clockBacks = 0
    /\ durable = {} /\ missed = {} /\ late = {} /\ glued = {}

-----------------------------------------------------------------------------
(* The environment.                                                        *)

Publish ==
    /\ published < MaxLog
    /\ published' = published + 1
    /\ UNCHANGED <<committed, pc, process, hour, disk, bounds, history>>

Tick ==
    /\ hour < MaxHour
    /\ hour' = hour + 1
    /\ UNCHANGED <<published, committed, pc, process, disk, bounds, history>>

\* NTP or an operator sets the clock back across the top of an hour.
ClockBack ==
    /\ hour > 0 /\ clockBacks < MaxClockBacks
    /\ hour' = hour - 1
    /\ clockBacks' = clockBacks + 1
    /\ UNCHANGED <<published, committed, pc, process, disk, crashes, shortWrites, history>>

\* The process is gone: its batch and its buffer with it.
Gone ==
    /\ pc' = "down"
    /\ position' = 0 /\ batch' = <<>> /\ written' = 0
    /\ open' = FALSE /\ buf' = <<>>
    /\ UNCHANGED curKey

\* A kill, a failed fetch, gzip or commit, a cancelled context: nothing that
\* is still in memory reaches the disk, and nothing is committed.
Crash ==
    /\ pc # "down" /\ crashes < MaxCrashes
    /\ crashes' = crashes + 1
    /\ Gone
    /\ UNCHANGED <<published, committed, hour, disk, shortWrites, clockBacks, history>>

-----------------------------------------------------------------------------
(* Finalization: NewArchiveWriter at startup and rotate() both gzip every  *)
(* plain file but the current hour's, then go on.                          *)

\* NewArchiveWriter: curKey is set before anything is opened, so that the
\* current hour is never finalized.
Start ==
    /\ pc = "down"
    /\ curKey' = hour
    /\ pc' = "startup"
    /\ UNCHANGED <<published, committed, position, batch, written, open, buf, hour,
                   disk, bounds, history>>

Finalizing == pc \in {"startup", "rotating"}

\* gzipFile, no .gz yet: compress to a temporary file and rename it.
GzipPublish ==
    /\ Finalizing
    /\ \E h \in Stale \ gzHours :
        /\ gz' = [gz EXCEPT ![h] = plain[h]]
        /\ gzHours' = gzHours \cup {h}
    /\ UNCHANGED <<published, committed, pc, process, hour, plain, plainHours, bounds, history>>

\* Mutant: the plain file is removed before the rename, not after it.
RemovePlain_BeforeRename ==
    /\ Finalizing
    /\ \E h \in Stale :
        /\ plain' = [plain EXCEPT ![h] = <<>>]
        /\ plainHours' = plainHours \ {h}
    /\ UNCHANGED <<published, committed, pc, process, hour, gz, gzHours, bounds, history>>

\* gzipFile, the .gz exists: drop the plain file, whatever it holds.
RemovePlain ==
    /\ Finalizing
    /\ \E h \in Stale \cap gzHours :
        /\ plain' = [plain EXCEPT ![h] = <<>>]
        /\ plainHours' = plainHours \ {h}
    /\ UNCHANGED <<published, committed, pc, process, hour, gz, gzHours, bounds, history>>

\* Mutant: the reader always starts at the first message.
Join_AlwaysFirst ==
    /\ pc = "startup" /\ Stale = {}
    /\ pc' = "fetch"
    /\ position' = 0
    /\ UNCHANGED <<published, committed, batch, written, curKey, open, buf, hour,
                   disk, bounds, history>>

\* The reader joins the group: at the committed offset, or, with none, where
\* ARCHIVE_AUTO_OFFSET_RESET says.
Join ==
    /\ pc = "startup" /\ Stale = {}
    /\ pc' = "fetch"
    /\ position' = IF committed # None THEN committed
                   ELSE IF StartLatest THEN published ELSE 0
    /\ missed' = IF committed = None /\ StartLatest THEN missed \cup Offsets ELSE missed
    /\ UNCHANGED <<published, committed, batch, written, curKey, open, buf, hour,
                   disk, bounds, durable, late, glued>>

-----------------------------------------------------------------------------
(* Run and flushBatch.                                                     *)

Fetch ==
    /\ pc = "fetch"
    /\ Len(batch) < BatchSize
    /\ position < published
    /\ position' = position + 1
    /\ batch' = Append(batch, position + 1)
    /\ UNCHANGED <<published, committed, pc, written, curKey, open, buf, hour, disk,
                   bounds, history>>

\* Mutant: no deadline, only full batches are flushed.
BeginFlush_FullOnly ==
    /\ pc = "fetch"
    /\ Len(batch) = BatchSize
    /\ pc' = "write"
    /\ written' = 0
    /\ UNCHANGED <<published, committed, position, batch, curKey, open, buf, hour, disk,
                   bounds, history>>

\* The batch is full, or batchWait has elapsed since its first message.
BeginFlush ==
    /\ pc = "fetch"
    /\ batch # <<>>
    /\ pc' = "write"
    /\ written' = 0
    /\ UNCHANGED <<published, committed, position, batch, curKey, open, buf, hour, disk,
                   bounds, history>>

NeedsRotation == hour # curKey \/ ~open
Remaining == written < Len(batch)
Next1 == batch[written + 1]

\* Write() finds the hour changed or no file open: rotate() closes the old
\* file -- which flushes its buffer but does not fsync it -- and opens the
\* new hour's for appending.
Rotate ==
    /\ pc = "write" /\ Remaining /\ NeedsRotation
    /\ plain' = IF open THEN [plain EXCEPT ![curKey] = @ \o buf] ELSE plain
    /\ plainHours' = plainHours \cup {hour}
    /\ buf' = <<>> /\ open' = TRUE /\ curKey' = hour
    /\ pc' = "rotating"
    /\ UNCHANGED <<published, committed, position, batch, written, hour, gz, gzHours,
                   bounds, history>>

\* The line goes to the buffer; what overflows it goes to the file.  After a
\* rotation the hour is not looked at again.
WriteLine ==
    /\ Remaining
    /\ \/ pc = "write" /\ ~NeedsRotation
       \/ pc = "rotating" /\ Stale = {}
    /\ LET pending == buf \o Line(Next1)
           n == Spilled(pending)
       IN  /\ plain' = [plain EXCEPT ![curKey] = @ \o SubSeq(pending, 1, n)]
           /\ buf' = SubSeq(pending, n + 1, Len(pending))
    /\ written' = written + 1
    /\ late' = IF curKey \in gzHours THEN late \cup {Next1} ELSE late
    /\ glued' = IF Torn(plain[curKey] \o buf) THEN glued \cup {Next1} ELSE glued
    /\ pc' = "write"
    /\ UNCHANGED <<published, committed, position, batch, curKey, open, hour, plainHours,
                   gz, gzHours, bounds, durable, missed>>

\* A write to the current file stops part-way: the error propagates out of
\* Run, whose deferred Close meets bufio's sticky error, and main exits.
ShortWrite ==
    /\ pc = "write" /\ open
    /\ shortWrites < MaxShortWrites
    /\ LET pending == IF Remaining /\ ~NeedsRotation
                        THEN buf \o Line(Next1) ELSE buf
       IN  \E n \in 0..(Len(pending) - 1) :
               plain' = [plain EXCEPT ![curKey] = @ \o SubSeq(pending, 1, n)]
    /\ shortWrites' = shortWrites + 1
    /\ Gone
    /\ UNCHANGED <<published, committed, hour, plainHours, gz, gzHours, crashes,
                   clockBacks, history>>

\* Mutant: Flush() fsyncs without emptying the buffer into the file.
Sync_BufferKept ==
    /\ pc = "write" /\ ~Remaining
    /\ durable' = durable \cup {o \in Offsets : HasLine(plain[curKey], o)}
    /\ pc' = "commit"
    /\ UNCHANGED <<published, committed, position, batch, written, curKey, open, buf, hour,
                   disk, bounds, missed, late, glued>>

\* Mutant: the buffer is emptied but the file is not fsynced.
Sync_NoFsync ==
    /\ pc = "write" /\ ~Remaining
    /\ plain' = [plain EXCEPT ![curKey] = @ \o buf]
    /\ buf' = <<>>
    /\ pc' = "commit"
    /\ UNCHANGED <<published, committed, position, batch, written, curKey, open, hour,
                   plainHours, gz, gzHours, bounds, history>>

\* Every message is written: Flush() empties the buffer and fsyncs the file
\* that is open now.
Sync ==
    /\ pc = "write" /\ ~Remaining
    /\ plain' = [plain EXCEPT ![curKey] = @ \o buf]
    /\ buf' = <<>>
    /\ durable' = durable \cup {o \in Offsets : HasLine(plain'[curKey], o)}
    /\ pc' = "commit"
    /\ UNCHANGED <<published, committed, position, batch, written, curKey, open, hour,
                   plainHours, gz, gzHours, bounds, missed, late, glued>>

\* CommitMessages for the whole batch.
Commit ==
    /\ pc = "commit"
    /\ committed' = position
    /\ batch' = <<>> /\ written' = 0
    /\ pc' = "fetch"
    /\ UNCHANGED <<published, position, curKey, open, buf, hour, disk, bounds, history>>

-----------------------------------------------------------------------------
Finalize == GzipPublish \/ RemovePlain
Flush == BeginFlush \/ Rotate \/ WriteLine \/ Sync \/ Commit

Next ==
    \/ Publish \/ Tick \/ ClockBack \/ Crash
    \/ Start \/ Finalize \/ Join \/ Fetch \/ Flush \/ ShortWrite

Spec == Init /\ [][Next]_vars

\* The container restarts the process (restart: unless-stopped), messages
\* that wait are handed over, and batchWait bounds how long a batch is open.
FairSpec ==
    /\ Spec
    /\ WF_vars(Start) /\ WF_vars(Finalize) /\ WF_vars(Join) /\ WF_vars(Fetch)
    /\ WF_vars(Flush)

-----------------------------------------------------------------------------
(* Properties.                                                             *)

Committed(o) == committed # None /\ o <= committed

(***************************************************************************)
(* Every variable has its type, and the buffer never exceeds its capacity. *)
(***************************************************************************)
TypeOK ==
    /\ published \in 0..MaxLog /\ committed \in {None} \cup 0..published
    /\ pc \in {"down", "startup", "fetch", "write", "rotating", "commit"}
    /\ position \in 0..published
    /\ batch \in Seq(Offsets) /\ Len(batch) <= BatchSize
    /\ written \in 0..Len(batch)
    /\ curKey \in Hours /\ hour \in Hours /\ open \in BOOLEAN
    /\ buf \in Seq(Token) /\ Len(buf) <= BufCap
    /\ plain \in [Hours -> Seq(Token)] /\ gz \in [Hours -> Seq(Token)]
    /\ plainHours \subseteq Hours /\ gzHours \subseteq Hours
    /\ crashes \in Nat /\ shortWrites \in Nat /\ clockBacks \in Nat
    /\ durable \cup missed \cup late \cup glued \subseteq Offsets

(***************************************************************************)
(* "A crash may duplicate lines but never loses data" (archive.go:3-4), as *)
(* far as the code keeps it: a committed message has an intact line in the *)
(* archive, unless the group started beyond it, its line went to an hour   *)
(* that was already gzipped (the clock stepped back), or it was appended   *)
(* to a torn line left by a short write or by a crash before the group's   *)
(* first commit at "latest".  Any other crash loses nothing, although it   *)
(* too leaves a torn line: a batch's first line fits in the buffer, so it  *)
(* is never the torn one, and it is the one redelivered first.             *)
(***************************************************************************)
CommittedIntact ==
    \A o \in Offsets : Committed(o) =>
        \/ o \in Archived \cup missed
        \/ o \in late /\ clockBacks > 0
        \/ o \in glued /\ (shortWrites > 0 \/ missed # {})

(***************************************************************************)
(* How much of "a batch is written AND fsynced before its offsets are      *)
(* committed" (archive.go:34) the code keeps: when a batch is committed,   *)
(* every line of it in the file that is open now has been fsynced, its     *)
(* last line among them.  Lines the rotation left in an earlier hour's     *)
(* file have only been handed to the operating system (writer.go:96).      *)
(***************************************************************************)
FsyncedUnlessRotated ==
    pc = "commit" => \A i \in 1..Len(batch) : batch[i] \notin durable =>
        /\ ~HasLine(plain[curKey], batch[i])
        /\ i < Len(batch) \/ batch[i] \in glued

(***************************************************************************)
(* A .ndjson.gz at its final name is complete and final: no later rotation *)
(* or restart rewrites or removes it ("each file is gzipped exactly once").*)
(***************************************************************************)
GzipIsFinal ==
    [][\A h \in gzHours : h \in gzHours' /\ gz'[h] = gz[h]]_vars

(***************************************************************************)
(* Finalization erases nothing: at every step, including every point where *)
(* a crash can interrupt gzipFile, a line that is in the archive stays in  *)
(* it -- except lines written to an hour that was already gzipped.         *)
(***************************************************************************)
NothingErased == [][Archived \subseteq Archived' \cup late]_vars

(***************************************************************************)
(* Every message is eventually committed (or was skipped by the first      *)
(* start), through crashes, short writes and clock corrections.            *)
(***************************************************************************)
ArchiveDrains ==
    \A o \in 1..MaxLog : (o \in Offsets) ~> (Committed(o) \/ o \in missed)

-----------------------------------------------------------------------------
(* The archive consumer implements LogConsumer; a message is settled when  *)
(* its line is in a file, or is one of the exceptions of CommittedIntact.  *)

Log == INSTANCE LogConsumer WITH
    published <- published,
    settled <- Archived \cup missed \cup late \cup glued,
    acked <- IF committed = None THEN 0 ELSE committed

(***************************************************************************)
(* The committed offset only advances, and only over messages that the     *)
(* archive holds (with the exceptions above), whatever is interrupted.     *)
(***************************************************************************)
ImplementsLogConsumer == Log!Spec
=============================================================================
