-------------------------- MODULE ArchiveCompactor --------------------------
(***************************************************************************)
(* The archive compactor: run_once of archive-compactor/src/main.py over   *)
(* eligibility.py and compact.py.  A pass folds every eligible day into    *)
(* parquet/date=<day>, then deletes the raw files of every compacted day   *)
(* whose grace period is over and whose row counts still match.  Passes    *)
(* run in processes of their own -- the daily loop and an operator's       *)
(* --once -- over one directory tree, with the Go writer beside them, and  *)
(* any of them may die between two file operations.                        *)
(*                                                                         *)
(* Time is in days.  A day's hourly files are named by their hour, and what *)
(* a file holds is the number of its lines (Lines): all verification sees. *)
(***************************************************************************)
EXTENDS Integers, FiniteSets, FiniteSetsExt

CONSTANTS
    Procs,        \* processes running passes: the daily loop, --once
    Hours,        \* hourly files a day can have, HH as a number
    Lines,        \* [Hours -> Nat]: lines in each hourly file
    Unreadable,   \* hours whose .gz DuckDB cannot read (corrupt, truncated)
    KeepRawDays,  \* COMPACT_KEEP_RAW_DAYS
    MinAgeDays,   \* eligibility.MIN_AGE: 48h from the day's midnight
    MaxDay,       \* bound: the clock runs over days 0..MaxDay
    LastWriteDay, \* bound: messages are archived on days 0..LastWriteDay
    MaxCrashes    \* bound: passes killed

ASSUME CompactorAssumption ==
    /\ Lines \in [Hours -> Nat]
    /\ Unreadable \subseteq Hours
    /\ KeepRawDays \in Nat /\ MinAgeDays \in Nat \ {0}
    /\ MaxDay \in Nat /\ LastWriteDay \in 0..MaxDay /\ MaxCrashes \in Nat
    /\ Hours \subseteq Nat /\ IsFiniteSet(Hours)

VARIABLES
    today,       \* the current UTC day
    plain,       \* [day -> hours with an HH.ndjson]
    raw,         \* [day -> hours with an HH.ndjson.gz]
    published,   \* days whose parquet/date=<day> exists
    parquet,     \* [day -> hours whose lines the published Parquet holds]
    mtime,       \* [day -> day on which its Parquet was published]
    pc,          \* [process -> where its pass is]
    now,         \* [process -> run_once's `now`]
    queue,       \* [process -> days left in the current loop of the pass]
    day,         \* [process -> day being worked on]
    files,       \* [process -> files of that day still to fold or unlink]
    tmp,         \* [process -> hours folded into the temporary directory]
    counted,     \* [process -> raw lines counted by the verification]
    failures,    \* [process -> the pass had a failing day]
    crashes,
    written,     \* history: [day -> hours the writer ever opened]
    interrupted  \* history: days whose deletion was cut short by a crash

tree == <<plain, raw, published, parquet, mtime>>
pass == <<pc, now, queue, day, files, tmp, counted, failures>>
history == <<written, interrupted>>
vars == <<today, tree, pass, crashes, history>>

-----------------------------------------------------------------------------
Days == 0..MaxDay

LinesOf(hours) == MapThenSumSet(LAMBDA h : Lines[h], hours)

\* A day directory exists once the writer has opened a file in it.
DayDirectories == {d \in Days : written[d] # {}}

\* Mutant: a day counts as closed as soon as it has no plain file.
EligibleDays_AnyAge(t) ==
    {d \in DayDirectories : plain[d] = {} /\ d \notin published}

\* Mutant: days with plain leftovers are compacted too.
EligibleDays_WithPlain(t) ==
    {d \in DayDirectories : t - d >= MinAgeDays /\ d \notin published}

\* eligible_days: old enough, no plain file left, not compacted yet.
EligibleDays(t) ==
    {d \in DayDirectories : /\ t - d >= MinAgeDays
                            /\ plain[d] = {}
                            /\ d \notin published}

\* Days and hourly files are processed in sorted order.
IsOldest(d, days) == d \in days /\ \A e \in days : d <= e

Init ==
    /\ today = 0
    /\ plain = [d \in Days |-> {}] /\ raw = [d \in Days |-> {}]
    /\ published = {} /\ parquet = [d \in Days |-> {}] /\ mtime = [d \in Days |-> 0]
    /\ pc = [p \in Procs |-> "idle"] /\ now = [p \in Procs |-> 0]
    /\ queue = [p \in Procs |-> {}] /\ day = [p \in Procs |-> 0]
    /\ files = [p \in Procs |-> {}] /\ tmp = [p \in Procs |-> {}]
    /\ counted = [p \in Procs |-> 0] /\ failures = [p \in Procs |-> FALSE]
    /\ crashes = 0
    /\ written = [d \in Days |-> {}] /\ interrupted = {}

-----------------------------------------------------------------------------
(* The environment: the clock and the Go writer (see ArchiveConsumer).     *)

Tick ==
    /\ today < MaxDay
    /\ today' = today + 1
    /\ UNCHANGED <<tree, pass, crashes, history>>

\* The writer opens an hour of the current day.
WriterOpen ==
    /\ today <= LastWriteDay
    /\ \E h \in Hours \ written[today] :
        /\ plain' = [plain EXCEPT ![today] = @ \cup {h}]
        /\ written' = [written EXCEPT ![today] = @ \cup {h}]
    /\ UNCHANGED <<today, raw, published, parquet, mtime, pass, crashes, interrupted>>

\* It gzips a closed hour by rename, some time later (or days later, when it
\* restarts), and then removes the plain file.
WriterGzip ==
    /\ \E d \in Days, h \in Hours :
        /\ h \in plain[d] \ raw[d]
        /\ raw' = [raw EXCEPT ![d] = @ \cup {h}]
    /\ UNCHANGED <<today, plain, published, parquet, mtime, pass, crashes, history>>

WriterRemove ==
    /\ \E d \in Days, h \in Hours :
        /\ h \in plain[d] \cap raw[d]
        /\ plain' = [plain EXCEPT ![d] = @ \ {h}]
    /\ UNCHANGED <<today, raw, published, parquet, mtime, pass, crashes, history>>

\* A pass is killed.  A temporary directory it leaves behind is named with a
\* dot and a random suffix: nothing ever looks at it.
Crash(p) ==
    /\ pc[p] # "idle" /\ crashes < MaxCrashes
    /\ crashes' = crashes + 1
    /\ pc' = [pc EXCEPT ![p] = "idle"]
    /\ queue' = [queue EXCEPT ![p] = {}]
    /\ files' = [files EXCEPT ![p] = {}]
    /\ tmp' = [tmp EXCEPT ![p] = {}]
    /\ interrupted' = IF pc[p] = "unlink" THEN interrupted \cup {day[p]} ELSE interrupted
    /\ UNCHANGED <<today, tree, now, day, counted, failures, written>>

-----------------------------------------------------------------------------
(* run_once, first loop: compact every eligible day.                       *)

StartPass(p) ==
    /\ pc[p] = "idle"
    /\ now' = [now EXCEPT ![p] = today]
    /\ queue' = [queue EXCEPT ![p] = EligibleDays(today)]
    /\ failures' = [failures EXCEPT ![p] = FALSE]
    /\ pc' = [pc EXCEPT ![p] = "compact"]
    /\ UNCHANGED <<today, tree, day, files, tmp, counted, crashes, history>>

\* compact_day lists the day's .gz files; with none it has nothing to do.
BeginDay(p) ==
    /\ pc[p] = "compact"
    /\ \E d \in queue[p] :
        /\ IsOldest(d, queue[p])
        /\ queue' = [queue EXCEPT ![p] = @ \ {d}]
        /\ day' = [day EXCEPT ![p] = d]
        /\ files' = [files EXCEPT ![p] = raw[d]]
        /\ tmp' = [tmp EXCEPT ![p] = {}]
        /\ pc' = [pc EXCEPT ![p] = IF raw[d] = {} THEN "compact" ELSE "fold"]
    /\ UNCHANGED <<today, tree, now, counted, failures, crashes, history>>

\* _fold_hour: one file into the temporary directory.  A file that is gone
\* or unreadable raises; the temporary directory is removed.
Fold(p) ==
    /\ pc[p] = "fold"
    /\ \E h \in files[p] : IsOldest(h, files[p]) /\
        IF h \in raw[day[p]] \ Unreadable
          THEN /\ tmp' = [tmp EXCEPT ![p] = @ \cup {h}]
               /\ files' = [files EXCEPT ![p] = @ \ {h}]
               /\ UNCHANGED <<pc, failures>>
          ELSE /\ tmp' = [tmp EXCEPT ![p] = {}]
               /\ files' = [files EXCEPT ![p] = {}]
               /\ failures' = [failures EXCEPT ![p] = TRUE]
               /\ pc' = [pc EXCEPT ![p] = "compact"]
    /\ UNCHANGED <<today, tree, now, queue, day, counted, crashes, history>>

\* os.replace publishes the whole directory at once, and raises when the
\* target exists (it holds files: another process was first).  The mtime it
\* will have, that of its last file, is taken to be the day of the rename.
Publish(p) ==
    /\ pc[p] = "fold" /\ files[p] = {}
    /\ IF day[p] \in published
         THEN /\ failures' = [failures EXCEPT ![p] = TRUE]
              /\ UNCHANGED <<published, parquet, mtime>>
         ELSE /\ published' = published \cup {day[p]}
              /\ parquet' = [parquet EXCEPT ![day[p]] = tmp[p]]
              /\ mtime' = [mtime EXCEPT ![day[p]] = today]
              /\ UNCHANGED failures
    /\ tmp' = [tmp EXCEPT ![p] = {}]
    /\ pc' = [pc EXCEPT ![p] = "compact"]
    /\ UNCHANGED <<today, plain, raw, now, queue, day, files, counted, crashes, history>>

-----------------------------------------------------------------------------
(* run_once, second loop: verify and delete, for every day with an output. *)

\* Mutant: only the days compacted by this very pass are swept.
StartSweep_ThisPassOnly(p) ==
    /\ pc[p] = "compact" /\ queue[p] = {}
    /\ queue' = [queue EXCEPT ![p] = {d \in published : mtime[d] = now[p]}]
    /\ pc' = [pc EXCEPT ![p] = "sweep"]
    /\ UNCHANGED <<today, tree, now, day, files, tmp, counted, failures, crashes, history>>

StartSweep(p) ==
    /\ pc[p] = "compact" /\ queue[p] = {}
    /\ queue' = [queue EXCEPT ![p] = published]
    /\ pc' = [pc EXCEPT ![p] = "sweep"]
    /\ UNCHANGED <<today, tree, now, day, files, tmp, counted, failures, crashes, history>>

\* Mutant: the grace period is not applied.
GraceElapsed_Always(d, t) == TRUE

\* _grace_elapsed, against the `now` the pass started with.
GraceElapsed(d, t) == KeepRawDays = 0 \/ t - mtime[d] >= KeepRawDays

\* delete_raw_day lists the raw files and applies the two cheap gates.
BeginDelete(p) ==
    /\ pc[p] = "sweep"
    /\ \E d \in queue[p] :
        /\ IsOldest(d, queue[p])
        /\ queue' = [queue EXCEPT ![p] = @ \ {d}]
        /\ day' = [day EXCEPT ![p] = d]
        /\ IF raw[d] # {} /\ GraceElapsed(d, now[p])
             THEN /\ files' = [files EXCEPT ![p] = raw[d]]
                  /\ pc' = [pc EXCEPT ![p] = "count"]
             ELSE UNCHANGED <<files, pc>>
    /\ UNCHANGED <<today, tree, now, tmp, counted, failures, crashes, history>>

\* The day is abandoned with an error: VerificationError, or FileNotFoundError
\* out of unlink().
Abandon(p) ==
    /\ failures' = [failures EXCEPT ![p] = TRUE]
    /\ files' = [files EXCEPT ![p] = {}]
    /\ pc' = [pc EXCEPT ![p] = "sweep"]

\* _count_source_lines: a fresh listing, not the list of files to unlink.
CountRaw(p) ==
    /\ pc[p] = "count"
    /\ IF raw[day[p]] \cap Unreadable = {}
         THEN /\ counted' = [counted EXCEPT ![p] = LinesOf(raw[day[p]])]
              /\ pc' = [pc EXCEPT ![p] = "verify"]
              /\ UNCHANGED <<failures, files>>
         ELSE Abandon(p) /\ UNCHANGED counted
    /\ UNCHANGED <<today, tree, now, queue, day, tmp, crashes, history>>

\* _count_parquet_rows, and the verdict.
Verify(p) ==
    /\ pc[p] = "verify"
    /\ IF counted[p] = LinesOf(parquet[day[p]])
         THEN pc' = [pc EXCEPT ![p] = "unlink"] /\ UNCHANGED <<failures, files>>
         ELSE Abandon(p)
    /\ UNCHANGED <<today, tree, now, queue, day, tmp, counted, crashes, history>>

Unlink(p) ==
    /\ pc[p] = "unlink"
    /\ \E h \in files[p] : IsOldest(h, files[p]) /\
        IF h \in raw[day[p]]
          THEN /\ raw' = [raw EXCEPT ![day[p]] = @ \ {h}]
               /\ files' = [files EXCEPT ![p] = @ \ {h}]
               /\ UNCHANGED <<pc, failures>>
          ELSE Abandon(p) /\ UNCHANGED raw
    /\ UNCHANGED <<today, plain, published, parquet, mtime, now, queue, day, tmp, counted,
                   crashes, history>>

EndDelete(p) ==
    /\ pc[p] = "unlink" /\ files[p] = {}
    /\ pc' = [pc EXCEPT ![p] = "sweep"]
    /\ UNCHANGED <<today, tree, now, queue, day, files, tmp, counted, failures, crashes,
                   history>>

EndPass(p) ==
    /\ pc[p] = "sweep" /\ queue[p] = {}
    /\ pc' = [pc EXCEPT ![p] = "idle"]
    /\ UNCHANGED <<today, tree, now, queue, day, files, tmp, counted, failures, crashes,
                   history>>

-----------------------------------------------------------------------------
Compact(p) == BeginDay(p) \/ Fold(p) \/ Publish(p)
Sweep(p) == StartSweep(p) \/ BeginDelete(p) \/ CountRaw(p) \/ Verify(p) \/ Unlink(p)
                \/ EndDelete(p) \/ EndPass(p)
Pass(p) == StartPass(p) \/ Compact(p) \/ Sweep(p)
Writer == WriterGzip \/ WriterRemove

Next ==
    \/ Tick \/ WriterOpen \/ Writer
    \/ \E p \in Procs : Pass(p) \/ Crash(p)

Spec == Init /\ [][Next]_vars

\* Passes go on, one after another; the writer finalizes; days go by.
FairSpec == Spec /\ WF_vars(Tick) /\ WF_vars(Writer) /\ \A p \in Procs : WF_vars(Pass(p))

-----------------------------------------------------------------------------
(* Properties.                                                             *)

(***************************************************************************)
(* Every variable has its type.                                            *)
(***************************************************************************)
TypeOK ==
    /\ today \in Days /\ crashes \in 0..MaxCrashes
    /\ plain \in [Days -> SUBSET Hours] /\ raw \in [Days -> SUBSET Hours]
    /\ published \subseteq Days
    /\ parquet \in [Days -> SUBSET Hours] /\ mtime \in [Days -> Days]
    /\ pc \in [Procs -> {"idle", "compact", "fold", "sweep", "count", "verify", "unlink"}]
    /\ now \in [Procs -> Days] /\ queue \in [Procs -> SUBSET Days]
    /\ day \in [Procs -> Days]
    /\ files \in [Procs -> SUBSET Hours] /\ tmp \in [Procs -> SUBSET Hours]
    /\ counted \in [Procs -> Nat] /\ failures \in [Procs -> BOOLEAN]
    /\ written \in [Days -> SUBSET Hours] /\ interrupted \subseteq Days

(***************************************************************************)
(* The raw tier is the safe copy: every hour the writer ever archived is   *)
(* still there as a plain file, as a .gz, or inside published Parquet,     *)
(* whatever two passes do to the tree at the same time and wherever either *)
(* is killed.                                                              *)
(***************************************************************************)
NoHourLost ==
    \A d \in Days :
        written[d] \subseteq
            plain[d] \cup raw[d] \cup (IF d \in published THEN parquet[d] ELSE {})

(***************************************************************************)
(* Published Parquet is whole: it holds every hour of its day.  A fold     *)
(* that lost a race with a deletion, or saw only some of the files, is     *)
(* never published.                                                        *)
(***************************************************************************)
PublishedWhole ==
    \A d \in published : parquet[d] = written[d] /\ written[d] # {}

(***************************************************************************)
(* Raw files disappear only under both gates: the day's Parquet holds them *)
(* and is at least KeepRawDays old.  (The writer's own renames only add.)  *)
(***************************************************************************)
DeletionGated ==
    [][\A d \in Days : ~(raw[d] \subseteq raw'[d]) =>
            /\ d \in published /\ raw[d] \ raw'[d] \subseteq parquet[d]
            /\ today - mtime[d] >= KeepRawDays]_vars

(***************************************************************************)
(* A day without unreadable files is eventually compacted, and its raw     *)
(* files are eventually deleted unless a crash cut their deletion short:   *)
(* then the counts never match again (compact.py:300-308) and the rest of  *)
(* the raw files stays.  (Or the clock's bound cuts the grace period off.) *)
(***************************************************************************)
EventuallyFolded ==
    \A d \in 0..LastWriteDay :
        (written[d] # {} /\ MinAgeDays + d <= MaxDay)
            ~> \/ /\ d \in published
                  /\ raw[d] = {} \/ mtime[d] + KeepRawDays > MaxDay
               \/ d \in interrupted
               \/ written[d] \cap Unreadable # {}
=============================================================================
