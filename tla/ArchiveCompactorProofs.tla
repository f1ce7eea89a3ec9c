------------------------ MODULE ArchiveCompactorProofs ------------------------
(***************************************************************************)
(* Theorems of ArchiveCompactor, for any number of passes at a time, any   *)
(* files and any kills.                                                    *)
(***************************************************************************)
EXTENDS ArchiveCompactor, TLAPS

-----------------------------------------------------------------------------
PCs == {"idle", "compact", "fold", "sweep", "count", "verify", "unlink"}

TypeInv ==
    /\ today \in Days
    /\ plain \in [Days -> SUBSET Hours] /\ raw \in [Days -> SUBSET Hours]
    /\ parquet \in [Days -> SUBSET Hours] /\ written \in [Days -> SUBSET Hours]
    /\ published \subseteq Days /\ mtime \in [Days -> Days]
    /\ pc \in [Procs -> PCs] /\ now \in [Procs -> Days]
    /\ queue \in [Procs -> SUBSET Days] /\ day \in [Procs -> Days]
    /\ files \in [Procs -> SUBSET Hours] /\ tmp \in [Procs -> SUBSET Hours]

\* The writer is done with the day.
Closed(d) == d < today /\ plain[d] = {}

\* What is published is all of a closed day; what is not is still there as files.
TreeInv ==
    \A d \in Days :
        /\ plain[d] \subseteq written[d] /\ raw[d] \subseteq written[d]
        /\ d \in published => /\ Closed(d) /\ mtime[d] <= today
                              /\ parquet[d] = written[d] /\ written[d] # {}
        /\ d \notin published => written[d] \subseteq plain[d] \cup raw[d]

\* A pass folds closed days only, and all files of them unless another pass has been
\* first; it deletes files of published days only, and in their time.
PassInv ==
    \A p \in Procs :
        /\ now[p] <= today
        /\ pc[p] \in {"compact", "fold"} => \A d \in queue[p] : Closed(d)
        /\ pc[p] = "fold" =>
            /\ Closed(day[p])
            /\ day[p] \notin published => /\ files[p] \cup tmp[p] = written[day[p]]
                                          /\ written[day[p]] # {}
        /\ pc[p] \in {"sweep", "count", "verify", "unlink"} => queue[p] \subseteq published
        /\ pc[p] \in {"count", "verify", "unlink"} =>
            day[p] \in published /\ GraceElapsed(day[p], now[p])

TierInv == TypeInv /\ TreeInv /\ PassInv

-----------------------------------------------------------------------------
\* There is nothing on disk and no pass.
LEMMA TierInitially == Init => TierInv
  BY CompactorAssumption
     DEF Init, TierInv, TypeInv, TreeInv, PassInv, PCs, Days

\* A day goes by.
LEMMA TickKeepsTier == ASSUME TierInv, Tick PROVE TierInv'
<1> USE DEF Tick, TierInv, tree, pass, history, Days
<1>1. today \in Int /\ today' = today + 1 /\ today' \in Days
  BY CompactorAssumption DEF TypeInv
<1>2. TypeInv'  BY <1>1 DEF TypeInv
<1>3. \A d \in Days : Closed(d) => Closed(d)'
  BY <1>1, CompactorAssumption DEF Closed
<1>4. TreeInv'
  <2>1. \A d \in Days : mtime[d] \in Int  BY CompactorAssumption DEF TypeInv
  <2> QED  BY <1>1, <1>3, <2>1 DEF TreeInv
<1>5. PassInv'
  <2>1. \A p \in Procs : now[p] \in Int /\ queue[p] \subseteq Days /\ day[p] \in Days
    BY CompactorAssumption DEF TypeInv
  <2>2. ASSUME NEW p \in Procs PROVE now'[p] <= today'  BY <1>1, <2>1 DEF PassInv
  <2> QED  BY <1>3, <2>1, <2>2 DEF PassInv, GraceElapsed
<1> QED  BY <1>2, <1>4, <1>5

\* The writer works on today, or renames what it has.
LEMMA WriterKeepsTier == ASSUME TierInv, WriterOpen \/ Writer PROVE TierInv'
<1> USE DEF TierInv, pass, history
<1>1. CASE WriterOpen
  <2>1. PICK h \in Hours \ written[today] :
            /\ plain' = [plain EXCEPT ![today] = @ \cup {h}]
            /\ written' = [written EXCEPT ![today] = @ \cup {h}]
    BY <1>1 DEF WriterOpen
  <2>2. /\ UNCHANGED <<today, raw, published, parquet, mtime>>
        /\ UNCHANGED <<pc, now, queue, day, files, tmp>>
    BY <1>1 DEF WriterOpen
  <2>3. TypeInv'  BY <2>1, <2>2 DEF TypeInv
  <2>4. \A d \in Days : Closed(d) => d # today
    BY CompactorAssumption DEF Closed, TypeInv, Days
  <2>5. \A d \in Days : d # today => plain'[d] = plain[d] /\ written'[d] = written[d]
    BY <2>1 DEF TypeInv
  <2>6. \A d \in Days : Closed(d) => Closed(d)' /\ written'[d] = written[d]
    BY <2>2, <2>4, <2>5 DEF Closed
  <2>7. TreeInv'  BY <2>1, <2>2, <2>5, <2>6 DEF TreeInv, TypeInv
  <2>8. PassInv'  BY <2>2, <2>6 DEF PassInv, TypeInv, GraceElapsed
  <2> QED  BY <2>3, <2>7, <2>8
<1>2. CASE WriterGzip
  <2>1. PICK e \in Days, h \in Hours :
            h \in plain[e] \ raw[e] /\ raw' = [raw EXCEPT ![e] = @ \cup {h}]
    BY <1>2 DEF WriterGzip
  <2>2. /\ UNCHANGED <<today, plain, written, published, parquet, mtime>>
        /\ UNCHANGED <<pc, now, queue, day, files, tmp>>
    BY <1>2 DEF WriterGzip
  <2>3. TypeInv'  BY <2>1, <2>2 DEF TypeInv
  <2>4. \A d \in Days : Closed(d)' = Closed(d)  BY <2>2 DEF Closed
  <2>5. TreeInv'  BY <2>1, <2>2, <2>4 DEF TreeInv, TypeInv
  <2>6. PassInv'  BY <2>2, <2>4 DEF PassInv, TypeInv, GraceElapsed
  <2> QED  BY <2>3, <2>5, <2>6
<1>3. CASE WriterRemove
  <2>1. PICK e \in Days, h \in Hours :
            h \in plain[e] \cap raw[e] /\ plain' = [plain EXCEPT ![e] = @ \ {h}]
    BY <1>3 DEF WriterRemove
  <2>2. /\ UNCHANGED <<today, raw, written, published, parquet, mtime>>
        /\ UNCHANGED <<pc, now, queue, day, files, tmp>>
    BY <1>3 DEF WriterRemove
  <2>3. TypeInv'  BY <2>1, <2>2 DEF TypeInv
  <2>4. \A d \in Days : Closed(d) => Closed(d)'  BY <2>1, <2>2 DEF Closed, TypeInv
  <2>5. TreeInv'  BY <2>1, <2>2, <2>4 DEF TreeInv, TypeInv
  <2>6. PassInv'  BY <2>2, <2>4 DEF PassInv, TypeInv, GraceElapsed
  <2> QED  BY <2>3, <2>5, <2>6
<1> QED  BY <1>1, <1>2, <1>3 DEF Writer

-----------------------------------------------------------------------------
\* What PassInv says of one pass.
PassOf(p) ==
    /\ now[p] <= today
    /\ pc[p] \in {"compact", "fold"} => \A d \in queue[p] : Closed(d)
    /\ pc[p] = "fold" =>
        /\ Closed(day[p])
        /\ day[p] \notin published => /\ files[p] \cup tmp[p] = written[day[p]]
                                      /\ written[day[p]] # {}
    /\ pc[p] \in {"sweep", "count", "verify", "unlink"} => queue[p] \subseteq published
    /\ pc[p] \in {"count", "verify", "unlink"} =>
        day[p] \in published /\ GraceElapsed(day[p], now[p])

\* A step of one pass that leaves the tree alone is judged by that pass.
LEMMA OnePassMoves ==
    ASSUME TierInv, NEW p \in Procs, UNCHANGED <<today, tree, written>>,
           TypeInv', PassOf(p)',
           \A q \in Procs \ {p} :
               /\ pc'[q] = pc[q] /\ now'[q] = now[q] /\ queue'[q] = queue[q]
               /\ day'[q] = day[q] /\ files'[q] = files[q] /\ tmp'[q] = tmp[q]
    PROVE  TierInv'
<1> USE DEF TierInv, tree
<1>1. TreeInv'  BY DEF TreeInv, Closed
<1>2. ASSUME NEW q \in Procs, q # p PROVE PassOf(q)'
  BY <1>2 DEF PassInv, PassOf, Closed, GraceElapsed
<1>3. PassInv'  BY <1>2 DEF PassInv, PassOf
<1> QED  BY <1>1, <1>3

\* A pass begins, takes the next day, begins to sweep, or ends; or it is killed.
LEMMA ControlKeepsTier ==
    ASSUME TierInv, NEW p \in Procs,
           StartPass(p) \/ BeginDay(p) \/ StartSweep(p) \/ EndDelete(p) \/ EndPass(p) \/ Crash(p)
    PROVE  TierInv'
<1> USE DEF TierInv, history
<1>1. CASE StartPass(p)
  <2>1. TypeInv'  BY <1>1, CompactorAssumption
    DEF StartPass, TypeInv, PCs, tree, EligibleDays, DayDirectories
  <2>2. \A d \in EligibleDays(today) : Closed(d)
    BY CompactorAssumption DEF EligibleDays, DayDirectories, Closed, TypeInv, Days
  <2>3. PassOf(p)'
    <3>1. /\ pc'[p] = "compact" /\ now'[p] = today /\ queue'[p] = EligibleDays(today)
          /\ UNCHANGED <<today, tree, written>>
      BY <1>1 DEF StartPass, TypeInv
    <3>2. today \in Int  BY CompactorAssumption DEF TypeInv, Days
    <3> QED  BY <2>2, <3>1, <3>2 DEF PassOf, Closed, tree
  <2> QED  BY <1>1, <2>1, <2>3, OnePassMoves DEF StartPass, TypeInv
<1>2. CASE BeginDay(p)
  <2>1. PICK d \in queue[p] :
            /\ queue' = [queue EXCEPT ![p] = @ \ {d}]
            /\ day' = [day EXCEPT ![p] = d]
            /\ files' = [files EXCEPT ![p] = raw[d]]
            /\ tmp' = [tmp EXCEPT ![p] = {}]
            /\ pc' = [pc EXCEPT ![p] = IF raw[d] = {} THEN "compact" ELSE "fold"]
    BY <1>2 DEF BeginDay
  <2>2. pc[p] = "compact" /\ UNCHANGED <<today, tree, written, now>>
    BY <1>2 DEF BeginDay
  <2>3. d \in Days /\ Closed(d)  BY <2>2 DEF TypeInv, PassInv
  <2>4. TypeInv'  BY <2>1, <2>2, <2>3 DEF TypeInv, PCs, tree
  <2>5. d \notin published => raw[d] = written[d]  BY <2>3 DEF TreeInv, Closed
  <2>6. PassOf(p)'
    BY <2>1, <2>2, <2>3, <2>5 DEF PassOf, PassInv, Closed, TypeInv, tree
  <2> QED  BY <2>1, <2>2, <2>4, <2>6, OnePassMoves DEF TypeInv
<1>3. CASE StartSweep(p)
  <2>1. TypeInv'  BY <1>3 DEF StartSweep, TypeInv, PCs, tree
  <2>2. PassOf(p)'  BY <1>3 DEF StartSweep, PassOf, PassInv, TypeInv, tree
  <2> QED  BY <1>3, <2>1, <2>2, OnePassMoves DEF StartSweep, TypeInv
<1>4. CASE EndDelete(p) \/ EndPass(p)
  <2>1. TypeInv'  BY <1>4 DEF EndDelete, EndPass, TypeInv, PCs, tree
  <2>2. PassOf(p)'  BY <1>4 DEF EndDelete, EndPass, PassOf, PassInv, TypeInv, tree
  <2> QED  BY <1>4, <2>1, <2>2, OnePassMoves DEF EndDelete, EndPass, TypeInv
<1>5. CASE Crash(p)
  <2>1. TypeInv'  BY <1>5 DEF Crash, TypeInv, PCs, tree
  <2>2. PassOf(p)'  BY <1>5 DEF Crash, PassOf, PassInv, TypeInv, tree
  <2> QED  BY <1>5, <2>1, <2>2, OnePassMoves DEF Crash, TypeInv
<1> QED  BY <1>1, <1>2, <1>3, <1>4, <1>5

\* A file is folded, or is gone or unreadable.
LEMMA FoldKeepsTier == ASSUME TierInv, NEW p \in Procs, Fold(p) PROVE TierInv'
<1> USE DEF TierInv, history
<1>1. PICK h \in files[p] :
        IF h \in raw[day[p]] \ Unreadable
          THEN /\ tmp' = [tmp EXCEPT ![p] = @ \cup {h}]
               /\ files' = [files EXCEPT ![p] = @ \ {h}]
               /\ UNCHANGED <<pc, failures>>
          ELSE /\ tmp' = [tmp EXCEPT ![p] = {}]
               /\ files' = [files EXCEPT ![p] = {}]
               /\ failures' = [failures EXCEPT ![p] = TRUE]
               /\ pc' = [pc EXCEPT ![p] = "compact"]
  BY DEF Fold
<1>2. pc[p] = "fold" /\ UNCHANGED <<today, tree, written, now, queue, day>>  BY DEF Fold
<1>3. CASE h \in raw[day[p]] \ Unreadable
  <2>1. TypeInv'  BY <1>1, <1>2, <1>3 DEF TypeInv, tree
  <2>2. files'[p] \cup tmp'[p] = files[p] \cup tmp[p]  BY <1>1, <1>3 DEF TypeInv
  <2>3. PassOf(p)'  BY <1>1, <1>2, <1>3, <2>2 DEF PassOf, PassInv, Closed, TypeInv, tree
  <2> QED  BY <1>1, <1>2, <1>3, <2>1, <2>3, OnePassMoves DEF TypeInv
<1>4. CASE h \notin raw[day[p]] \ Unreadable
  <2>1. TypeInv'  BY <1>1, <1>2, <1>4 DEF TypeInv, PCs, tree
  <2>2. PassOf(p)'  BY <1>1, <1>2, <1>4 DEF PassOf, PassInv, Closed, TypeInv, tree
  <2> QED  BY <1>1, <1>2, <1>4, <2>1, <2>2, OnePassMoves DEF TypeInv
<1> QED  BY <1>3, <1>4

\* The whole day is published at once, unless another pass has been first.
LEMMA PublishKeepsTier == ASSUME TierInv, NEW p \in Procs, Publish(p) PROVE TierInv'
<1> USE DEF TierInv, history
<1>1. /\ pc[p] = "fold" /\ files[p] = {}
      /\ tmp' = [tmp EXCEPT ![p] = {}] /\ pc' = [pc EXCEPT ![p] = "compact"]
      /\ UNCHANGED <<today, plain, raw, written, now, queue, day, files>>
  BY DEF Publish
<1>2. CASE day[p] \in published
  <2>1. UNCHANGED <<published, parquet, mtime>>  BY <1>2 DEF Publish
  <2>2. TypeInv'  BY <1>1, <2>1 DEF TypeInv, PCs
  <2>3. PassOf(p)'  BY <1>1, <2>1 DEF PassOf, PassInv, Closed, TypeInv
  <2> QED  BY <1>1, <2>1, <2>2, <2>3, OnePassMoves DEF TypeInv, tree
<1>3. CASE day[p] \notin published
  <2>1. /\ published' = published \cup {day[p]}
        /\ parquet' = [parquet EXCEPT ![day[p]] = tmp[p]]
        /\ mtime' = [mtime EXCEPT ![day[p]] = today]
    BY <1>3 DEF Publish
  <2>2. /\ day[p] \in Days /\ Closed(day[p])
        /\ tmp[p] = written[day[p]] /\ written[day[p]] # {}
    BY <1>1, <1>3 DEF TypeInv, PassInv
  <2>3. TypeInv'  BY <1>1, <2>1, <2>2 DEF TypeInv, PCs
  <2>4. \A d \in Days : Closed(d)' = Closed(d)  BY <1>1 DEF Closed
  <2>5. TreeInv'
    <3>1. ASSUME NEW d \in Days, d # day[p]
          PROVE  /\ parquet'[d] = parquet[d] /\ mtime'[d] = mtime[d]
                 /\ d \in published' <=> d \in published
      BY <2>1, <3>1 DEF TypeInv
    <3>2. /\ parquet'[day[p]] = written'[day[p]] /\ mtime'[day[p]] <= today'
          /\ day[p] \in published'
      BY <1>1, <2>1, <2>2, CompactorAssumption DEF TypeInv, Days
    <3> QED  BY <1>1, <2>2, <2>4, <3>1, <3>2 DEF TreeInv
  <2>6. PassInv'
    <3>1. \A q \in Procs : day[q] \in published => mtime'[day[q]] = mtime[day[q]]
      BY <1>3, <2>1 DEF TypeInv
    <3>2. ASSUME NEW q \in Procs, q # p PROVE PassOf(q)'
      <4>1. /\ pc'[q] = pc[q] /\ tmp'[q] = tmp[q]
            /\ now'[q] = now[q] /\ queue'[q] = queue[q] /\ day'[q] = day[q]
            /\ files'[q] = files[q] /\ queue[q] \subseteq Days /\ day[q] \in Days
        BY <1>1, <3>2 DEF TypeInv
      <4> QED  BY <1>1, <2>1, <2>4, <3>1, <4>1 DEF PassInv, PassOf, GraceElapsed
    <3>3. PassOf(p)'  BY <1>1, <2>4 DEF PassInv, PassOf, TypeInv
    <3> QED  BY <3>2, <3>3 DEF PassInv, PassOf
  <2> QED  BY <2>3, <2>5, <2>6
<1> QED  BY <1>2, <1>3

\* The gates: the grace period, the files, the count, the verdict.
LEMMA GatesKeepTier ==
    ASSUME TierInv, NEW p \in Procs, BeginDelete(p) \/ CountRaw(p) \/ Verify(p)
    PROVE  TierInv'
<1> USE DEF TierInv, history
<1>1. CASE BeginDelete(p)
  <2>1. PICK d \in queue[p] :
            /\ queue' = [queue EXCEPT ![p] = @ \ {d}]
            /\ day' = [day EXCEPT ![p] = d]
            /\ IF raw[d] # {} /\ GraceElapsed(d, now[p])
                 THEN /\ files' = [files EXCEPT ![p] = raw[d]]
                      /\ pc' = [pc EXCEPT ![p] = "count"]
                 ELSE UNCHANGED <<files, pc>>
    BY <1>1 DEF BeginDelete
  <2>2. pc[p] = "sweep" /\ UNCHANGED <<today, tree, written, now, tmp>>
    BY <1>1 DEF BeginDelete
  <2>3. d \in Days /\ d \in published  BY <2>2 DEF TypeInv, PassInv
  <2>4. TypeInv'  BY <2>1, <2>2, <2>3 DEF TypeInv, PCs, tree
  <2>5. PassOf(p)'
    BY <2>1, <2>2, <2>3 DEF PassOf, PassInv, TypeInv, tree, GraceElapsed
  <2> QED  BY <2>1, <2>2, <2>4, <2>5, OnePassMoves DEF TypeInv
<1>2. CASE CountRaw(p) \/ Verify(p)
  <2>1. /\ pc[p] \in {"count", "verify"}
        /\ UNCHANGED <<today, tree, written, now, queue, day, tmp>>
        /\ \/ pc' = [pc EXCEPT ![p] = "verify"] /\ UNCHANGED files
           \/ pc' = [pc EXCEPT ![p] = "unlink"] /\ UNCHANGED files
           \/ pc' = [pc EXCEPT ![p] = "sweep"] /\ files' = [files EXCEPT ![p] = {}]
    BY <1>2 DEF CountRaw, Verify, Abandon
  <2>2. TypeInv'  BY <2>1 DEF TypeInv, PCs, tree
  <2>3. PassOf(p)'  BY <2>1 DEF PassOf, PassInv, TypeInv, tree, GraceElapsed
  <2> QED  BY <2>1, <2>2, <2>3, OnePassMoves DEF TypeInv
<1> QED  BY <1>1, <1>2

\* What Unlink removes, it removes from a published day.
LEMMA UnlinkRemoves ==
    ASSUME TierInv, NEW p \in Procs, Unlink(p)
    PROVE  /\ pc[p] = "unlink" /\ day[p] \in Days /\ day[p] \in published
           /\ GraceElapsed(day[p], now[p])
           /\ UNCHANGED <<today, plain, written, published, parquet, mtime, now, queue, day, tmp>>
           /\ raw' \in [Days -> SUBSET Hours]
           /\ raw'[day[p]] \subseteq raw[day[p]]
           /\ \A d \in Days : d # day[p] => raw'[d] = raw[d]
           /\ \E f : \/ pc' = pc /\ files' = [files EXCEPT ![p] = files[p] \ {f}]
                     \/ pc' = [pc EXCEPT ![p] = "sweep"] /\ files' = [files EXCEPT ![p] = {}]
<1> USE DEF TierInv, history
<1>1. /\ pc[p] = "unlink" /\ day[p] \in Days /\ day[p] \in published
      /\ GraceElapsed(day[p], now[p])
  BY DEF Unlink, TypeInv, PassInv
<1>2. UNCHANGED <<today, plain, written, published, parquet, mtime, now, queue, day, tmp>>
  BY DEF Unlink
<1>3. PICK h \in files[p] :
        IF h \in raw[day[p]]
          THEN /\ raw' = [raw EXCEPT ![day[p]] = @ \ {h}]
               /\ files' = [files EXCEPT ![p] = @ \ {h}]
               /\ UNCHANGED <<pc, failures>>
          ELSE Abandon(p) /\ UNCHANGED raw
  BY DEF Unlink
<1>4. \/ raw' = raw
      \/ raw' = [raw EXCEPT ![day[p]] = raw[day[p]] \ {h}]
  BY <1>3
<1>5. /\ raw' \in [Days -> SUBSET Hours] /\ raw'[day[p]] \subseteq raw[day[p]]
      /\ \A d \in Days : d # day[p] => raw'[d] = raw[d]
  BY <1>1, <1>4 DEF TypeInv
<1>6. \/ pc' = pc /\ files' = [files EXCEPT ![p] = files[p] \ {h}]
      \/ pc' = [pc EXCEPT ![p] = "sweep"] /\ files' = [files EXCEPT ![p] = {}]
  BY <1>3 DEF Abandon
<1> QED  BY <1>1, <1>2, <1>5, <1>6

\* A removed file changes nothing that the passes rely on.
LEMMA UnlinkKeepsTier == ASSUME TierInv, NEW p \in Procs, Unlink(p) PROVE TierInv'
<1> USE DEF TierInv
<1>1. TypeInv'  BY UnlinkRemoves DEF TypeInv, PCs
<1>2. \A d \in Days : Closed(d)' = Closed(d)  BY UnlinkRemoves DEF Closed
<1>3. TreeInv'
  <2>1. \A d \in Days : raw'[d] \subseteq raw[d] /\ (d \notin published => raw'[d] = raw[d])
    BY UnlinkRemoves
  <2> QED  BY <1>2, <2>1, UnlinkRemoves DEF TreeInv
<1>4. PassInv'
  <2>1. ASSUME NEW q \in Procs, q # p PROVE PassOf(q)'
    <3>1. /\ pc'[q] = pc[q] /\ files'[q] = files[q]
          /\ queue[q] \subseteq Days /\ day[q] \in Days
      BY <2>1, UnlinkRemoves DEF TypeInv
    <3> QED  BY <1>2, <3>1, UnlinkRemoves DEF PassOf, PassInv, GraceElapsed
  <2>2. PassOf(p)'  BY UnlinkRemoves DEF PassOf, PassInv, TypeInv, GraceElapsed
  <2> QED  BY <2>1, <2>2 DEF PassInv, PassOf
<1> QED  BY <1>1, <1>3, <1>4

-----------------------------------------------------------------------------
\* The invariant, under any number of passes beside the writer.
THEOREM TierInvariant == Spec => []TierInv
<1>1. ASSUME TierInv, [Next]_vars PROVE TierInv'
  <2>1. CASE UNCHANGED vars
    BY <1>1, <2>1 DEF vars, tree, pass, history, TierInv, TypeInv, TreeInv, PassInv,
                      Closed, GraceElapsed
  <2>2. CASE Tick \/ WriterOpen \/ Writer  BY <1>1, <2>2, TickKeepsTier, WriterKeepsTier
  <2>3. ASSUME NEW p \in Procs, Pass(p) \/ Crash(p) PROVE TierInv'
    BY <1>1, <2>3, ControlKeepsTier, FoldKeepsTier, PublishKeepsTier, GatesKeepTier,
       UnlinkKeepsTier DEF Pass, Compact, Sweep
  <2> QED  BY <1>1, <2>1, <2>2, <2>3 DEF Next
<1> QED  BY TierInitially, <1>1, PTL DEF Spec

\* Every hour ever archived is a plain file, a .gz or in published Parquet, whatever any
\* number of passes do to the tree at the same time and wherever they are killed.
THEOREM HoursAreKept == Spec => []NoHourLost
<1>1. TierInv => NoHourLost  BY DEF TierInv, TreeInv, NoHourLost
<1> QED  BY TierInvariant, <1>1, PTL

\* Published Parquet holds all hours of its day: a fold that lost a race is not published.
THEOREM ParquetIsWhole == Spec => []PublishedWhole
<1>1. TierInv => PublishedWhole  BY DEF TierInv, TreeInv, TypeInv, PublishedWhole
<1> QED  BY TierInvariant, <1>1, PTL

\* Raw files go only if the day's Parquet holds them and has outlived the grace period.
THEOREM DeletionIsGated == Spec => DeletionGated
<1>1. ASSUME TierInv, [Next]_vars
      PROVE  [\A d \in Days : ~(raw[d] \subseteq raw'[d]) =>
                /\ d \in published /\ raw[d] \ raw'[d] \subseteq parquet[d]
                /\ today - mtime[d] >= KeepRawDays]_vars
  <2>1. ASSUME NEW p \in Procs, Unlink(p), NEW d \in Days, ~(raw[d] \subseteq raw'[d])
        PROVE  /\ d \in published /\ raw[d] \ raw'[d] \subseteq parquet[d]
               /\ today - mtime[d] >= KeepRawDays
    <3>1. d = day[p]  BY <1>1, <2>1, UnlinkRemoves
    <3>2. d \in published /\ GraceElapsed(d, now[p])  BY <1>1, <2>1, <3>1, UnlinkRemoves
    <3>3. raw[d] \subseteq parquet[d] /\ mtime[d] <= today
      BY <1>1, <3>2 DEF TierInv, TreeInv
    <3>4. now[p] <= today /\ now[p] \in Int /\ today \in Int /\ mtime[d] \in Int
      BY <1>1, CompactorAssumption DEF TierInv, PassInv, TypeInv, Days
    <3> QED  BY <3>2, <3>3, <3>4, CompactorAssumption DEF GraceElapsed
  <2>2. ASSUME NEW p \in Procs, ~Unlink(p), Pass(p) \/ Crash(p) PROVE UNCHANGED raw
    BY <2>2 DEF Pass, Compact, Sweep, StartPass, BeginDay, Fold, Publish, StartSweep,
                BeginDelete, CountRaw, Verify, EndDelete, EndPass, Crash, tree
  <2>3. ASSUME Tick \/ WriterOpen \/ Writer PROVE \A d \in Days : raw[d] \subseteq raw'[d]
    BY <1>1, <2>3 DEF Tick, WriterOpen, Writer, WriterGzip, WriterRemove, tree, TierInv, TypeInv
  <2> QED  BY <1>1, <2>1, <2>2, <2>3 DEF Next
<1> QED  BY TierInvariant, <1>1, PTL DEF Spec, DeletionGated

===============================================================================
