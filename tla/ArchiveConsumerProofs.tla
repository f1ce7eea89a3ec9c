------------------------ MODULE ArchiveConsumerProofs ------------------------
(***************************************************************************)
(* Theorems of ArchiveConsumer, for batches and buffers of any size and    *)
(* any kills, short writes and corrections of the clock.                   *)
(***************************************************************************)
EXTENDS ArchiveConsumer, SequenceTheorems, TLAPS

-----------------------------------------------------------------------------
(***************************************************************************)
(* Lines of files that grow.                                               *)
(***************************************************************************)
Text(o) == [off |-> o, part |-> "text"]
End(o) == [off |-> o, part |-> "end"]

\* A line is its text and its end, next to each other, at the start of a line.
LEMMA LineIsTextAndEnd ==
    ASSUME NEW file \in Seq(Token), NEW o
    PROVE  HasLine(file, o) <=>
            \E i \in 1 .. (Len(file) - 1) :
                /\ file[i] = Text(o) /\ file[i + 1] = End(o)
                /\ i = 1 \/ file[i - 1].part = "end"
<1>1. ASSUME NEW i \in 1 .. (Len(file) - 1)
      PROVE  SubSeq(file, i, i + 1) = Line(o) <=> file[i] = Text(o) /\ file[i + 1] = End(o)
  <2>1. /\ Len(SubSeq(file, i, i + 1)) = 2
        /\ SubSeq(file, i, i + 1)[1] = file[i] /\ SubSeq(file, i, i + 1)[2] = file[i + 1]
        /\ SubSeq(file, i, i + 1) \in Seq(Token)
    <3>1. i \in Int /\ i + 1 \in Int /\ \A j \in i .. i + 1 : file[j] \in Token  OBVIOUS
    <3>2. /\ SubSeq(file, i, i + 1) \in Seq(Token)
          /\ Len(SubSeq(file, i, i + 1)) = 2
          /\ \A j \in 1 .. 2 : SubSeq(file, i, i + 1)[j] = file[i + j - 1]
      BY <3>1, SubSeqProperties
    <3>3. i + 1 - 1 = i /\ i + 2 - 1 = i + 1 /\ 1 \in 1 .. 2 /\ 2 \in 1 .. 2  BY <3>1
    <3>4. /\ SubSeq(file, i, i + 1)[1] = file[i + 1 - 1]
          /\ SubSeq(file, i, i + 1)[2] = file[i + 2 - 1]
      BY <3>2, <3>3, Zenon
    <3> QED  BY <3>2, <3>3, <3>4, Zenon
  <2>2. Line(o) = <<Text(o), End(o)>>  BY DEF Line, Text, End
  <2>3. SubSeq(file, i, i + 1) = <<file[i], file[i + 1]>>
    <3>1. file[i] \in Token /\ file[i + 1] \in Token  OBVIOUS
    <3>2. <<file[i], file[i + 1]>> \in Seq(Token)  BY <3>1
    <3>3. Len(<<file[i], file[i + 1]>>) = Len(SubSeq(file, i, i + 1))  BY <2>1
    <3>4. ASSUME NEW j \in 1 .. Len(<<file[i], file[i + 1]>>)
          PROVE  <<file[i], file[i + 1]>>[j] = SubSeq(file, i, i + 1)[j]
      <4>1. j = 1 \/ j = 2  BY <3>4
      <4> QED  BY <4>1, <2>1
    <3>5. SubSeq(file, i, i + 1) \in Seq(Token)  BY <2>1
    <3> QED  BY <3>2, <3>3, <3>4, <3>5, SeqEqual
  <2> QED  BY <2>2, <2>3
<1> QED  BY <1>1 DEF HasLine

\* What is appended to a file keeps its lines.
LEMMA AppendKeepsLines ==
    ASSUME NEW f \in Seq(Token), NEW g \in Seq(Token), NEW o, HasLine(f, o)
    PROVE  HasLine(f \o g, o)
<1>1. PICK i \in 1 .. (Len(f) - 1) :
        /\ f[i] = Text(o) /\ f[i + 1] = End(o)
        /\ i = 1 \/ f[i - 1].part = "end"
  BY LineIsTextAndEnd
<1>2. f \o g \in Seq(Token) /\ Len(f \o g) = Len(f) + Len(g)  OBVIOUS
<1>3. \A j \in 1 .. Len(f) : (f \o g)[j] = f[j]  OBVIOUS
<1>4. /\ i \in 1 .. (Len(f \o g) - 1)
      /\ (f \o g)[i] = Text(o) /\ (f \o g)[i + 1] = End(o)
      /\ i = 1 \/ (f \o g)[i - 1].part = "end"
  BY <1>1, <1>2, <1>3
<1> QED  BY <1>2, <1>4, LineIsTextAndEnd

\* A line that is new has its end in what was appended.
LEMMA NewLinesEndInTheAppendix ==
    ASSUME NEW f \in Seq(Token), NEW g \in Seq(Token), NEW o,
           HasLine(f \o g, o), ~HasLine(f, o)
    PROVE  \E j \in 1 .. Len(g) : g[j] = End(o)
<1>1. f \o g \in Seq(Token) /\ Len(f \o g) = Len(f) + Len(g)  OBVIOUS
<1>2. PICK i \in 1 .. (Len(f \o g) - 1) :
        /\ (f \o g)[i] = Text(o) /\ (f \o g)[i + 1] = End(o)
        /\ i = 1 \/ (f \o g)[i - 1].part = "end"
  BY <1>1, LineIsTextAndEnd
<1>3. CASE i + 1 <= Len(f)
  <2>1. \A j \in 1 .. Len(f) : (f \o g)[j] = f[j]  OBVIOUS
  <2>2. /\ i \in 1 .. (Len(f) - 1)
        /\ f[i] = Text(o) /\ f[i + 1] = End(o)
        /\ i = 1 \/ f[i - 1].part = "end"
    BY <1>1, <1>2, <1>3, <2>1
  <2> QED  BY <2>2, LineIsTextAndEnd
<1>4. CASE i + 1 > Len(f)
  <2>1. i + 1 - Len(f) \in 1 .. Len(g)  BY <1>1, <1>4
  <2>2. (f \o g)[i + 1] = g[i + 1 - Len(f)]  BY <1>1, <1>4
  <2> QED  BY <1>2, <2>1, <2>2
<1> QED  BY <1>1, <1>3, <1>4

-----------------------------------------------------------------------------
(***************************************************************************)
(* The invariant.                                                          *)
(***************************************************************************)
TypeInv ==
    /\ published \in 0 .. MaxLog /\ committed \in {None} \cup 0 .. published
    /\ position \in 0 .. published
    /\ batch \in Seq(1 .. MaxLog) /\ written \in 0 .. Len(batch)
    /\ curKey \in Hours /\ hour \in Hours
    /\ buf \in Seq(Token)
    /\ plain \in [Hours -> Seq(Token)] /\ gz \in [Hours -> Seq(Token)]
    /\ plainHours \subseteq Hours /\ gzHours \subseteq Hours

\* What waits for an hour that was gzipped already has been recorded as late.
LateIn(tokens, offsets) ==
    \A j \in DOMAIN tokens : tokens[j].part = "end" => tokens[j].off \in offsets

BufferInv ==
    /\ pc = "down" => buf = <<>> /\ ~open
    /\ curKey \in gzHours => LateIn(buf, late)

\* A .gz lacks no line of the plain file that is still beside it, but late ones.
GzipInv ==
    \A h \in gzHours : \A o \in Nat :
        HasLine(plain[h], o) => HasLine(gz[h], o) \/ o \in late

FilesInv == TypeInv /\ BufferInv /\ GzipInv

\* Nothing is on disk at first.
LEMMA FilesInitially == Init => FilesInv
<1> SUFFICES ASSUME Init PROVE FilesInv  OBVIOUS
<1>1. TypeInv
  BY ArchiveBoundsAssumption DEF Init, TypeInv, Hours, None
<1>2. BufferInv /\ GzipInv  BY DEF Init, BufferInv, GzipInv, LateIn
<1> QED  BY <1>1, <1>2 DEF FilesInv

\* The tokens of a line.
LEMMA LineTokens ==
    ASSUME NEW o \in 1 .. MaxLog
    PROVE  /\ Line(o) \in Seq(Token) /\ Len(Line(o)) = 2
           /\ Line(o)[1] = Text(o) /\ Line(o)[2] = End(o)
  BY DEF Line, Token, Text, End

\* Whole buffers are handed over, and something stays behind.
LEMMA SpilledIsPrefix ==
    ASSUME NEW s \in Seq(Token), Len(s) > 0
    PROVE  Spilled(s) \in 0 .. (Len(s) - 1)
<1> DEFINE m == Len(s) - 1
           q == m \div BufCap
<1>1. m \in Nat /\ BufCap \in Nat /\ BufCap > 0  BY BatchAssumption
<1>2. q \in Nat /\ BufCap * q <= m  BY <1>1
<1>3. BufCap * q \in Nat  BY <1>1, <1>2
<1> QED  BY <1>1, <1>2, <1>3 DEF Spilled

\* Appending to the current hour's file erases no line, and puts no line beside a .gz that
\* is neither in it nor late.
LEMMA AppendKeepsFiles ==
    ASSUME FilesInv, NEW g \in Seq(Token),
           plain' = [plain EXCEPT ![curKey] = @ \o g],
           UNCHANGED <<gz, gzHours>>, late \subseteq late',
           curKey \in gzHours => LateIn(g, late')
    PROVE  /\ plain' \in [Hours -> Seq(Token)]
           /\ \A h \in Hours, o \in Nat : HasLine(plain[h], o) => HasLine(plain'[h], o)
           /\ GzipInv'
<1> USE DEF FilesInv, TypeInv
<1>1. plain[curKey] \in Seq(Token) /\ plain'[curKey] = plain[curKey] \o g  OBVIOUS
<1>2. \A h \in Hours : h # curKey => plain'[h] = plain[h]  OBVIOUS
<1>3. plain' \in [Hours -> Seq(Token)]  BY <1>1
<1>4. \A h \in Hours, o \in Nat : HasLine(plain[h], o) => HasLine(plain'[h], o)
  BY <1>1, <1>2, AppendKeepsLines
<1>5. ASSUME NEW h \in gzHours, NEW o \in Nat, HasLine(plain'[h], o)
      PROVE  HasLine(gz[h], o) \/ o \in late'
  <2>1. CASE HasLine(plain[h], o)  BY <2>1 DEF GzipInv
  <2>2. CASE ~HasLine(plain[h], o)
    <3>1. h = curKey  BY <1>2, <1>5, <2>2
    <3>2. PICK j \in 1 .. Len(g) : g[j] = End(o)
      BY <1>1, <1>5, <2>2, <3>1, NewLinesEndInTheAppendix
    <3>3. g[j].part = "end" /\ g[j].off = o  BY <3>2 DEF End
    <3> QED  BY <3>1, <3>3 DEF LateIn
  <2> QED  BY <2>1, <2>2
<1> QED  BY <1>3, <1>4, <1>5 DEF GzipInv

-----------------------------------------------------------------------------
(***************************************************************************)
(* Steps.                                                                  *)
(***************************************************************************)
Kept == Archived \subseteq Archived' \cup late

\* What is in a file after a step is in the archive after it.
LEMMA LinesAreArchived ==
    ASSUME FilesInv, FilesInv', published' = published \/ published' = published + 1,
           \A h \in plainHours, o \in Nat : HasLine(plain[h], o) =>
               \/ h \in plainHours' /\ HasLine(plain'[h], o)
               \/ h \in gzHours' /\ HasLine(gz'[h], o)
               \/ o \in late,
           \A h \in gzHours, o \in Nat : HasLine(gz[h], o) =>
               h \in gzHours' /\ HasLine(gz'[h], o)
    PROVE  Kept
<1> SUFFICES ASSUME NEW o \in Archived, o \notin late PROVE o \in Archived'
  BY DEF Kept
<1>1. o \in Nat /\ o \in Offsets /\ o \in Offsets'
  <2>1. published \in Nat /\ o \in Offsets
    BY ArchiveBoundsAssumption DEF Archived, FilesInv, TypeInv
  <2> QED  BY <2>1 DEF Offsets
<1>2. PICK h \in Hours : \/ h \in plainHours /\ HasLine(plain[h], o)
                         \/ h \in gzHours /\ HasLine(gz[h], o)
  BY DEF Archived
<1>3. \/ h \in plainHours' /\ HasLine(plain'[h], o)
      \/ h \in gzHours' /\ HasLine(gz'[h], o)
  BY <1>1, <1>2
<1> QED  BY <1>1, <1>3 DEF Archived, Hours

\* The steps that leave every file and the buffer alone.
LEMMA FilesUntouched ==
    ASSUME FilesInv, TypeInv', published' = published \/ published' = published + 1,
           UNCHANGED <<plain, plainHours, gz, gzHours, buf, curKey, late>>,
           pc' = "down" => buf = <<>> /\ ~open'
    PROVE  FilesInv' /\ Kept
<1>1. BufferInv'  BY DEF FilesInv, BufferInv, LateIn
<1>2. GzipInv'  BY DEF FilesInv, GzipInv
<1>3. FilesInv'  BY <1>1, <1>2 DEF FilesInv
<1> QED  BY <1>3, LinesAreArchived

LEMMA QuietSteps ==
    ASSUME FilesInv, \/ Publish \/ Tick \/ ClockBack \/ Join \/ Fetch \/ BeginFlush \/ Commit
    PROVE  FilesInv' /\ Kept
<1> USE ArchiveBoundsAssumption DEF FilesInv, TypeInv, Hours, None
<1>1. CASE Publish
  <2>1. TypeInv'  BY <1>1 DEF Publish, process, disk
  <2> QED  BY <1>1, <2>1, FilesUntouched DEF Publish, process, disk, history, BufferInv
<1>2. CASE Tick
  <2>1. TypeInv'  BY <1>2 DEF Tick, process, disk
  <2> QED  BY <1>2, <2>1, FilesUntouched DEF Tick, process, disk, history, BufferInv
<1>3. CASE ClockBack
  <2>1. TypeInv'  BY <1>3 DEF ClockBack, process, disk
  <2> QED  BY <1>3, <2>1, FilesUntouched DEF ClockBack, process, disk, history, BufferInv
<1>4. CASE Join
  <2>1. TypeInv'  BY <1>4 DEF Join, process, disk
  <2> QED  BY <1>4, <2>1, FilesUntouched DEF Join, disk, history, BufferInv
<1>5. CASE Fetch
  <2>1. position + 1 \in 1 .. MaxLog  BY <1>5 DEF Fetch
  <2>2. batch' \in Seq(1 .. MaxLog) /\ Len(batch') = Len(batch) + 1  BY <1>5, <2>1 DEF Fetch
  <2>3. TypeInv'  BY <1>5, <2>1, <2>2 DEF Fetch, disk
  <2> QED  BY <1>5, <2>3, FilesUntouched DEF Fetch, disk, history, BufferInv
<1>6. CASE BeginFlush
  <2>1. TypeInv'  BY <1>6 DEF BeginFlush, disk
  <2> QED  BY <1>6, <2>1, FilesUntouched DEF BeginFlush, disk, history, BufferInv
<1>7. CASE Commit
  <2>1. TypeInv'  BY <1>7 DEF Commit, disk
  <2> QED  BY <1>7, <2>1, FilesUntouched DEF Commit, disk, history, BufferInv
<1> QED  BY <1>1, <1>2, <1>3, <1>4, <1>5, <1>6, <1>7

\* A process that starts or dies has nothing in its buffer afterwards.
LEMMA ProcessSteps ==
    ASSUME FilesInv, Start \/ Crash
    PROVE  FilesInv' /\ Kept
<1> USE ArchiveBoundsAssumption DEF FilesInv, TypeInv
<1>1. UNCHANGED <<published, plain, plainHours, gz, gzHours, late>>
  BY DEF Start, Crash, disk, history
<1>2. TypeInv' /\ buf' = <<>> /\ (pc' = "down" => ~open')
  <2>1. CASE Start
    <3>1. pc = "down" /\ curKey' = hour /\ pc' = "startup"
          /\ UNCHANGED <<committed, position, batch, written, buf, hour>>
      BY <2>1 DEF Start
    <3> QED  BY <1>1, <3>1 DEF BufferInv
  <2>2. CASE Crash
    <3>1. /\ pc' = "down" /\ position' = 0 /\ batch' = <<>> /\ written' = 0
          /\ open' = FALSE /\ buf' = <<>> /\ UNCHANGED <<curKey, committed, hour>>
      BY <2>2 DEF Crash, Gone
    <3> QED  BY <1>1, <3>1
  <2> QED  BY <2>1, <2>2
<1>3. BufferInv'  BY <1>2 DEF BufferInv, LateIn
<1>4. GzipInv'  BY <1>1 DEF GzipInv
<1>5. FilesInv'  BY <1>2, <1>3, <1>4
<1> QED  BY <1>1, <1>5, LinesAreArchived

\* Publishing a .gz copies every line of the plain file.
LEMMA GzipPublishKeeps == ASSUME FilesInv, GzipPublish PROVE FilesInv' /\ Kept
<1> USE DEF FilesInv, TypeInv
<1>1. PICK h \in Stale \ gzHours : gz' = [gz EXCEPT ![h] = plain[h]] /\ gzHours' = gzHours \cup {h}
  BY DEF GzipPublish
<1>2. h \in Hours /\ h # curKey /\ h \notin gzHours  BY <1>1 DEF Stale
<1>3. UNCHANGED <<published, committed, pc, process, hour, plain, plainHours, late>>
  BY DEF GzipPublish, history
<1>4. TypeInv'  BY <1>1, <1>2, <1>3 DEF process
<1>5. gz'[h] = plain[h] /\ \A g \in Hours : g # h => gz'[g] = gz[g]  BY <1>1, <1>2
<1>6. BufferInv'  BY <1>1, <1>2, <1>3 DEF BufferInv, LateIn, process
<1>7. GzipInv'
  <2> SUFFICES ASSUME NEW g \in gzHours', NEW o \in Nat, HasLine(plain'[g], o)
               PROVE  HasLine(gz'[g], o) \/ o \in late'
    BY DEF GzipInv
  <2>1. CASE g = h  BY <1>3, <1>5, <2>1
  <2>2. CASE g # h
    <3>1. g \in gzHours /\ gz'[g] = gz[g]  BY <1>1, <1>5, <2>2
    <3> QED  BY <1>3, <3>1 DEF GzipInv
  <2> QED  BY <2>1, <2>2
<1>8. FilesInv'  BY <1>4, <1>6, <1>7
<1>9. \A g \in gzHours : g \in gzHours' /\ gz'[g] = gz[g]  BY <1>1, <1>2, <1>5
<1> QED  BY <1>3, <1>8, <1>9, LinesAreArchived

\* Removing a plain file loses nothing its .gz does not hold.
LEMMA RemovePlainKeeps == ASSUME FilesInv, RemovePlain PROVE FilesInv' /\ Kept
<1> USE DEF FilesInv, TypeInv
<1>1. PICK h \in Stale \cap gzHours :
        plain' = [plain EXCEPT ![h] = <<>>] /\ plainHours' = plainHours \ {h}
  BY DEF RemovePlain
<1>2. h \in Hours /\ h \in gzHours  BY <1>1
<1>3. UNCHANGED <<published, committed, pc, process, hour, gz, gzHours, late>>
  BY DEF RemovePlain, history
<1>4. plain' \in [Hours -> Seq(Token)]
  BY <1>1, <1>2
<1>5. TypeInv'  BY <1>1, <1>3, <1>4 DEF process
<1>6. plain'[h] = <<>> /\ \A g \in Hours : g # h => plain'[g] = plain[g]  BY <1>1, <1>2
<1>7. \A o : ~HasLine(<<>>, o)  BY DEF HasLine
<1>8. BufferInv'  BY <1>3 DEF BufferInv, LateIn, process
<1>9. GzipInv'
  <2> SUFFICES ASSUME NEW g \in gzHours', NEW o \in Nat, HasLine(plain'[g], o)
               PROVE  HasLine(gz'[g], o) \/ o \in late'
    BY DEF GzipInv
  <2>1. g \in Hours /\ g # h  BY <1>3, <1>6, <1>7
  <2> QED  BY <1>3, <1>6, <2>1 DEF GzipInv
<1>10. FilesInv'  BY <1>5, <1>8, <1>9
<1>11. ASSUME NEW g \in plainHours, NEW o \in Nat, HasLine(plain[g], o)
       PROVE  \/ g \in plainHours' /\ HasLine(plain'[g], o)
              \/ g \in gzHours' /\ HasLine(gz'[g], o)
              \/ o \in late
  <2>1. CASE g = h  BY <1>2, <1>3, <1>11, <2>1 DEF GzipInv
  <2>2. CASE g # h  BY <1>1, <1>6, <1>11, <2>2
  <2> QED  BY <2>1, <2>2
<1> QED  BY <1>3, <1>10, <1>11, LinesAreArchived

\* A rotation hands the old hour's buffer to its file, and opens another.
LEMMA RotateKeeps == ASSUME FilesInv, Rotate PROVE FilesInv' /\ Kept
<1> USE DEF FilesInv, TypeInv
<1> DEFINE g == IF open THEN buf ELSE <<>>
<1>1. /\ plain' = IF open THEN [plain EXCEPT ![curKey] = @ \o buf] ELSE plain
      /\ plainHours' = plainHours \cup {hour} /\ buf' = <<>> /\ open' = TRUE
      /\ curKey' = hour /\ pc' = "rotating"
      /\ UNCHANGED <<published, committed, position, batch, written, hour, gz, gzHours, late>>
  BY DEF Rotate, history
<1>2. g \in Seq(Token)  OBVIOUS
<1>3. plain' = [plain EXCEPT ![curKey] = @ \o g]
  <2>1. CASE open  BY <1>1, <2>1
  <2>2. CASE ~open
    <3>1. plain[curKey] \in Seq(Token) /\ g = <<>>  BY <2>2
    <3>2. plain[curKey] \o g = plain[curKey]  BY <3>1
    <3> QED  BY <1>1, <2>2, <3>2
  <2> QED  BY <2>1, <2>2
<1>4. curKey \in gzHours => LateIn(g, late')  BY <1>1 DEF BufferInv, LateIn
<1> HIDE DEF g, FilesInv, TypeInv
<1>5. /\ plain' \in [Hours -> Seq(Token)] /\ GzipInv'
      /\ \A h \in Hours, o \in Nat : HasLine(plain[h], o) => HasLine(plain'[h], o)
  BY <1>1, <1>2, <1>3, <1>4, AppendKeepsFiles
<1>6. TypeInv'  BY <1>1, <1>5 DEF FilesInv, TypeInv
<1>7. BufferInv'  BY <1>1 DEF BufferInv, LateIn
<1>8. FilesInv'  BY <1>5, <1>6, <1>7 DEF FilesInv
<1>9. plainHours \subseteq Hours  BY DEF FilesInv, TypeInv
<1> QED  BY <1>1, <1>5, <1>8, <1>9, LinesAreArchived

\* A flush hands the buffer to the open file.
LEMMA SyncKeeps == ASSUME FilesInv, Sync PROVE FilesInv' /\ Kept
<1>1. /\ plain' = [plain EXCEPT ![curKey] = @ \o buf] /\ buf' = <<>> /\ pc' = "commit"
      /\ UNCHANGED <<published, committed, position, batch, written, curKey, open, hour,
                     plainHours, gz, gzHours, late>>
  BY DEF Sync
<1>2. buf \in Seq(Token) /\ (curKey \in gzHours => LateIn(buf, late'))
  BY <1>1 DEF FilesInv, TypeInv, BufferInv, LateIn
<1>3. /\ plain' \in [Hours -> Seq(Token)] /\ GzipInv'
      /\ \A h \in Hours, o \in Nat : HasLine(plain[h], o) => HasLine(plain'[h], o)
  BY <1>1, <1>2, AppendKeepsFiles
<1>4. TypeInv'  BY <1>1, <1>3 DEF FilesInv, TypeInv
<1>5. BufferInv'  BY <1>1 DEF BufferInv, LateIn
<1>6. FilesInv'  BY <1>3, <1>4, <1>5 DEF FilesInv
<1>7. plainHours \subseteq Hours  BY DEF FilesInv, TypeInv
<1> QED  BY <1>1, <1>3, <1>6, <1>7, LinesAreArchived

\* A line behind what waits already.
LEMMA LineBehind ==
    ASSUME NEW s \in Seq(Token), NEW o \in 1 .. MaxLog
    PROVE  /\ s \o Line(o) \in Seq(Token)
           /\ Len(s \o Line(o)) = Len(s) + 2
           /\ \A j \in 1 .. Len(s) : (s \o Line(o))[j] = s[j]
           /\ (s \o Line(o))[Len(s) + 1] = Text(o)
           /\ (s \o Line(o))[Len(s) + 2] = End(o)
<1>1. \A l \in Seq(Token) : Len(l) = 2 =>
        /\ s \o l \in Seq(Token)
        /\ Len(s \o l) = Len(s) + 2
        /\ \A j \in 1 .. Len(s) : (s \o l)[j] = s[j]
        /\ (s \o l)[Len(s) + 1] = l[1]
        /\ (s \o l)[Len(s) + 2] = l[2]
  <2> SUFFICES ASSUME NEW l \in Seq(Token), Len(l) = 2
               PROVE  /\ s \o l \in Seq(Token)
                      /\ Len(s \o l) = Len(s) + 2
                      /\ \A j \in 1 .. Len(s) : (s \o l)[j] = s[j]
                      /\ (s \o l)[Len(s) + 1] = l[1]
                      /\ (s \o l)[Len(s) + 2] = l[2]
    OBVIOUS
  <2>1. Len(s) \in Nat  OBVIOUS
  <2>2. /\ s \o l \in Seq(Token) /\ Len(s \o l) = Len(s) + 2
        /\ \A j \in 1 .. Len(s) + 2 : (s \o l)[j] = IF j <= Len(s) THEN s[j] ELSE l[j - Len(s)]
    <3>1. /\ s \o l \in Seq(Token)
          /\ Len(s \o l) = Len(s) + Len(l)
          /\ \A i \in 1 .. Len(s) + Len(l) :
                 (s \o l)[i] = IF i <= Len(s) THEN s[i] ELSE l[i - Len(s)]
      BY ConcatProperties, Zenon
    <3>2. Len(s) + Len(l) = Len(s) + 2  OBVIOUS
    <3> QED  BY <3>1, <3>2, Zenon
  <2>3. (s \o l)[Len(s) + 1] = l[1] /\ (s \o l)[Len(s) + 2] = l[2]
    <3>1. Len(s) + 1 - Len(s) = 1 /\ Len(s) + 2 - Len(s) = 2  BY <2>1
    <3>2. Len(s) + 1 \in 1 .. Len(s) + 2 /\ Len(s) + 2 \in 1 .. Len(s) + 2
          /\ ~(Len(s) + 1 <= Len(s)) /\ ~(Len(s) + 2 <= Len(s))
      BY <2>1
    <3>3. (s \o l)[Len(s) + 1] = l[Len(s) + 1 - Len(s)]
          /\ (s \o l)[Len(s) + 2] = l[Len(s) + 2 - Len(s)]
      BY <2>2, <3>2
    <3> QED  BY <3>1, <3>3
  <2> QED  BY <2>1, <2>2, <2>3
<1> QED  BY <1>1, LineTokens

\* The buffer with the batch's next line behind it.
LEMMA PendingLine ==
    ASSUME FilesInv, Remaining
    PROVE  /\ Next1 \in 1 .. MaxLog
           /\ buf \o Line(Next1) \in Seq(Token)
           /\ Len(buf \o Line(Next1)) = Len(buf) + 2
           /\ curKey \in gzHours => LateIn(buf \o Line(Next1), late \cup {Next1})
           /\ (buf \o Line(Next1))[Len(buf) + 1].part = "text"
           /\ \A j \in 1 .. Len(buf) : (buf \o Line(Next1))[j] = buf[j]
<1>1. Next1 \in 1 .. MaxLog
  <2>1. batch \in Seq(1 .. MaxLog) /\ written \in 0 .. Len(batch) /\ written < Len(batch)
    BY DEF FilesInv, TypeInv, Remaining
  <2>2. written + 1 \in 1 .. Len(batch)  BY <2>1
  <2>3. batch[written + 1] \in 1 .. MaxLog  BY <2>1, <2>2, ElementOfSeq
  <2> QED  BY <2>3 DEF Next1
<1>2. buf \in Seq(Token)  BY DEF FilesInv, TypeInv
<1> DEFINE p == buf \o Line(Next1)
<1>3. /\ p \in Seq(Token) /\ Len(p) = Len(buf) + 2
      /\ \A j \in 1 .. Len(buf) : p[j] = buf[j]
      /\ p[Len(buf) + 1] = Text(Next1) /\ p[Len(buf) + 2] = End(Next1)
  BY <1>1, <1>2, LineBehind
<1> HIDE DEF p
<1>4. p[Len(buf) + 1].part = "text" /\ p[Len(buf) + 2].off = Next1
  BY <1>3 DEF Text, End
<1>5. ASSUME curKey \in gzHours PROVE LateIn(p, late \cup {Next1})
  <2> SUFFICES ASSUME NEW j \in DOMAIN p, p[j].part = "end"
               PROVE  p[j].off \in late \cup {Next1}
    BY DEF LateIn
  <2>1. Len(buf) \in Nat /\ j \in 1 .. Len(buf) + 2  BY <1>2, <1>3
  <2>2. CASE j \in 1 .. Len(buf)
    <3>1. LateIn(buf, late)  BY <1>5 DEF FilesInv, BufferInv
    <3>2. j \in DOMAIN buf  BY <1>2, <2>2
    <3> QED  BY <1>3, <2>2, <3>1, <3>2 DEF LateIn
  <2>3. CASE j = Len(buf) + 1  BY <1>4, <2>3
  <2>4. CASE j = Len(buf) + 2  BY <1>4, <2>4
  <2> QED  BY <2>1, <2>2, <2>3, <2>4
<1> QED  BY <1>1, <1>3, <1>4, <1>5 DEF p

\* A part of what waits.
LEMMA PartOf ==
    ASSUME NEW s \in Seq(Token), NEW m \in 1 .. Len(s) + 1, NEW n \in 0 .. Len(s), m <= n + 1
    PROVE  /\ SubSeq(s, m, n) \in Seq(Token) /\ Len(SubSeq(s, m, n)) = n + 1 - m
           /\ \A j \in 1 .. n + 1 - m : SubSeq(s, m, n)[j] = s[j + m - 1]
<1>1. m \in Int /\ n \in Int /\ \A j \in m .. n : s[j] \in Token  OBVIOUS
<1>2. /\ SubSeq(s, m, n) \in Seq(Token)
      /\ Len(SubSeq(s, m, n)) = IF m <= n THEN n - m + 1 ELSE 0
      /\ \A i \in 1 .. n - m + 1 : SubSeq(s, m, n)[i] = s[m + i - 1]
  BY <1>1, SubSeqProperties
<1> QED  BY <1>2

LEMMA LatePart ==
    ASSUME NEW s \in Seq(Token), NEW m \in 1 .. Len(s) + 1, NEW n \in 0 .. Len(s), m <= n + 1,
           NEW S, LateIn(s, S)
    PROVE  LateIn(SubSeq(s, m, n), S)
<1> SUFFICES ASSUME NEW j \in DOMAIN SubSeq(s, m, n), SubSeq(s, m, n)[j].part = "end"
             PROVE  SubSeq(s, m, n)[j].off \in S
  BY DEF LateIn
<1>1. j \in 1 .. n + 1 - m  BY PartOf
<1>2. SubSeq(s, m, n)[j] = s[j + m - 1]  BY <1>1, PartOf
<1>3. j + m - 1 \in DOMAIN s  BY <1>1
<1> QED  BY <1>2, <1>3 DEF LateIn

\* A written line goes behind what waits; whole buffers of it go to the file.
LEMMA WriteLineKeeps == ASSUME FilesInv, WriteLine PROVE FilesInv' /\ Kept
<1> DEFINE p == buf \o Line(Next1)
           n == Spilled(p)
<1>1. /\ Remaining
      /\ plain' = [plain EXCEPT ![curKey] = @ \o SubSeq(p, 1, n)]
      /\ buf' = SubSeq(p, n + 1, Len(p))
      /\ written' = written + 1 /\ pc' = "write"
      /\ late' = IF curKey \in gzHours THEN late \cup {Next1} ELSE late
      /\ UNCHANGED <<published, committed, position, batch, curKey, hour, plainHours,
                     gz, gzHours>>
  BY DEF WriteLine
<1>2. p \in Seq(Token) /\ Len(p) = Len(buf) + 2 /\ (curKey \in gzHours => LateIn(p, late'))
  BY <1>1, PendingLine
<1>3. Len(buf) \in Nat /\ n \in 0 .. Len(p)
  <2>1. Len(buf) \in Nat  BY DEF FilesInv, TypeInv
  <2>2. p \in Seq(Token) /\ Len(p) \in Nat /\ Len(p) > 0  BY <1>2, <2>1
  <2> HIDE DEF p
  <2>3. Spilled(p) \in 0 .. (Len(p) - 1)  BY <2>2, SpilledIsPrefix
  <2> QED  BY <2>1, <2>2, <2>3
<1> HIDE DEF p, n
<1>4. Len(p) \in Nat /\ n \in Nat /\ n <= Len(p)  BY <1>2, <1>3
<1>5. SubSeq(p, 1, n) \in Seq(Token) /\ SubSeq(p, n + 1, Len(p)) \in Seq(Token)
  <2>1. 1 \in 1 .. Len(p) + 1 /\ n \in 0 .. Len(p) /\ 1 <= n + 1  BY <1>4
  <2>2. n + 1 \in 1 .. Len(p) + 1 /\ Len(p) \in 0 .. Len(p) /\ n + 1 <= Len(p) + 1  BY <1>4
  <2>3. SubSeq(p, 1, n) \in Seq(Token)  BY <1>2, <2>1, PartOf
  <2>4. SubSeq(p, n + 1, Len(p)) \in Seq(Token)  BY <1>2, <2>2, PartOf
  <2> QED  BY <2>3, <2>4
<1>6. curKey \in gzHours => /\ LateIn(SubSeq(p, 1, n), late')
                           /\ LateIn(SubSeq(p, n + 1, Len(p)), late')
  <2> SUFFICES ASSUME curKey \in gzHours
               PROVE  /\ LateIn(SubSeq(p, 1, n), late')
                      /\ LateIn(SubSeq(p, n + 1, Len(p)), late')
    OBVIOUS
  <2>1. 1 \in 1 .. Len(p) + 1 /\ n \in 0 .. Len(p) /\ 1 <= n + 1  BY <1>4
  <2>2. n + 1 \in 1 .. Len(p) + 1 /\ Len(p) \in 0 .. Len(p) /\ n + 1 <= Len(p) + 1  BY <1>4
  <2>3. LateIn(SubSeq(p, 1, n), late')  BY <1>2, <2>1, LatePart
  <2>4. LateIn(SubSeq(p, n + 1, Len(p)), late')  BY <1>2, <2>2, LatePart
  <2> QED  BY <2>3, <2>4
<1>7. late \subseteq late'  BY <1>1
<1>8. /\ plain' \in [Hours -> Seq(Token)] /\ GzipInv'
      /\ \A h \in Hours, o \in Nat : HasLine(plain[h], o) => HasLine(plain'[h], o)
  BY <1>1, <1>5, <1>6, <1>7, AppendKeepsFiles
<1>9. written' \in 0 .. Len(batch)
  BY <1>1 DEF FilesInv, TypeInv, Remaining
<1>10. TypeInv'  BY <1>1, <1>5, <1>8, <1>9 DEF FilesInv, TypeInv
<1>11. BufferInv'  BY <1>1, <1>6 DEF BufferInv
<1>12. FilesInv'  BY <1>8, <1>10, <1>11 DEF FilesInv
<1>13. plainHours \subseteq Hours  BY DEF FilesInv, TypeInv
<1> QED  BY <1>1, <1>8, <1>12, <1>13, LinesAreArchived

\* A write that stops part-way never finishes the line it stops in.
LEMMA ShortWriteKeeps == ASSUME FilesInv, ShortWrite PROVE FilesInv' /\ Kept
<1> DEFINE p == IF Remaining /\ ~NeedsRotation THEN buf \o Line(Next1) ELSE buf
<1>1. PICK n \in 0 .. (Len(p) - 1) : plain' = [plain EXCEPT ![curKey] = @ \o SubSeq(p, 1, n)]
  BY DEF ShortWrite
<1>2. /\ pc' = "down" /\ position' = 0 /\ batch' = <<>> /\ written' = 0
      /\ open' = FALSE /\ buf' = <<>>
      /\ UNCHANGED <<published, committed, curKey, hour, plainHours, gz, gzHours, late>>
  BY DEF ShortWrite, Gone, history
<1>3. buf \in Seq(Token) /\ Len(buf) \in Nat  BY DEF FilesInv, TypeInv
<1>4. p \in Seq(Token) /\ (\A j \in 1 .. n : p[j].part = "end" => j \in 1 .. Len(buf))
      /\ \A j \in 1 .. Len(buf) : p[j] = buf[j]
  <2>1. CASE Remaining /\ ~NeedsRotation
    <3>1. p = buf \o Line(Next1)  BY <2>1
    <3>2. /\ p \in Seq(Token) /\ Len(p) = Len(buf) + 2 /\ p[Len(buf) + 1].part = "text"
          /\ \A j \in 1 .. Len(buf) : p[j] = buf[j]
      BY <2>1, <3>1, PendingLine
    <3>3. ASSUME NEW j \in 1 .. n, p[j].part = "end" PROVE j \in 1 .. Len(buf)
      <4>1. j # Len(buf) + 1  BY <3>2, <3>3
      <4> QED  BY <1>3, <3>2, <4>1
    <3> QED  BY <3>2, <3>3
  <2>2. CASE ~(Remaining /\ ~NeedsRotation)
    <3>1. p = buf  BY <2>2
    <3>2. \A j \in 1 .. n : j \in 1 .. Len(buf)  BY <1>3, <3>1
    <3> QED  BY <1>3, <3>1, <3>2
  <2> QED  BY <2>1, <2>2
<1> HIDE DEF p
<1>5. n \in Nat /\ n <= Len(p) /\ Len(p) \in Nat  BY <1>4
<1>6. 1 \in 1 .. Len(p) + 1 /\ n \in 0 .. Len(p) /\ 1 <= n + 1 /\ n + 1 - 1 = n  BY <1>5
<1>7. /\ SubSeq(p, 1, n) \in Seq(Token) /\ Len(SubSeq(p, 1, n)) = n
      /\ \A j \in 1 .. n : SubSeq(p, 1, n)[j] = p[j]
  <2>1. /\ SubSeq(p, 1, n) \in Seq(Token) /\ Len(SubSeq(p, 1, n)) = n + 1 - 1
        /\ \A j \in 1 .. n + 1 - 1 : SubSeq(p, 1, n)[j] = p[j + 1 - 1]
    BY <1>4, <1>6, PartOf
  <2>2. \A j \in 1 .. n : j + 1 - 1 = j  BY <1>5
  <2> QED  BY <1>6, <2>1, <2>2
<1>8. curKey \in gzHours => LateIn(SubSeq(p, 1, n), late')
  <2> SUFFICES ASSUME curKey \in gzHours,
                      NEW j \in DOMAIN SubSeq(p, 1, n), SubSeq(p, 1, n)[j].part = "end"
               PROVE  SubSeq(p, 1, n)[j].off \in late
    BY <1>2 DEF LateIn
  <2>1. j \in 1 .. n /\ SubSeq(p, 1, n)[j] = p[j]  BY <1>7
  <2>2. j \in 1 .. Len(buf) /\ p[j] = buf[j]  BY <1>4, <2>1
  <2>3. LateIn(buf, late) /\ j \in DOMAIN buf  BY <1>3, <2>2 DEF FilesInv, BufferInv
  <2> QED  BY <2>1, <2>2, <2>3 DEF LateIn
<1>9. late \subseteq late'  BY <1>2
<1>10. /\ plain' \in [Hours -> Seq(Token)] /\ GzipInv'
       /\ \A h \in Hours, o \in Nat : HasLine(plain[h], o) => HasLine(plain'[h], o)
  BY <1>1, <1>2, <1>7, <1>8, <1>9, AppendKeepsFiles
<1>11. TypeInv'
  BY <1>2, <1>10, ArchiveBoundsAssumption DEF FilesInv, TypeInv
<1>12. BufferInv'  BY <1>2 DEF BufferInv, LateIn
<1>13. FilesInv'  BY <1>10, <1>11, <1>12 DEF FilesInv
<1>14. plainHours \subseteq Hours  BY DEF FilesInv, TypeInv
<1> QED  BY <1>2, <1>10, <1>13, <1>14, LinesAreArchived

\* Stuttering.
LEMMA StutterKeeps == ASSUME FilesInv, UNCHANGED vars PROVE FilesInv' /\ Kept
<1>1. UNCHANGED <<published, committed, pc, position, batch, written, curKey, open, buf, hour,
                  plain, plainHours, gz, gzHours, late>>
  BY DEF vars, process, disk, history
<1>2. TypeInv'  BY <1>1 DEF FilesInv, TypeInv
<1>3. pc' = "down" => buf = <<>> /\ ~open'  BY <1>1 DEF FilesInv, BufferInv
<1> QED  BY <1>1, <1>2, <1>3, FilesUntouched

\* Every step keeps the files, and every line of the archive but the late ones.
LEMMA StepsKeepLines == ASSUME FilesInv, [Next]_vars PROVE FilesInv' /\ Kept
  BY QuietSteps, ProcessSteps, GzipPublishKeeps, RemovePlainKeeps, RotateKeeps, SyncKeeps,
     WriteLineKeeps, ShortWriteKeeps, StutterKeeps DEF Next, Finalize, Flush

(***************************************************************************)
(* Every line of a plain file whose hour has a .gz is in that .gz too, or  *)
(* was written after it (rotate and NewArchiveWriter gzip closed hours     *)
(* only, and gzipFile removes a plain file only beside its .gz).           *)
(***************************************************************************)
THEOREM FilesAreConsistent == Spec => []FilesInv
<1>1. Init => FilesInv  BY FilesInitially
<1>2. FilesInv /\ [Next]_vars => FilesInv'  BY StepsKeepLines
<1> QED  BY <1>1, <1>2, PTL DEF Spec

(***************************************************************************)
(* No step, and no kill between two of them, takes a line out of the       *)
(* archive, unless it was written to an hour that had been gzipped.        *)
(***************************************************************************)
THEOREM LinesStayArchived == Spec => NothingErased
<1>1. FilesInv /\ [Next]_vars => [Archived \subseteq Archived' \cup late]_vars
  BY StepsKeepLines DEF Kept
<1> QED  BY <1>1, FilesAreConsistent, PTL DEF Spec, NothingErased

(***************************************************************************)
(* A .ndjson.gz at its final name is never rewritten or removed.           *)
(***************************************************************************)
THEOREM GzipsAreFinal == Spec => GzipIsFinal
<1>1. TypeInv /\ [Next]_vars => [\A h \in gzHours : h \in gzHours' /\ gz'[h] = gz[h]]_vars
  <2> SUFFICES ASSUME TypeInv, [Next]_vars
               PROVE  \A h \in gzHours : h \in gzHours' /\ gz'[h] = gz[h]
    OBVIOUS
  <2>1. CASE GzipPublish
    <3>1. PICK h \in Stale \ gzHours :
            gz' = [gz EXCEPT ![h] = plain[h]] /\ gzHours' = gzHours \cup {h}
      BY <2>1 DEF GzipPublish
    <3> QED  BY <3>1 DEF TypeInv
  <2>2. CASE ~GzipPublish
    <3>1. UNCHANGED <<gz, gzHours>>
      BY <2>2 DEF Next, Publish, Tick, ClockBack, Crash, Start, Finalize, RemovePlain, Join,
         Fetch, Flush, BeginFlush, Rotate, WriteLine, Sync, Commit, ShortWrite, disk, vars
    <3> QED  BY <3>1
  <2> QED  BY <2>1, <2>2
<1>2. FilesInv => TypeInv  BY DEF FilesInv
<1> QED  BY <1>1, <1>2, FilesAreConsistent, PTL DEF Spec, GzipIsFinal

-----------------------------------------------------------------------------
(***************************************************************************)
(* What happens to a message between its delivery and its commit.          *)
(***************************************************************************)

\* No write of a file stopped part-way, and the group began at offset 1: then
\* only a kill can have left a torn line.
Clean == shortWrites = 0 /\ missed = {}

\* The archive owes nothing more for a message.
Settled(o) == o \in Archived \cup missed \cup late \/ (o \in glued /\ ~Clean)

\* A line of the open file, of which the end may still be in the buffer.
InStream(o) == open /\ HasLine(plain[curKey] \o buf, o)

Running == pc \in {"fetch", "write", "rotating", "commit"}
Base == position - Len(batch)

\* The message a restarted process is handed first, and the archive has it.
First == IF committed = None THEN 1 ELSE committed + 1
FirstSafe == First \in Archived \cup late

HistoryInv ==
    /\ published \in Nat /\ shortWrites \in Nat /\ clockBacks \in Nat
    /\ missed \subseteq Offsets /\ late \subseteq Offsets /\ glued \subseteq Offsets

\* Which files exist, and what the buffer holds, at each point of the program.
\* Behind a commit and behind a rotation the buffer is empty, and a buffer that
\* is not empty ends with a whole line.
PhaseInv ==
    /\ Running \/ pc \in {"down", "startup"}
    /\ ~Running => ~open /\ buf = <<>> /\ written = 0 /\ batch = <<>>
    /\ pc \in {"fetch", "write", "commit"} => Stale = {}
    /\ open => curKey \in plainHours
    /\ \A h \in Hours \ plainHours : plain[h] = <<>>
    /\ pc = "fetch" => written = 0 /\ buf = <<>>
    /\ pc = "write" => /\ batch # <<>>
                       /\ written = 0 => buf = <<>>
                       /\ written > 0 => /\ open /\ buf # <<>>
                                         /\ buf[Len(buf)].part = "end"
    /\ pc = "rotating" => /\ open /\ buf = <<>> /\ Remaining
                          /\ written > 0 => plain[curKey] = <<>>
    /\ pc = "commit" => /\ buf = <<>> /\ written = Len(batch)
                        /\ ~Torn(plain[curKey])

\* The batch is the run of messages behind the committed ones.
BatchInv ==
    Running => /\ Base \in Nat
               /\ \A i \in 1 .. Len(batch) : batch[i] = Base + i
               /\ committed # None => Base = committed
               /\ committed = None => 1 .. Base \subseteq missed

\* As long as the clock does not step back, an hour with a .gz is over.
ClockInv ==
    clockBacks = 0 =>
        /\ curKey <= hour /\ late = {}
        /\ \A h \in plainHours : h <= curKey
        /\ \A h \in gzHours : h < curKey

\* Every committed message is settled, and every line written is settled or
\* on its way.
SettledInv ==
    /\ \A o \in Offsets : Committed(o) => Settled(o)
    /\ pc \in {"write", "rotating"} =>
           \A i \in 1 .. written : Settled(batch[i]) \/ InStream(batch[i])
    /\ pc = "commit" => \A i \in 1 .. Len(batch) : Settled(batch[i])

\* The first line of a batch fits in the buffer, so a file that ends in a torn
\* line has the first line in full: it is the next one to be written behind it.
TornInv ==
    Clean =>
        /\ \A h \in Hours : Torn(plain[h]) => FirstSafe
        /\ pc \in {"write", "rotating"} /\ written > 0 =>
               \/ FirstSafe
               \/ /\ open /\ ~Torn(plain[curKey])
                  /\ Len(buf) >= 2 /\ buf[1] = Text(First) /\ buf[2] = End(First)

AccountInv ==
    HistoryInv /\ PhaseInv /\ BatchInv /\ ClockInv /\ SettledInv /\ TornInv

\* The fsync at the end of a batch covers its last line.
FsyncInv ==
    /\ FsyncedUnlessRotated
    /\ pc = "write" /\ written > 0 =>
           batch[written] \in glued \/ HasLine(plain[curKey] \o buf, batch[written])

-----------------------------------------------------------------------------
(***************************************************************************)
(* Lines of the open file and the buffer behind it.                        *)
(***************************************************************************)

\* Two sequences appended one after the other are their concatenation appended.
LEMMA ConcatAssociates ==
    ASSUME NEW f \in Seq(Token), NEW g \in Seq(Token), NEW l \in Seq(Token)
    PROVE  (f \o g) \o l = f \o (g \o l)
<1>1. /\ (f \o g) \o l \in Seq(Token) /\ f \o (g \o l) \in Seq(Token)
      /\ Len((f \o g) \o l) = Len(f) + Len(g) + Len(l)
      /\ Len(f \o (g \o l)) = Len(f) + Len(g) + Len(l)
  OBVIOUS
<1>2. ASSUME NEW i \in 1 .. Len((f \o g) \o l)
      PROVE  ((f \o g) \o l)[i] = (f \o (g \o l))[i]
  OBVIOUS
<1> QED  BY <1>1, <1>2, SeqEqual

\* What a write hands over and what it keeps back are what was waiting.
LEMMA SplitStream ==
    ASSUME NEW f \in Seq(Token), NEW p \in Seq(Token), NEW n \in 0 .. Len(p)
    PROVE  (f \o SubSeq(p, 1, n)) \o SubSeq(p, n + 1, Len(p)) = f \o p
<1> DEFINE a == SubSeq(p, 1, n)
           b == SubSeq(p, n + 1, Len(p))
<1>1. /\ a \in Seq(Token) /\ Len(a) = n
      /\ \A j \in 1 .. n : a[j] = p[j]
  <2>1. 1 \in 1 .. Len(p) + 1 /\ 1 <= n + 1  OBVIOUS
  <2>2. /\ a \in Seq(Token) /\ Len(a) = n + 1 - 1
        /\ \A j \in 1 .. n + 1 - 1 : a[j] = p[j + 1 - 1]
    BY <2>1, PartOf
  <2> QED  BY <2>2
<1>2. /\ b \in Seq(Token) /\ Len(b) = Len(p) - n
      /\ \A j \in 1 .. Len(p) - n : b[j] = p[j + n]
  <2>1. n + 1 \in 1 .. Len(p) + 1 /\ Len(p) \in 0 .. Len(p) /\ n + 1 <= Len(p) + 1  OBVIOUS
  <2>2. /\ b \in Seq(Token) /\ Len(b) = Len(p) + 1 - (n + 1)
        /\ \A j \in 1 .. Len(p) + 1 - (n + 1) : b[j] = p[j + (n + 1) - 1]
    BY <2>1, PartOf
  <2>3. Len(p) \in Nat /\ n \in Nat  OBVIOUS
  <2>4. Len(p) + 1 - (n + 1) = Len(p) - n /\ \A j \in Nat : j + (n + 1) - 1 = j + n
    BY <2>3
  <2> HIDE DEF b
  <2>5. ASSUME NEW j \in 1 .. Len(p) - n PROVE b[j] = p[j + n]
    <3>1. b[j] = p[j + (n + 1) - 1]  BY <2>2, <2>4
    <3> QED  BY <2>4, <3>1
  <2> QED  BY <2>2, <2>4, <2>5
<1> HIDE DEF a, b
<1>3. a \o b \in Seq(Token) /\ Len(a \o b) = Len(p)
  <2>0. a \in Seq(Token) /\ b \in Seq(Token)  BY <1>1, <1>2
  <2>1. a \o b \in Seq(Token) /\ Len(a \o b) = Len(a) + Len(b)  BY <2>0
  <2>2. n + (Len(p) - n) = Len(p)  OBVIOUS
  <2> QED  BY <1>1, <1>2, <2>1, <2>2
<1>4. ASSUME NEW i \in 1 .. Len(a \o b) PROVE (a \o b)[i] = p[i]
  <2>1. CASE i <= n  BY <1>1, <1>2, <1>3, <2>1
  <2>2. CASE i > n
    <3>1. n \in Nat /\ i \in Nat /\ Len(p) \in Nat /\ i <= Len(p) /\ n <= Len(p)  BY <1>3
    <3>2. i - n \in 1 .. Len(p) - n /\ (i - n) + n = i  BY <2>2, <3>1
    <3>3. (a \o b)[i] = IF i <= Len(a) THEN a[i] ELSE b[i - Len(a)]
      BY <1>1, <1>2, <1>3, ConcatProperties
    <3>4. (a \o b)[i] = b[i - n]  BY <1>1, <2>2, <3>1, <3>3
    <3> QED  BY <1>2, <3>2, <3>4
  <2> QED  BY <1>3, <2>1, <2>2
<1>5. a \o b = p  BY <1>3, <1>4, SeqEqual
<1>6. (f \o a) \o b = f \o p  BY <1>1, <1>2, <1>5, ConcatAssociates
<1> QED  BY <1>6 DEF a, b

\* A line that begins behind a file that is not torn is a line of its own.
LEMMA LineBehindWholeLine ==
    ASSUME NEW f \in Seq(Token), NEW g \in Seq(Token), NEW o,
           ~Torn(f), Len(g) >= 2, g[1] = Text(o), g[2] = End(o)
    PROVE  HasLine(f \o g, o)
<1>1. f \o g \in Seq(Token) /\ Len(f \o g) = Len(f) + Len(g) /\ Len(f) \in Nat  OBVIOUS
<1>2. (f \o g)[Len(f) + 1] = g[1] /\ (f \o g)[Len(f) + 2] = g[2]  BY <1>1
<1>3. Len(f) + 1 \in 1 .. (Len(f \o g) - 1)  BY <1>1
<1>4. Len(f) + 1 = 1 \/ (f \o g)[(Len(f) + 1) - 1].part = "end"
  <2>1. CASE f = <<>>  BY <2>1
  <2>2. CASE f # <<>>
    <3>1. Len(f) \in 1 .. Len(f)  BY <1>1, <2>2
    <3>2. (f \o g)[Len(f)] = f[Len(f)] /\ f[Len(f)] \in Token  BY <1>1, <3>1
    <3>3. f[Len(f)].part = "end"  BY <2>2, <3>2 DEF Torn, Token
    <3> QED  BY <1>1, <3>2, <3>3
  <2> QED  BY <2>1, <2>2
<1>5. (Len(f) + 1) + 1 = Len(f) + 2  BY <1>1
<1> QED  BY <1>1, <1>2, <1>3, <1>4, <1>5, LineIsTextAndEnd

\* The end of a file is the end of what was appended last.
LEMMA TornAppendix ==
    ASSUME NEW f \in Seq(Token), NEW g \in Seq(Token)
    PROVE  /\ g = <<>> => f \o g = f
           /\ g # <<>> => /\ f \o g # <<>>
                          /\ (f \o g)[Len(f \o g)] = g[Len(g)]
                          /\ Torn(f \o g) <=> g[Len(g)].part = "text"
<1>1. CASE g = <<>>
  <2>1. f \o g \in Seq(Token) /\ Len(f \o g) = Len(f)  BY <1>1
  <2>2. \A i \in 1 .. Len(f \o g) : (f \o g)[i] = f[i]  BY <1>1, <2>1
  <2> QED  BY <1>1, <2>1, <2>2, SeqEqual
<1>2. CASE g # <<>>
  <2>1. Len(g) \in Nat /\ Len(g) >= 1 /\ Len(f) \in Nat  BY <1>2
  <2>2. f \o g \in Seq(Token) /\ Len(f \o g) = Len(f) + Len(g)  OBVIOUS
  <2>3. (f \o g)[Len(f) + Len(g)] = g[Len(g)]  BY <2>1, <2>2
  <2>4. f \o g # <<>>  BY <2>1, <2>2
  <2> QED  BY <1>2, <2>2, <2>3, <2>4 DEF Torn
<1> QED  BY <1>1, <1>2

\* A buffer that overflows hands over a line at least.
LEMMA SpilledBuffers ==
    ASSUME NEW s \in Seq(Token), Len(s) > 0
    PROVE  Spilled(s) = 0 \/ Spilled(s) >= 2
<1> DEFINE m == Len(s) - 1
           q == m \div BufCap
<1>1. m \in Nat /\ BufCap \in Nat /\ BufCap >= 2  BY BatchAssumption
<1>2. q \in Nat /\ BufCap * q <= m  BY <1>1
<1>3. q = 0 \/ BufCap * q >= BufCap  BY <1>1, <1>2
<1>4. q = 0 => BufCap * q = 0  BY <1>1
<1> HIDE DEF q
<1>5. BufCap * q = 0 \/ BufCap * q >= 2
  <2>1. BufCap * q \in Nat  BY <1>1, <1>2
  <2> QED  BY <1>1, <1>3, <1>4, <2>1
<1> QED  BY <1>4, <1>5 DEF Spilled, q

-----------------------------------------------------------------------------
(***************************************************************************)
(* Steps: what they record, and what is settled stays settled.             *)
(***************************************************************************)
LEMMA BatchIsDelivered ==
    ASSUME FilesInv, BatchInv, Running, NEW i \in 1 .. Len(batch)
    PROVE  batch[i] = Base + i /\ batch[i] \in Offsets /\ batch[i] <= position
<1>1. Len(batch) \in Nat /\ position \in Nat /\ published \in Nat /\ position <= published
  BY DEF FilesInv, TypeInv
<1>2. Base \in Nat /\ batch[i] = Base + i  BY DEF BatchInv
<1> QED  BY <1>1, <1>2 DEF Base, Offsets

LEMMA NextIsDelivered ==
    ASSUME FilesInv, BatchInv, Running, Remaining
    PROVE  /\ Next1 \in Offsets /\ Next1 \in 1 .. MaxLog
           /\ written \in Nat /\ Len(batch) \in Nat /\ written + 1 \in 1 .. Len(batch)
<1>1. written \in Nat /\ Len(batch) \in Nat /\ written + 1 \in 1 .. Len(batch)
  BY DEF FilesInv, TypeInv, Remaining
<1>2. Next1 \in Offsets  BY <1>1, BatchIsDelivered DEF Next1
<1>3. published <= MaxLog /\ published \in Nat /\ MaxLog \in Nat
  BY ArchiveBoundsAssumption DEF FilesInv, TypeInv
<1> QED  BY <1>1, <1>2, <1>3 DEF Offsets

\* Only these steps touch the counters and the histories.
LEMMA RecordedSteps ==
    ASSUME FilesInv, HistoryInv, BatchInv, [Next]_vars
    PROVE  /\ HistoryInv' /\ published <= published'
           /\ missed \subseteq missed' /\ late \subseteq late' /\ glued \subseteq glued'
           /\ Clean' => Clean
<1> USE DEF HistoryInv, Offsets
<1>1. CASE Publish
  BY <1>1 DEF Publish, bounds, history, Clean
<1>2. CASE ClockBack
  BY <1>2 DEF ClockBack, history, Clean
<1>3. CASE Join
  BY <1>3 DEF Join, bounds, Clean
<1>4. CASE WriteLine
  <2>1. Next1 \in Offsets  BY <1>4, NextIsDelivered DEF WriteLine, Running
  <2>2. /\ UNCHANGED <<published, shortWrites, clockBacks, missed>>
        /\ late' = IF curKey \in gzHours THEN late \cup {Next1} ELSE late
        /\ \/ glued' = glued \cup {Next1}
           \/ glued' = glued
    BY <1>4 DEF WriteLine, bounds
  <2> HIDE DEF Offsets
  <2>3. Offsets' = Offsets  BY <2>2 DEF Offsets
  <2> QED  BY <2>1, <2>2, <2>3 DEF Clean
<1>5. CASE ShortWrite
  BY <1>5 DEF ShortWrite, history, Clean
<1>6. CASE UNCHANGED <<published, shortWrites, clockBacks, missed, late, glued>>
  BY <1>6 DEF Clean
<1>7. CASE Tick \/ Crash \/ Start \/ Finalize \/ Fetch \/ BeginFlush \/ Rotate \/ Sync \/ Commit
           \/ UNCHANGED vars
  BY <1>6, <1>7 DEF Tick, Crash, Start, Finalize, GzipPublish, RemovePlain, Fetch, BeginFlush,
     Rotate, Sync, Commit, vars, bounds, history
<1> QED  BY <1>1, <1>2, <1>3, <1>4, <1>5, <1>7 DEF Next, Flush

LEMMA SettledStays ==
    ASSUME FilesInv, HistoryInv, BatchInv, [Next]_vars
    PROVE  /\ \A o : Settled(o) => Settled(o)'
           /\ \A o \in Archived \cup late : o \in Archived' \cup late'
<1>1. Archived \subseteq Archived' \cup late  BY StepsKeepLines DEF Kept
<1>2. /\ missed \subseteq missed' /\ late \subseteq late' /\ glued \subseteq glued'
      /\ Clean' => Clean
  BY RecordedSteps
<1> QED  BY <1>1, <1>2 DEF Settled

\* What is in a file that exists is in the archive.
LEMMA InFileIsArchived ==
    ASSUME NEW h \in plainHours, plainHours \subseteq Hours, NEW o \in Offsets, HasLine(plain[h], o)
    PROVE  o \in Archived
  BY DEF Archived

-----------------------------------------------------------------------------
(***************************************************************************)
(* Steps: the files that exist and the buffer.                             *)
(***************************************************************************)
LEMMA PhaseStep ==
    ASSUME FilesInv, HistoryInv, PhaseInv, BatchInv, [Next]_vars
    PROVE  PhaseInv'
<1> USE DEF PhaseInv, Running
<1>0. /\ plain \in [Hours -> Seq(Token)] /\ buf \in Seq(Token)
      /\ curKey \in Hours /\ hour \in Hours /\ plainHours \subseteq Hours
      /\ written \in Nat /\ Len(batch) \in Nat
  BY DEF FilesInv, TypeInv
<1>1. CASE Publish \/ Tick \/ ClockBack
  <2>1. UNCHANGED <<pc, written, batch, curKey, open, buf, plain, plainHours>>
    BY <1>1 DEF Publish, Tick, ClockBack, process, disk
  <2> QED  BY <2>1 DEF Stale, Torn, Remaining
<1>2. CASE Crash
  BY <1>2 DEF Crash, Gone, disk
<1>3. CASE Start
  BY <1>3 DEF Start, disk
<1>4. CASE GzipPublish
  <2>1. UNCHANGED <<pc, written, batch, curKey, open, buf, plain, plainHours>>
    BY <1>4 DEF GzipPublish, process
  <2> QED  BY <2>1 DEF Stale, Torn, Remaining
<1>5. CASE RemovePlain
  <2>1. /\ pc \in {"startup", "rotating"}
        /\ UNCHANGED <<pc, written, batch, curKey, open, buf>>
    BY <1>5 DEF RemovePlain, Finalizing, process
  <2>2. PICK h \in Stale : /\ plain' = [plain EXCEPT ![h] = <<>>]
                           /\ plainHours' = plainHours \ {h}
    BY <1>5 DEF RemovePlain
  <2>3. h # curKey  BY DEF Stale
  <2>4. plain'[curKey] = plain[curKey] /\ \A g \in Hours \ plainHours' : plain'[g] = <<>>
    BY <1>0, <2>2, <2>3
  <2> QED  BY <2>1, <2>2, <2>3, <2>4 DEF Remaining
<1>6. CASE Join
  <2>1. /\ pc = "startup" /\ pc' = "fetch" /\ Stale = {}
        /\ UNCHANGED <<written, batch, curKey, open, buf, plain, plainHours>>
    BY <1>6 DEF Join, disk
  <2>2. Stale' = {} /\ written' = 0 /\ buf' = <<>> /\ ~open'  BY <2>1 DEF Stale
  <2> QED  BY <2>1, <2>2
<1>7. CASE Fetch
  <2>1. /\ pc = "fetch"
        /\ UNCHANGED <<pc, written, curKey, open, buf, plain, plainHours>>
    BY <1>7 DEF Fetch, disk
  <2> QED  BY <2>1 DEF Stale
<1>8. CASE BeginFlush
  <2>1. /\ pc = "fetch" /\ pc' = "write" /\ batch # <<>> /\ written' = 0
        /\ UNCHANGED <<batch, curKey, open, buf, plain, plainHours>>
    BY <1>8 DEF BeginFlush, disk
  <2>2. ~(written' > 0) /\ Stale' = {} /\ buf' = <<>>  BY <2>1 DEF Stale
  <2> QED  BY <2>1, <2>2
<1>9. CASE Rotate
  <2>1. /\ pc = "write" /\ pc' = "rotating" /\ Remaining /\ NeedsRotation
        /\ buf' = <<>> /\ open' = TRUE /\ curKey' = hour
        /\ plain' = IF open THEN [plain EXCEPT ![curKey] = @ \o buf] ELSE plain
        /\ plainHours' = plainHours \cup {hour}
        /\ UNCHANGED <<written, batch>>
    BY <1>9 DEF Rotate
  <2>2. \A h \in Hours \ plainHours' : plain'[h] = <<>>  BY <1>0, <2>1
  <2>3. written > 0 => plain'[hour] = <<>>
    <3> SUFFICES ASSUME written > 0 PROVE plain'[hour] = <<>>  OBVIOUS
    <3>1. open /\ hour # curKey  BY <2>1 DEF NeedsRotation
    <3>2. hour \notin plainHours  BY <2>1, <3>1 DEF Stale
    <3> QED  BY <1>0, <2>1, <3>1, <3>2
  <2> QED  BY <2>1, <2>2, <2>3 DEF Remaining
<1>10. CASE WriteLine
  <2> DEFINE p == buf \o Line(Next1)
             n == Spilled(p)
  <2>1. /\ pc \in {"write", "rotating"} /\ pc' = "write" /\ Remaining
        /\ open /\ (pc = "rotating" => Stale = {})
        /\ plain' = [plain EXCEPT ![curKey] = @ \o SubSeq(p, 1, n)]
        /\ buf' = SubSeq(p, n + 1, Len(p))
        /\ written' = written + 1
        /\ UNCHANGED <<batch, curKey, open, plainHours>>
    BY <1>10 DEF WriteLine, NeedsRotation
  <2>2. Next1 \in 1 .. MaxLog  BY <2>1, NextIsDelivered
  <2>3. /\ p \in Seq(Token) /\ Len(p) = Len(buf) + 2 /\ Len(p) \in Nat
        /\ p[Len(p)] = End(Next1)
    BY <1>0, <2>2, LineBehind
  <2> HIDE DEF p
  <2>4. n \in 0 .. (Len(p) - 1)
    <3>1. Len(p) > 0  BY <1>0, <2>3
    <3> QED  BY <2>3, <3>1, SpilledIsPrefix
  <2> HIDE DEF n
  <2>5. /\ buf' # <<>> /\ buf'[Len(buf')].part = "end"
    <3>1. n + 1 \in 1 .. Len(p) + 1 /\ Len(p) \in 0 .. Len(p) /\ n + 1 <= Len(p) + 1
          /\ n \in Nat /\ Len(p) - n \in 1 .. Len(p) - n
      BY <2>3, <2>4
    <3>2. /\ SubSeq(p, n + 1, Len(p)) \in Seq(Token)
          /\ Len(SubSeq(p, n + 1, Len(p))) = Len(p) + 1 - (n + 1)
          /\ \A j \in 1 .. Len(p) + 1 - (n + 1) :
                 SubSeq(p, n + 1, Len(p))[j] = p[j + (n + 1) - 1]
      BY <2>3, <3>1, PartOf
    <3>3. Len(p) + 1 - (n + 1) = Len(p) - n /\ (Len(p) - n) + (n + 1) - 1 = Len(p)
      BY <2>3, <3>1
    <3>4. Len(buf') = Len(p) - n /\ buf'[Len(p) - n] = p[Len(p)]
      BY <2>1, <3>1, <3>2, <3>3
    <3>5. Len(buf') >= 1  BY <3>1, <3>4
    <3> QED  BY <2>3, <3>4, <3>5 DEF End
  <2>6. \A h \in Hours \ plainHours' : plain'[h] = <<>>  BY <1>0, <2>1
  <2>7. batch # <<>> /\ written' > 0  BY <1>0, <2>1 DEF Remaining
  <2>8. Stale' = {}
    <3>1. Stale = {}  BY <2>1
    <3> QED  BY <2>1, <3>1 DEF Stale
  <2>9. batch' # <<>> /\ written' # 0 /\ open' /\ curKey' \in plainHours' /\ pc' = "write"
    BY <1>0, <2>1, <2>7
  <2> QED  BY <2>5, <2>6, <2>8, <2>9
<1>11. CASE ShortWrite
  <2>1. /\ pc' = "down" /\ open' = FALSE /\ buf' = <<>> /\ pc = "write" /\ open
        /\ written' = 0 /\ batch' = <<>> /\ UNCHANGED <<curKey, plainHours>>
    BY <1>11 DEF ShortWrite, Gone
  <2>2. \E g : plain' = [plain EXCEPT ![curKey] = g]
    BY <1>11 DEF ShortWrite
  <2>3. \A h \in Hours \ plainHours' : plain'[h] = <<>>  BY <1>0, <2>1, <2>2
  <2> QED  BY <2>1, <2>3
<1>12. CASE Sync
  <2>1. /\ pc = "write" /\ pc' = "commit" /\ ~Remaining /\ buf' = <<>>
        /\ plain' = [plain EXCEPT ![curKey] = @ \o buf]
        /\ UNCHANGED <<written, batch, curKey, open, plainHours>>
    BY <1>12 DEF Sync
  <2>2. written = Len(batch) /\ written > 0
    <3>1. written <= Len(batch) /\ batch \in Seq(1 .. MaxLog) /\ batch # <<>>
      BY <2>1 DEF FilesInv, TypeInv
    <3> QED  BY <1>0, <2>1, <3>1 DEF Remaining
  <2>3. open /\ buf # <<>> /\ buf[Len(buf)].part = "end"  BY <2>1, <2>2
  <2>4. plain'[curKey] = plain[curKey] \o buf  BY <1>0, <2>1
  <2>5. ~Torn(plain'[curKey])  BY <1>0, <2>3, <2>4, TornAppendix
  <2>6. \A h \in Hours \ plainHours' : plain'[h] = <<>>  BY <1>0, <2>1, <2>3
  <2> QED  BY <2>1, <2>2, <2>5, <2>6 DEF Stale
<1>13. CASE Commit
  <2>1. /\ pc = "commit" /\ pc' = "fetch" /\ written' = 0
        /\ UNCHANGED <<curKey, open, buf, plain, plainHours>>
    BY <1>13 DEF Commit, disk
  <2> QED  BY <2>1 DEF Stale
<1>14. CASE UNCHANGED vars
  <2>1. UNCHANGED <<pc, written, batch, curKey, open, buf, plain, plainHours>>
    BY <1>14 DEF vars, process, disk
  <2> QED  BY <2>1 DEF Stale, Torn, Remaining
<1> QED
  BY <1>1, <1>2, <1>3, <1>4, <1>5, <1>6, <1>7, <1>8, <1>9, <1>10, <1>11, <1>12, <1>13, <1>14
     DEF Next, Finalize, Flush

-----------------------------------------------------------------------------
(***************************************************************************)
(* Steps: the batch and the hours.                                         *)
(***************************************************************************)
LEMMA BatchStep ==
    ASSUME FilesInv, HistoryInv, PhaseInv, BatchInv, [Next]_vars
    PROVE  BatchInv'
<1> USE DEF Base, Running
<1>0. /\ position \in Nat /\ published \in Nat /\ committed \in {None} \cup Nat
      /\ batch \in Seq(1 .. MaxLog) /\ Len(batch) \in Nat
  BY DEF FilesInv, TypeInv
<1>1. CASE pc' \in {"down", "startup"}  BY <1>1 DEF BatchInv
<1>2. CASE Join
  <2>1. /\ pc = "startup" /\ batch' = batch /\ committed' = committed
        /\ position' = IF committed # None THEN committed
                       ELSE IF StartLatest THEN published ELSE 0
        /\ missed' = IF committed = None /\ StartLatest THEN missed \cup Offsets ELSE missed
    BY <1>2 DEF Join
  <2>2. Len(batch') = 0  BY <2>1 DEF PhaseInv
  <2>3. position' \in Nat /\ Base' = position'  BY <1>0, <2>1, <2>2
  <2>4. committed' = None => 1 .. position' \subseteq missed'
    BY <1>0, <2>1 DEF Offsets
  <2>5. committed' # None => position' = committed'  BY <2>1
  <2> HIDE DEF Base
  <2> QED  BY <2>2, <2>3, <2>4, <2>5 DEF BatchInv
<1>3. CASE Fetch
  <2>1. /\ pc = "fetch" /\ position' = position + 1 /\ batch' = Append(batch, position + 1)
        /\ UNCHANGED <<committed, missed>>
    BY <1>3 DEF Fetch, history
  <2>2. Len(batch') = Len(batch) + 1 /\ Base' = Base /\ Base + Len(batch) = position
    BY <1>0, <2>1
  <2>3. ASSUME NEW i \in 1 .. Len(batch') PROVE batch'[i] = Base' + i
    <3>1. CASE i = Len(batch) + 1
      <4>1. batch'[i] = position + 1  BY <1>0, <2>1, <3>1
      <4> QED  BY <1>0, <2>2, <3>1, <4>1
    <3>2. CASE i # Len(batch) + 1
      <4>1. i \in 1 .. Len(batch) /\ batch'[i] = batch[i]  BY <1>0, <2>1, <2>2, <3>2
      <4> QED  BY <2>1, <2>2, <4>1 DEF BatchInv
    <3> QED  BY <3>1, <3>2
  <2> HIDE DEF Base
  <2> QED  BY <2>1, <2>2, <2>3 DEF BatchInv
<1>4. CASE Commit
  <2>1. /\ pc = "commit" /\ committed' = position /\ batch' = <<>> /\ position' = position
    BY <1>4 DEF Commit
  <2>2. Len(batch') = 0 /\ committed' # None  BY <1>0, <2>1 DEF None
  <2> QED  BY <1>0, <2>1, <2>2 DEF BatchInv
<1>5. CASE /\ Running
           /\ UNCHANGED <<committed, position, batch, missed>>
  <2>1. Base' = Base  BY <1>5
  <2> HIDE DEF Base
  <2> QED  BY <1>5, <2>1 DEF BatchInv
<1>6. CASE Publish \/ Tick \/ ClockBack \/ GzipPublish \/ RemovePlain
  <2>1. UNCHANGED <<committed, pc, position, batch, missed>>
    BY <1>6 DEF Publish, Tick, ClockBack, GzipPublish, RemovePlain, process, history
  <2> QED  BY <1>1, <1>5, <2>1 DEF PhaseInv
<1>7. CASE BeginFlush \/ Rotate \/ WriteLine \/ Sync
  BY <1>5, <1>7 DEF BeginFlush, Rotate, WriteLine, Sync, history
<1>8. CASE Crash \/ Start \/ ShortWrite
  BY <1>1, <1>8 DEF Crash, Start, ShortWrite, Gone
<1>9. CASE UNCHANGED vars
  BY <1>1, <1>5, <1>9 DEF vars, process, history, PhaseInv
<1> QED  BY <1>2, <1>3, <1>4, <1>6, <1>7, <1>8, <1>9 DEF Next, Finalize, Flush

LEMMA ClockStep ==
    ASSUME FilesInv, HistoryInv, ClockInv, [Next]_vars
    PROVE  ClockInv'
<1>0. curKey \in Int /\ hour \in Int /\ plainHours \subseteq Int /\ gzHours \subseteq Int
  BY DEF FilesInv, TypeInv, Hours
<1>1. CASE ClockBack
  BY <1>1 DEF ClockBack, HistoryInv, ClockInv
<1>2. ASSUME ~ClockBack PROVE clockBacks' = clockBacks
  BY <1>2 DEF Next, Publish, Tick, ClockBack, Crash, Start, Finalize, GzipPublish, RemovePlain,
     Join, Fetch, Flush, BeginFlush, Rotate, WriteLine, Sync, Commit, ShortWrite, bounds, vars
<1> SUFFICES ASSUME clockBacks = 0, clockBacks' = 0, ~ClockBack
             PROVE  /\ curKey' <= hour' /\ late' = {}
                    /\ \A h \in plainHours' : h <= curKey'
                    /\ \A h \in gzHours' : h < curKey'
  BY <1>1, <1>2 DEF ClockInv
<1>3. /\ curKey <= hour /\ late = {}
      /\ \A h \in plainHours : h <= curKey
      /\ \A h \in gzHours : h < curKey
  BY DEF ClockInv
<1>4. CASE Tick
  <2>1. hour' = hour + 1 /\ UNCHANGED <<curKey, late, plainHours, gzHours>>
    BY <1>4 DEF Tick, process, disk, history
  <2> QED  BY <1>0, <1>3, <2>1
<1>5. CASE Start
  <2>1. curKey' = hour /\ UNCHANGED <<hour, late, plainHours, gzHours>>
    BY <1>5 DEF Start, disk, history
  <2> QED  BY <1>0, <1>3, <2>1
<1>6. CASE Rotate
  <2>1. curKey' = hour /\ plainHours' = plainHours \cup {hour} /\ UNCHANGED <<hour, late, gzHours>>
    BY <1>6 DEF Rotate, history
  <2> QED  BY <1>0, <1>3, <2>1
<1>7. CASE GzipPublish
  <2>1. PICK h \in Stale \ gzHours : gzHours' = gzHours \cup {h}  BY <1>7 DEF GzipPublish
  <2>2. h \in plainHours /\ h # curKey  BY DEF Stale
  <2>3. UNCHANGED <<curKey, hour, late, plainHours>>  BY <1>7 DEF GzipPublish, process, history
  <2> QED  BY <1>0, <1>3, <2>1, <2>2, <2>3
<1>8. CASE RemovePlain
  <2>1. plainHours' \subseteq plainHours /\ UNCHANGED <<curKey, hour, late, gzHours>>
    BY <1>8 DEF RemovePlain, process, history
  <2> QED  BY <1>3, <2>1
<1>9. CASE WriteLine
  <2>1. /\ late' = IF curKey \in gzHours THEN late \cup {Next1} ELSE late
        /\ UNCHANGED <<curKey, hour, plainHours, gzHours>>
    BY <1>9 DEF WriteLine
  <2>2. curKey \notin gzHours  BY <1>0, <1>3
  <2> QED  BY <1>3, <2>1, <2>2
<1>10. CASE \/ Publish \/ Crash \/ Join \/ Fetch \/ BeginFlush \/ Sync \/ Commit \/ ShortWrite
            \/ UNCHANGED vars
  <2>1. UNCHANGED <<curKey, hour, late, plainHours, gzHours>>
    BY <1>10 DEF Publish, Crash, Join, Fetch, BeginFlush, Sync, Commit, ShortWrite, Gone, vars,
       process, disk, history
  <2> QED  BY <1>3, <2>1
<1> QED
  BY <1>4, <1>5, <1>6, <1>7, <1>8, <1>9, <1>10 DEF Next, Finalize, Flush

-----------------------------------------------------------------------------
(***************************************************************************)
(* Steps: messages are settled on the way to their commit.                 *)
(***************************************************************************)

\* In a clean run the batch begins with the first message that is not committed.
LEMMA BatchBeginsWithFirst ==
    ASSUME FilesInv, BatchInv, Running, Clean, batch # <<>>
    PROVE  Base = First - 1 /\ batch[1] = First /\ First \in Offsets
<1>1. Len(batch) \in Nat /\ 1 \in 1 .. Len(batch) /\ committed \in {None} \cup Nat /\ Base \in Nat
  BY DEF FilesInv, TypeInv, BatchInv
<1>2. Base = First - 1
  <2>1. CASE committed = None
    <3>1. 1 .. Base \subseteq {}  BY <2>1 DEF BatchInv, Clean
    <3>2. Base = 0  BY <1>1, <3>1
    <3> QED  BY <2>1, <3>2 DEF First
  <2>2. CASE committed # None
    <3>1. Base = committed /\ First = committed + 1  BY <2>2 DEF BatchInv, First
    <3> QED  BY <1>1, <2>2, <3>1
  <2> QED  BY <2>1, <2>2
<1>3. batch[1] = Base + 1 /\ batch[1] \in Offsets  BY <1>1, BatchIsDelivered
<1>4. First \in Int  BY <1>1 DEF First, None
<1> HIDE DEF Base, First
<1>5. Base + 1 = First  BY <1>1, <1>2, <1>4
<1> QED  BY <1>2, <1>3, <1>5

\* A written line is behind everything that was in the file or on its way to it.
LEMMA WrittenStream ==
    ASSUME FilesInv, PhaseInv, BatchInv, WriteLine
    PROVE  /\ plain'[curKey] \o buf' = (plain[curKey] \o buf) \o Line(Next1)
           /\ plain[curKey] \in Seq(Token) /\ plain[curKey] \o buf \in Seq(Token)
           /\ \A h \in Hours : h # curKey => plain'[h] = plain[h]
           /\ open /\ open' /\ curKey' = curKey /\ curKey \in plainHours /\ Stale = {}
           /\ Next1 \in Offsets /\ Next1 \in 1 .. MaxLog
<1> DEFINE p == buf \o Line(Next1)
           n == Spilled(p)
<1>1. /\ pc \in {"write", "rotating"} /\ Remaining /\ (pc = "write" => open)
      /\ (pc = "rotating" => Stale = {})
      /\ plain' = [plain EXCEPT ![curKey] = @ \o SubSeq(p, 1, n)]
      /\ buf' = SubSeq(p, n + 1, Len(p))
      /\ UNCHANGED <<curKey, open>>
  BY DEF WriteLine, NeedsRotation
<1>2. /\ plain \in [Hours -> Seq(Token)] /\ buf \in Seq(Token) /\ curKey \in Hours
  BY DEF FilesInv, TypeInv
<1>3. Running /\ open /\ curKey \in plainHours /\ Stale = {}
  BY <1>1 DEF PhaseInv, Running
<1>4. Next1 \in Offsets /\ Next1 \in 1 .. MaxLog  BY <1>1, <1>3, NextIsDelivered
<1>5. Line(Next1) \in Seq(Token) /\ p \in Seq(Token) /\ Len(p) = Len(buf) + 2
  BY <1>2, <1>4, LineTokens, LineBehind
<1> HIDE DEF p
<1>6. n \in 0 .. Len(p)
  <2>1. Len(buf) \in Nat  BY <1>2
  <2>2. Len(p) > 0 /\ Len(p) \in Nat  BY <1>5, <2>1
  <2>3. n \in 0 .. (Len(p) - 1)  BY <1>5, <2>2, SpilledIsPrefix
  <2> QED  BY <2>2, <2>3
<1> HIDE DEF n
<1>7. plain[curKey] \in Seq(Token)  BY <1>2
<1>8. plain'[curKey] = plain[curKey] \o SubSeq(p, 1, n)  BY <1>1, <1>2
<1>9. plain'[curKey] \o buf' = plain[curKey] \o p
  <2> DEFINE f == plain[curKey]
  <2>1. f \in Seq(Token)  BY <1>7
  <2> HIDE DEF f
  <2>2. (f \o SubSeq(p, 1, n)) \o SubSeq(p, n + 1, Len(p)) = f \o p
    BY <1>5, <1>6, <2>1, SplitStream
  <2>3. buf' = SubSeq(p, n + 1, Len(p))  BY <1>1
  <2>4. plain'[curKey] = f \o SubSeq(p, 1, n)  BY <1>8 DEF f
  <2>5. plain'[curKey] \o buf' = f \o p  BY <2>2, <2>3, <2>4
  <2> QED  BY <2>5 DEF f
<1>10. plain[curKey] \o p = (plain[curKey] \o buf) \o Line(Next1)
  BY <1>2, <1>5, <1>7, ConcatAssociates DEF p
<1>11. \A h \in Hours : h # curKey => plain'[h] = plain[h]  BY <1>1, <1>2
<1>12. plain[curKey] \o buf \in Seq(Token)  BY <1>2, <1>7
<1> QED  BY <1>1, <1>3, <1>4, <1>7, <1>9, <1>10, <1>11, <1>12

\* Only a batch's first line can meet a torn one.
LEMMA OnlyFirstIsGlued ==
    ASSUME FilesInv, PhaseInv, BatchInv, WriteLine, Torn(plain[curKey] \o buf)
    PROVE  written = 0 /\ buf = <<>> /\ Torn(plain[curKey]) /\ Next1 = batch[1]
<1>1. /\ plain[curKey] \in Seq(Token) /\ buf \in Seq(Token) /\ written \in Nat
      /\ pc \in {"write", "rotating"}
  BY DEF FilesInv, TypeInv, WriteLine
<1>2. buf = <<>>
  <2> SUFFICES ASSUME buf # <<>> PROVE FALSE  OBVIOUS
  <2>1. buf[Len(buf)].part = "text"  BY <1>1, TornAppendix
  <2>2. buf[Len(buf)].part = "end"  BY <1>1 DEF PhaseInv
  <2> QED  BY <2>1, <2>2
<1>3. Torn(plain[curKey])
  <2>1. plain[curKey] \o buf = plain[curKey]  BY <1>1, <1>2, TornAppendix
  <2> QED  BY <2>1
<1>4. written = 0
  <2>1. CASE pc = "write"  BY <1>1, <1>2, <2>1 DEF PhaseInv
  <2>2. CASE pc = "rotating"  BY <1>1, <1>3, <2>2 DEF PhaseInv, Torn
  <2> QED  BY <1>1, <2>1, <2>2
<1> QED  BY <1>2, <1>3, <1>4 DEF Next1

\* A line is settled or on its way as soon as it is written.
LEMMA WrittenLine ==
    ASSUME FilesInv, AccountInv, WriteLine, [Next]_vars, NEW o, o = Next1
    PROVE  HasLine(plain'[curKey] \o buf', o) \/ (o \in glued' /\ Settled(o)')
<1> USE DEF AccountInv
<1>1. /\ plain'[curKey] \o buf' = (plain[curKey] \o buf) \o Line(Next1)
      /\ plain[curKey] \o buf \in Seq(Token) /\ Next1 \in 1 .. MaxLog
      /\ curKey \in Hours /\ pc \in {"write", "rotating"} /\ Remaining
  BY WrittenStream DEF WriteLine, FilesInv, TypeInv
<1>2. CASE ~Torn(plain[curKey] \o buf)
  <2>1. /\ Line(Next1) \in Seq(Token) /\ Len(Line(Next1)) >= 2
        /\ Line(Next1)[1] = Text(Next1) /\ Line(Next1)[2] = End(Next1)
    BY <1>1, LineTokens
  <2> QED  BY <1>1, <1>2, <2>1, LineBehindWholeLine
<1>3. CASE Torn(plain[curKey] \o buf)
  <2>1. o \in glued'  BY <1>3 DEF WriteLine
  <2>2. CASE ~Clean'  BY <2>1, <2>2 DEF Settled
  <2>3. CASE Clean'
    <3>1. Clean  BY <2>3, RecordedSteps
    <3>2. Torn(plain[curKey]) /\ Next1 = batch[1]  BY <1>3, OnlyFirstIsGlued
    <3>3. FirstSafe  BY <1>1, <3>1, <3>2 DEF TornInv
    <3>4. batch # <<>>  BY <1>1 DEF FilesInv, TypeInv, Remaining
    <3>5. Next1 = First  BY <1>1, <3>1, <3>2, <3>4, BatchBeginsWithFirst DEF Running
    <3>6. o \in Archived' \cup late'  BY <3>3, <3>5, SettledStays DEF FirstSafe
    <3> QED  BY <2>1, <3>6 DEF Settled
  <2> QED  BY <2>1, <2>2, <2>3
<1> QED  BY <1>2, <1>3

LEMMA SettledStep ==
    ASSUME FilesInv, AccountInv, [Next]_vars
    PROVE  SettledInv'
<1> USE DEF AccountInv
<1>0. /\ plain \in [Hours -> Seq(Token)] /\ buf \in Seq(Token)
      /\ curKey \in Hours /\ plainHours \subseteq Hours /\ batch \in Seq(1 .. MaxLog)
      /\ written \in 0 .. Len(batch) /\ Len(batch) \in Nat
      /\ published \in Nat /\ committed \in {None} \cup Nat /\ position \in Nat
      /\ committed = None \/ committed <= published
  BY DEF FilesInv, TypeInv
<1>1. \A o : Settled(o) => Settled(o)'  BY SettledStays
<1>2. (\A o \in Offsets : Committed(o) => Settled(o))  BY DEF SettledInv
<1>3. ASSUME UNCHANGED committed
      PROVE  \A o \in Offsets' : Committed(o)' => Settled(o)'
  <2> SUFFICES ASSUME NEW o \in Offsets', Committed(o)' PROVE Settled(o)'  OBVIOUS
  <2>1. published' \in Nat  BY RecordedSteps DEF HistoryInv
  <2>2. o \in Offsets /\ Committed(o)  BY <1>0, <1>3, <2>1 DEF Committed, Offsets
  <2> QED  BY <1>1, <1>2, <2>2
<1>4. ASSUME UNCHANGED <<pc, written, batch, curKey, open, buf>>, plain'[curKey] = plain[curKey],
             UNCHANGED committed
      PROVE  SettledInv'
  <2>1. \A o : InStream(o) => InStream(o)'  BY <1>4 DEF InStream
  <2>2. ASSUME pc' \in {"write", "rotating"}, NEW i \in 1 .. written'
        PROVE  Settled(batch[i])' \/ InStream(batch[i])'
    <3>1. Settled(batch[i]) \/ InStream(batch[i])  BY <1>4, <2>2 DEF SettledInv
    <3>2. batch'[i] = batch[i]  BY <1>4
    <3> QED  BY <1>1, <2>1, <3>1, <3>2
  <2>3. ASSUME pc' = "commit", NEW i \in 1 .. Len(batch')
        PROVE  Settled(batch[i])'
    <3>1. Settled(batch[i]) /\ batch'[i] = batch[i]  BY <1>4, <2>3 DEF SettledInv
    <3> QED  BY <1>1, <3>1
  <2> QED  BY <1>3, <1>4, <2>2, <2>3 DEF SettledInv
<1>5. ASSUME pc' \in {"down", "startup", "fetch"}, UNCHANGED committed
      PROVE  SettledInv'
  BY <1>3, <1>5 DEF SettledInv
<1>6. CASE Publish \/ Tick \/ ClockBack \/ UNCHANGED vars
  BY <1>4, <1>6 DEF Publish, Tick, ClockBack, vars, process, disk
<1>7. CASE Crash \/ Start \/ Join \/ Fetch \/ ShortWrite
  BY <1>5, <1>7 DEF Crash, Start, Join, Fetch, ShortWrite, Gone
<1>8. CASE GzipPublish
  BY <1>4, <1>8 DEF GzipPublish, process
<1>9. CASE RemovePlain
  <2>1. PICK h \in Stale : plain' = [plain EXCEPT ![h] = <<>>]  BY <1>9 DEF RemovePlain
  <2>2. plain'[curKey] = plain[curKey]  BY <1>0, <2>1 DEF Stale
  <2> QED  BY <1>4, <1>9, <2>2 DEF RemovePlain, process
<1>10. CASE BeginFlush
  <2>1. pc' = "write" /\ written' = 0 /\ committed' = committed  BY <1>10 DEF BeginFlush
  <2>2. 1 .. written' = {}  BY <2>1
  <2> QED  BY <1>3, <2>1, <2>2 DEF SettledInv
<1>11. CASE Rotate
  <2>1. /\ pc = "write" /\ pc' = "rotating"
        /\ plain' = IF open THEN [plain EXCEPT ![curKey] = @ \o buf] ELSE plain
        /\ plainHours' = plainHours \cup {hour}
        /\ UNCHANGED <<published, committed, batch, written>>
    BY <1>11 DEF Rotate
  <2>2. ASSUME NEW o \in Offsets, InStream(o) PROVE Settled(o)'
    <3>1. open /\ HasLine(plain'[curKey], o)  BY <1>0, <2>1, <2>2 DEF InStream
    <3>2. curKey \in plainHours'  BY <2>1, <3>1 DEF PhaseInv
    <3>3. o \in Archived'  BY <1>0, <2>1, <3>1, <3>2 DEF Archived, Offsets, Hours
    <3> QED  BY <3>3 DEF Settled
  <2>3. ASSUME NEW i \in 1 .. written' PROVE Settled(batch[i])'
    <3>1. Settled(batch[i]) \/ InStream(batch[i])  BY <2>1, <2>3 DEF SettledInv
    <3>2. batch'[i] = batch[i] /\ batch[i] \in Offsets
      <4>1. i \in 1 .. Len(batch)  BY <1>0, <2>1, <2>3
      <4> QED  BY <2>1, <4>1, BatchIsDelivered DEF Running
    <3> QED  BY <1>1, <2>2, <3>1, <3>2
  <2> QED  BY <1>3, <2>1, <2>3 DEF SettledInv
<1>12. CASE WriteLine
  <2>1. /\ pc \in {"write", "rotating"} /\ pc' = "write" /\ written' = written + 1
        /\ UNCHANGED <<committed, batch>>
    BY <1>12 DEF WriteLine
  <2>2. /\ plain'[curKey] \o buf' = (plain[curKey] \o buf) \o Line(Next1)
        /\ plain[curKey] \o buf \in Seq(Token) /\ open' /\ curKey' = curKey
        /\ Line(Next1) \in Seq(Token)
    BY <1>12, WrittenStream, LineTokens
  <2>3. \A o : InStream(o) => InStream(o)'
    BY <2>2, AppendKeepsLines DEF InStream
  <2>4. ASSUME NEW i \in 1 .. written' PROVE Settled(batch[i])' \/ InStream(batch[i])'
    <3>1. batch'[i] = batch[i]  BY <2>1
    <3>2. CASE i \in 1 .. written
      <4>1. Settled(batch[i]) \/ InStream(batch[i])  BY <2>1, <3>2 DEF SettledInv
      <4> QED  BY <1>1, <2>3, <3>1, <4>1
    <3>3. CASE i \notin 1 .. written
      <4>1. i = written + 1  BY <1>0, <2>1, <3>3
      <4>2. batch[i] = Next1  BY <4>1 DEF Next1
      <4>3. HasLine(plain'[curKey] \o buf', batch[i]) \/ Settled(batch[i])'
        <5>1. PICK o : o = batch[i]  OBVIOUS
        <5>2. HasLine(plain'[curKey] \o buf', o) \/ Settled(o)'
          BY <1>12, <4>2, <5>1, WrittenLine
        <5>3. Settled(o)' => Settled(batch[i])'  BY <3>1, <5>1 DEF Settled
        <5> QED  BY <5>1, <5>2, <5>3
      <4> QED  BY <2>2, <3>1, <4>3 DEF InStream
    <3> QED  BY <3>2, <3>3
  <2> QED  BY <1>3, <2>1, <2>4 DEF SettledInv
<1>13. CASE Sync
  <2>1. /\ pc = "write" /\ pc' = "commit" /\ ~Remaining
        /\ plain' = [plain EXCEPT ![curKey] = @ \o buf]
        /\ UNCHANGED <<published, committed, batch, written, plainHours>>
    BY <1>13 DEF Sync
  <2>2. ASSUME NEW o \in Offsets, InStream(o) PROVE Settled(o)'
    <3>1. open /\ HasLine(plain'[curKey], o)  BY <1>0, <2>1, <2>2 DEF InStream
    <3>2. curKey \in plainHours'  BY <2>1, <3>1 DEF PhaseInv
    <3>3. o \in Archived'  BY <1>0, <2>1, <3>1, <3>2 DEF Archived, Offsets, Hours
    <3> QED  BY <3>3 DEF Settled
  <2>3. ASSUME NEW i \in 1 .. Len(batch') PROVE Settled(batch[i])'
    <3>1. i \in 1 .. written /\ i \in 1 .. Len(batch)  BY <1>0, <2>1, <2>3 DEF Remaining
    <3>2. Settled(batch[i]) \/ InStream(batch[i])  BY <2>1, <3>1 DEF SettledInv
    <3>3. batch'[i] = batch[i] /\ batch[i] \in Offsets
      BY <2>1, <3>1, BatchIsDelivered DEF Running
    <3> QED  BY <1>1, <2>2, <3>2, <3>3
  <2> QED  BY <1>3, <2>1, <2>3 DEF SettledInv
<1>14. CASE Commit
  <2>1. pc = "commit" /\ pc' = "fetch" /\ committed' = position /\ published' = published
    BY <1>14 DEF Commit
  <2>2. ASSUME NEW o \in Offsets', Committed(o)' PROVE Settled(o)'
    <3>1. o \in Offsets /\ o \in Nat /\ o >= 1 /\ o <= position
      BY <1>0, <2>1, <2>2 DEF Committed, Offsets
    <3>2. Base \in Nat /\ Base + Len(batch) = position  BY <1>0, <2>1 DEF BatchInv, Running, Base
    <3>3. CASE o <= Base
      <4>1. CASE committed = None
        <5>1. o \in missed  BY <2>1, <3>1, <3>2, <3>3, <4>1 DEF BatchInv, Running
        <5>2. Settled(o)  BY <5>1 DEF Settled
        <5> QED  BY <1>1, <5>2
      <4>2. CASE committed # None
        <5>1. Committed(o)  BY <2>1, <3>3, <4>2 DEF BatchInv, Running, Committed
        <5> QED  BY <1>1, <1>2, <3>1, <5>1
      <4> QED  BY <4>1, <4>2
    <3>4. CASE o > Base
      <4> DEFINE i == o - Base
      <4>1. i \in 1 .. Len(batch) /\ Base + i = o  BY <1>0, <3>1, <3>2, <3>4
      <4> HIDE DEF i
      <4>2. batch[i] = o  BY <2>1, <4>1, BatchIsDelivered DEF Running
      <4>3. Settled(o)  BY <2>1, <4>1, <4>2 DEF SettledInv
      <4> QED  BY <1>1, <4>3
    <3> QED  BY <3>1, <3>2, <3>3, <3>4
  <2> QED  BY <2>1, <2>2 DEF SettledInv
<1> QED
  BY <1>6, <1>7, <1>8, <1>9, <1>10, <1>11, <1>12, <1>13, <1>14 DEF Next, Finalize, Flush

-----------------------------------------------------------------------------
(***************************************************************************)
(* Steps: whatever a kill tears, the first line of the batch is whole.     *)
(***************************************************************************)

\* As long as the same message is next, an archived one stays archived.
LEMMA FirstSafeStays ==
    ASSUME FilesInv, HistoryInv, BatchInv, [Next]_vars, UNCHANGED committed
    PROVE  First' = First /\ (FirstSafe => FirstSafe')
<1>1. First' = First  BY DEF First
<1> QED  BY <1>1, SettledStays DEF FirstSafe

\* The first line, whole in the open file, is in the archive.
LEMMA FirstIsArchived ==
    ASSUME FilesInv, AccountInv, [Next]_vars, UNCHANGED committed,
           First \in Offsets, open, curKey \in plainHours', HasLine(plain'[curKey], First)
    PROVE  FirstSafe'
<1>1. First' = First  BY DEF First
<1>2. curKey \in Hours /\ published \in Nat  BY DEF FilesInv, TypeInv, AccountInv, HistoryInv
<1>3. First \in Offsets'
  <2>1. published' \in Nat /\ published <= published'
    BY RecordedSteps DEF AccountInv, HistoryInv
  <2> HIDE DEF First
  <2> QED  BY <1>2, <2>1 DEF Offsets
<1>4. First \in Archived'  BY <1>2, <1>3 DEF Archived, Hours
<1> QED  BY <1>1, <1>4 DEF FirstSafe

LEMMA TornWrite ==
    ASSUME FilesInv, AccountInv, WriteLine, [Next]_vars, Clean, ~FirstSafe, ~FirstSafe'
    PROVE  /\ plain'[curKey] = plain[curKey]
           /\ ~Torn(plain[curKey])
           /\ Len(buf') >= 2 /\ buf'[1] = Text(First) /\ buf'[2] = End(First)
<1> USE DEF AccountInv
<1> DEFINE p == buf \o Line(Next1)
           n == Spilled(p)
<1>1. /\ pc \in {"write", "rotating"} /\ Remaining
      /\ plain' = [plain EXCEPT ![curKey] = @ \o SubSeq(p, 1, n)]
      /\ buf' = SubSeq(p, n + 1, Len(p))
      /\ UNCHANGED <<committed, plainHours>>
  BY DEF WriteLine
<1>2. /\ plain \in [Hours -> Seq(Token)] /\ buf \in Seq(Token) /\ curKey \in Hours
      /\ plain[curKey] \in Seq(Token) /\ written \in Nat /\ Len(buf) \in Nat
  BY DEF FilesInv, TypeInv
<1>3. ~Torn(plain[curKey])  BY <1>2 DEF TornInv
<1>4. open /\ curKey \in plainHours /\ Next1 \in 1 .. MaxLog  BY WrittenStream
<1>5. First \in Offsets /\ batch[1] = First
  <2>1. batch # <<>>  BY <1>1 DEF FilesInv, TypeInv, Remaining
  <2> QED  BY <1>1, <2>1, BatchBeginsWithFirst DEF Running
<1>6. /\ p \in Seq(Token) /\ Len(p) = Len(buf) + 2
      /\ \A j \in 1 .. Len(buf) : p[j] = buf[j]
      /\ p[Len(buf) + 1] = Text(Next1) /\ p[Len(buf) + 2] = End(Next1)
  BY <1>2, <1>4, LineBehind
<1> HIDE DEF p
<1>7. p[1] = Text(First) /\ p[2] = End(First)
  <2>1. CASE written = 0
    <3>1. buf = <<>> /\ Next1 = First  BY <1>1, <1>5, <2>1 DEF PhaseInv, Next1
    <3>2. Len(buf) = 0  BY <3>1
    <3> QED  BY <1>6, <3>1, <3>2
  <2>2. CASE written > 0
    <3>1. Len(buf) >= 2 /\ buf[1] = Text(First) /\ buf[2] = End(First)
      BY <1>1, <2>2 DEF TornInv
    <3>2. 1 \in 1 .. Len(buf) /\ 2 \in 1 .. Len(buf)  BY <1>2, <3>1
    <3> QED  BY <1>6, <3>1, <3>2
  <2> QED  BY <1>2, <2>1, <2>2
<1>8. Len(p) \in Nat /\ Len(p) >= 2  BY <1>2, <1>6
<1>9. n \in 0 .. (Len(p) - 1) /\ (n = 0 \/ n >= 2)
  BY <1>6, <1>8, SpilledIsPrefix, SpilledBuffers
<1> HIDE DEF n
<1>10. n = 0
  <2> SUFFICES ASSUME n >= 2 PROVE FALSE  BY <1>9
  <2>1. 1 \in 1 .. Len(p) + 1 /\ n \in 0 .. Len(p) /\ 1 <= n + 1 /\ n + 1 - 1 = n
        /\ 1 \in 1 .. n /\ 2 \in 1 .. n
    BY <1>8, <1>9
  <2>2. /\ SubSeq(p, 1, n) \in Seq(Token) /\ Len(SubSeq(p, 1, n)) = n + 1 - 1
        /\ \A j \in 1 .. n + 1 - 1 : SubSeq(p, 1, n)[j] = p[j + 1 - 1]
    BY <1>6, <2>1, PartOf
  <2>3. Len(SubSeq(p, 1, n)) >= 2 /\ SubSeq(p, 1, n)[1] = p[1] /\ SubSeq(p, 1, n)[2] = p[2]
    BY <2>1, <2>2
  <2>4. plain'[curKey] = plain[curKey] \o SubSeq(p, 1, n)  BY <1>1, <1>2
  <2>5. HasLine(plain'[curKey], First)
    BY <1>2, <1>3, <1>7, <2>2, <2>3, <2>4, LineBehindWholeLine
  <2> QED  BY <1>1, <1>4, <1>5, <2>5, FirstIsArchived
<1>11. SubSeq(p, 1, n) = <<>>  BY <1>6, <1>10
<1>12. plain'[curKey] = plain[curKey]
  <2>1. plain'[curKey] = plain[curKey] \o SubSeq(p, 1, n)  BY <1>1, <1>2
  <2>2. plain[curKey] \o <<>> = plain[curKey]  BY <1>2
  <2> QED  BY <1>11, <2>1, <2>2
<1>13. buf' = p
  <2>1. buf' = SubSeq(p, 1, Len(p))  BY <1>1, <1>10
  <2>2. 1 \in 1 .. Len(p) + 1 /\ Len(p) \in 0 .. Len(p) /\ 1 <= Len(p) + 1
        /\ Len(p) + 1 - 1 = Len(p) /\ \A j \in 1 .. Len(p) : j + 1 - 1 = j
    BY <1>8
  <2>3. /\ SubSeq(p, 1, Len(p)) \in Seq(Token) /\ Len(SubSeq(p, 1, Len(p))) = Len(p) + 1 - 1
        /\ \A j \in 1 .. Len(p) + 1 - 1 : SubSeq(p, 1, Len(p))[j] = p[j + 1 - 1]
    BY <1>6, <2>2, PartOf
  <2> QED  BY <1>6, <2>1, <2>2, <2>3, SeqEqual
<1> QED  BY <1>3, <1>7, <1>8, <1>12, <1>13

LEMMA TornStep ==
    ASSUME FilesInv, AccountInv, [Next]_vars
    PROVE  TornInv'
<1> USE DEF AccountInv
<1> SUFFICES ASSUME Clean'
             PROVE  /\ \A h \in Hours : Torn(plain'[h]) => FirstSafe'
                    /\ pc' \in {"write", "rotating"} /\ written' > 0 =>
                           \/ FirstSafe'
                           \/ /\ open' /\ ~Torn(plain'[curKey'])
                              /\ Len(buf') >= 2
                              /\ buf'[1] = Text(First') /\ buf'[2] = End(First')
  BY DEF TornInv, Hours, Torn, Text, End
<1>0. /\ plain \in [Hours -> Seq(Token)] /\ buf \in Seq(Token)
      /\ curKey \in Hours /\ hour \in Hours /\ plainHours \subseteq Hours /\ written \in Nat
  BY DEF FilesInv, TypeInv
<1>1. Clean /\ (UNCHANGED committed => First' = First /\ (FirstSafe => FirstSafe'))
  BY RecordedSteps, FirstSafeStays
<1>2. /\ \A h \in Hours : Torn(plain[h]) => FirstSafe
      /\ pc \in {"write", "rotating"} /\ written > 0 =>
             \/ FirstSafe
             \/ /\ open /\ ~Torn(plain[curKey])
                /\ Len(buf) >= 2 /\ buf[1] = Text(First) /\ buf[2] = End(First)
  BY <1>1 DEF TornInv
<1>3. ASSUME UNCHANGED <<committed, plain>>,
             \/ UNCHANGED <<pc, written, open, curKey, buf>>
             \/ pc' \notin {"write", "rotating"} \/ written' = 0
      PROVE  /\ \A h \in Hours : Torn(plain'[h]) => FirstSafe'
             /\ pc' \in {"write", "rotating"} /\ written' > 0 =>
                    \/ FirstSafe'
                    \/ /\ open' /\ ~Torn(plain'[curKey'])
                       /\ Len(buf') >= 2
                       /\ buf'[1] = Text(First') /\ buf'[2] = End(First')
  <2>1. \A h \in Hours : Torn(plain'[h]) => FirstSafe'  BY <1>1, <1>2, <1>3
  <2>2. CASE UNCHANGED <<pc, written, open, curKey, buf>>  BY <1>1, <1>2, <1>3, <2>1, <2>2
  <2>3. CASE pc' \notin {"write", "rotating"} \/ written' = 0  BY <2>1, <2>3
  <2> QED  BY <1>3, <2>2, <2>3
<1>4. CASE Publish \/ Tick \/ ClockBack \/ GzipPublish \/ UNCHANGED vars
  BY <1>3, <1>4 DEF Publish, Tick, ClockBack, GzipPublish, vars, process, disk
<1>5. CASE Crash \/ Start \/ Join \/ Fetch \/ BeginFlush
  <2>1. UNCHANGED <<committed, plain>>
        /\ (pc' \notin {"write", "rotating"} \/ written' = 0)
    BY <1>5 DEF Crash, Start, Join, Fetch, BeginFlush, Gone, disk, PhaseInv
  <2> QED  BY <1>3, <2>1
<1>6. CASE RemovePlain
  <2>1. UNCHANGED <<committed, pc, written, open, curKey, buf>>
    BY <1>6 DEF RemovePlain, process
  <2>2. PICK h \in Stale : plain' = [plain EXCEPT ![h] = <<>>]  BY <1>6 DEF RemovePlain
  <2>3. /\ plain'[curKey] = plain[curKey]
        /\ \A g \in Hours : plain'[g] = plain[g] \/ plain'[g] = <<>>
    BY <1>0, <2>2 DEF Stale
  <2>4. ASSUME NEW g \in Hours, Torn(plain'[g]) PROVE FirstSafe'
    <3>1. Torn(plain[g])  BY <2>3, <2>4 DEF Torn
    <3> QED  BY <1>1, <1>2, <2>1, <3>1
  <2> QED  BY <1>1, <1>2, <2>1, <2>3, <2>4
<1>7. CASE Rotate
  <2>1. /\ pc = "write" /\ pc' = "rotating"
        /\ plain' = IF open THEN [plain EXCEPT ![curKey] = @ \o buf] ELSE plain
        /\ plainHours' = plainHours \cup {hour}
        /\ Remaining /\ UNCHANGED <<committed, written>>
    BY <1>7 DEF Rotate
  <2>2. ASSUME NEW h \in Hours, Torn(plain'[h]) PROVE FirstSafe'
    <3>1. CASE plain'[h] = plain[h]  BY <1>1, <1>2, <2>1, <2>2, <3>1
    <3>2. CASE plain'[h] # plain[h]
      <4>1. open /\ h = curKey /\ plain'[h] = plain[h] \o buf  BY <1>0, <2>1, <3>2
      <4>2. buf # <<>>  BY <1>0, <3>2, <4>1, TornAppendix
      <4>3. buf[Len(buf)].part = "end"  BY <1>0, <2>1, <4>2 DEF PhaseInv
      <4>4. buf[Len(buf)].part = "text"  BY <1>0, <2>2, <4>1, <4>2, TornAppendix
      <4> QED  BY <4>3, <4>4
    <3> QED  BY <3>1, <3>2
  <2>3. ASSUME written' > 0 PROVE FirstSafe'
    <3>1. CASE FirstSafe  BY <1>1, <2>1, <3>1
    <3>2. CASE /\ open /\ ~Torn(plain[curKey])
               /\ Len(buf) >= 2 /\ buf[1] = Text(First) /\ buf[2] = End(First)
      <4>1. plain'[curKey] = plain[curKey] \o buf  BY <1>0, <2>1, <3>2
      <4>2. HasLine(plain'[curKey], First)  BY <1>0, <3>2, <4>1, LineBehindWholeLine
      <4>3. First \in Offsets
        <5>1. batch # <<>>  BY <2>1 DEF FilesInv, TypeInv, Remaining
        <5> QED  BY <1>1, <2>1, <5>1, BatchBeginsWithFirst DEF Running
      <4>4. curKey \in plainHours'  BY <2>1, <3>2 DEF PhaseInv
      <4> QED  BY <2>1, <3>2, <4>2, <4>3, <4>4, FirstIsArchived
    <3> QED  BY <1>2, <2>1, <2>3, <3>1, <3>2
  <2> QED  BY <2>2, <2>3
<1>8. CASE WriteLine
  <2>1. UNCHANGED <<committed, curKey>> /\ open' /\ \A h \in Hours : h # curKey => plain'[h] = plain[h]
    BY <1>8, WrittenStream DEF WriteLine
  <2>2. CASE FirstSafe \/ FirstSafe'  BY <1>1, <2>1, <2>2
  <2>3. CASE ~FirstSafe /\ ~FirstSafe'
    <3>1. /\ plain'[curKey] = plain[curKey] /\ ~Torn(plain[curKey])
          /\ Len(buf') >= 2 /\ buf'[1] = Text(First) /\ buf'[2] = End(First)
      BY <1>1, <1>8, <2>3, TornWrite
    <3>2. \A h \in Hours : plain'[h] = plain[h]  BY <2>1, <3>1
    <3>3. First' = First  BY <1>1, <2>1
    <3> QED  BY <1>2, <2>1, <2>3, <3>1, <3>2, <3>3
  <2> QED  BY <2>2, <2>3
<1>9. CASE ShortWrite
  <2>1. shortWrites' = shortWrites + 1 /\ shortWrites \in Nat  BY <1>9 DEF ShortWrite, HistoryInv
  <2> QED  BY <2>1 DEF Clean
<1>10. CASE Sync
  <2>1. /\ pc = "write" /\ pc' = "commit" /\ ~Remaining
        /\ plain' = [plain EXCEPT ![curKey] = @ \o buf]
        /\ UNCHANGED committed
    BY <1>10 DEF Sync
  <2>2. buf # <<>> /\ buf[Len(buf)].part = "end"
    <3>1. written > 0
      BY <1>0, <2>1 DEF PhaseInv, Remaining, FilesInv, TypeInv
    <3> QED  BY <2>1, <3>1 DEF PhaseInv
  <2>3. plain'[curKey] = plain[curKey] \o buf /\ \A h \in Hours : h # curKey => plain'[h] = plain[h]
    BY <1>0, <2>1
  <2>4. ~Torn(plain'[curKey])  BY <1>0, <2>2, <2>3, TornAppendix
  <2> QED  BY <1>1, <1>2, <2>1, <2>3, <2>4
<1>11. CASE Commit
  <2>1. pc = "commit" /\ pc' = "fetch" /\ plain' = plain  BY <1>11 DEF Commit, disk
  <2>2. ~Torn(plain[curKey]) /\ \A h \in Hours : h # curKey => plain[h] = <<>>
    BY <2>1 DEF PhaseInv, Stale
  <2> QED  BY <2>1, <2>2 DEF Torn
<1> QED
  BY <1>4, <1>5, <1>6, <1>7, <1>8, <1>9, <1>10, <1>11 DEF Next, Finalize, Flush

-----------------------------------------------------------------------------
(***************************************************************************)
(* Steps: the fsync before the commit.                                     *)
(***************************************************************************)
LEMMA FsyncStep ==
    ASSUME FilesInv, AccountInv, FsyncInv, [Next]_vars
    PROVE  FsyncInv'
<1> USE DEF AccountInv
<1>0. /\ plain \in [Hours -> Seq(Token)] /\ buf \in Seq(Token) /\ curKey \in Hours
      /\ written \in 0 .. Len(batch) /\ Len(batch) \in Nat /\ batch \in Seq(1 .. MaxLog)
  BY DEF FilesInv, TypeInv
<1>1. CASE pc' \notin {"write", "commit"}
  BY <1>1 DEF FsyncInv, FsyncedUnlessRotated
<1>2. CASE Publish \/ Tick \/ ClockBack \/ UNCHANGED vars
  <2>1. UNCHANGED <<pc, batch, written, durable, glued, plain, curKey, buf>>
    BY <1>2 DEF Publish, Tick, ClockBack, vars, process, disk, history
  <2> QED  BY <2>1 DEF FsyncInv, FsyncedUnlessRotated, HasLine, Line
<1>3. CASE BeginFlush
  <2>1. pc' = "write" /\ written' = 0  BY <1>3 DEF BeginFlush
  <2> QED  BY <2>1 DEF FsyncInv, FsyncedUnlessRotated
<1>4. CASE WriteLine
  <2>1. /\ pc' = "write" /\ written' = written + 1 /\ UNCHANGED <<batch, curKey>>
    BY <1>4 DEF WriteLine
  <2>2. PICK o : o = Next1  OBVIOUS
  <2>3. HasLine(plain'[curKey] \o buf', o) \/ o \in glued'  BY <1>4, <2>2, WrittenLine
  <2>4. batch'[written'] = o /\ curKey' = curKey  BY <2>1, <2>2 DEF Next1
  <2>5. batch'[written'] \in glued' \/ HasLine(plain'[curKey'] \o buf', batch'[written'])
    BY <2>3, <2>4
  <2>6. pc' # "commit"  BY <2>1
  <2> QED  BY <2>5, <2>6 DEF FsyncInv, FsyncedUnlessRotated, HasLine, Line
<1>5. CASE Sync
  <2>1. /\ pc = "write" /\ pc' = "commit" /\ ~Remaining
        /\ plain' = [plain EXCEPT ![curKey] = @ \o buf]
        /\ durable' = durable \cup {o \in Offsets : HasLine(plain'[curKey], o)}
        /\ UNCHANGED <<batch, written, curKey, glued>>
    BY <1>5 DEF Sync
  <2>2. plain'[curKey] = plain[curKey] \o buf  BY <1>0, <2>1
  <2>3. written = Len(batch) /\ written > 0
    BY <1>0, <2>1 DEF PhaseInv, Remaining
  <2>4. ASSUME NEW i \in 1 .. Len(batch), batch[i] \notin durable'
        PROVE  ~HasLine(plain'[curKey], batch[i]) /\ (i < Len(batch) \/ batch[i] \in glued)
    <3>1. batch[i] \in Offsets  BY <2>1, BatchIsDelivered DEF Running
    <3>2. ~HasLine(plain'[curKey], batch[i])  BY <2>1, <2>4, <3>1
    <3>3. i = Len(batch) => batch[i] \in glued
      BY <2>1, <2>2, <2>3, <3>2 DEF FsyncInv
    <3> QED  BY <1>0, <3>2, <3>3
  <2> QED  BY <2>1, <2>4 DEF FsyncInv, FsyncedUnlessRotated, HasLine, Line
<1>6. CASE Crash \/ Start \/ Join \/ Fetch \/ Rotate \/ ShortWrite \/ Commit \/ Finalize
  BY <1>1, <1>6 DEF Crash, Start, Join, Fetch, Rotate, ShortWrite, Commit, Finalize, GzipPublish,
     RemovePlain, Finalizing, Gone, process
<1> QED  BY <1>2, <1>3, <1>4, <1>5, <1>6 DEF Next, Flush

LEMMA AccountInitially == Init => AccountInv /\ FsyncInv
<1> SUFFICES ASSUME Init PROVE AccountInv /\ FsyncInv  OBVIOUS
<1> USE DEF Init
<1>1. HistoryInv  BY DEF HistoryInv
<1>2. PhaseInv  BY DEF PhaseInv, Running, Stale
<1>3. BatchInv  BY DEF BatchInv, Running
<1>4. ClockInv  BY DEF ClockInv
<1>5. SettledInv  BY DEF SettledInv, Committed
<1>6. TornInv  BY DEF TornInv, Torn
<1>7. FsyncInv  BY DEF FsyncInv, FsyncedUnlessRotated
<1> QED  BY <1>1, <1>2, <1>3, <1>4, <1>5, <1>6, <1>7 DEF AccountInv

LEMMA AccountStep ==
    ASSUME FilesInv, AccountInv, [Next]_vars
    PROVE  AccountInv'
<1>1. HistoryInv'  BY RecordedSteps DEF AccountInv
<1>2. PhaseInv'  BY PhaseStep DEF AccountInv
<1>3. BatchInv'  BY BatchStep DEF AccountInv
<1>4. ClockInv'  BY ClockStep DEF AccountInv
<1>5. SettledInv' /\ TornInv'  BY SettledStep, TornStep
<1> QED  BY <1>1, <1>2, <1>3, <1>4, <1>5 DEF AccountInv

THEOREM MessagesAreAccountedFor == Spec => [](FilesInv /\ AccountInv /\ FsyncInv)
<1>1. Init => FilesInv /\ AccountInv /\ FsyncInv  BY FilesInitially, AccountInitially
<1>2. FilesInv /\ AccountInv /\ FsyncInv /\ [Next]_vars => (FilesInv /\ AccountInv /\ FsyncInv)'
  BY StepsKeepLines, AccountStep, FsyncStep
<1> QED  BY <1>1, <1>2, PTL DEF Spec

(***************************************************************************)
(* A committed message has an intact line in the archive, through any      *)
(* kills: the exceptions need a clock that stepped back, a write that      *)
(* stopped part-way, or a group that began at "latest".                    *)
(***************************************************************************)
THEOREM CommittedLinesAreIntact == Spec => []CommittedIntact
<1>1. ASSUME FilesInv, AccountInv PROVE CommittedIntact
  <2> SUFFICES ASSUME NEW o \in Offsets, Committed(o)
               PROVE  \/ o \in Archived \cup missed
                      \/ o \in late /\ clockBacks > 0
                      \/ o \in glued /\ (shortWrites > 0 \/ missed # {})
    BY DEF CommittedIntact
  <2>1. Settled(o)  BY <1>1 DEF AccountInv, SettledInv
  <2>2. shortWrites \in Nat /\ clockBacks \in Nat  BY <1>1 DEF AccountInv, HistoryInv
  <2>3. o \in late => clockBacks > 0  BY <1>1, <2>2 DEF AccountInv, ClockInv
  <2>4. ~Clean => shortWrites > 0 \/ missed # {}  BY <2>2 DEF Clean
  <2> QED  BY <2>1, <2>3, <2>4 DEF Settled
<1> QED  BY <1>1, MessagesAreAccountedFor, PTL

(***************************************************************************)
(* When a batch is committed, every line of it in the open file has been   *)
(* fsynced, its last one among them unless it was glued to a torn line.    *)
(***************************************************************************)
THEOREM FsyncCoversLastLine == Spec => []FsyncedUnlessRotated
<1>1. FsyncInv => FsyncedUnlessRotated  BY DEF FsyncInv
<1> QED  BY <1>1, MessagesAreAccountedFor, PTL

-----------------------------------------------------------------------------
(***************************************************************************)
(* The archive consumer implements the log consumer.                       *)
(***************************************************************************)
Covered == Archived \cup missed \cup late \cup glued
Acked == IF committed = None THEN 0 ELSE committed

LEMMA CoveredGrows ==
    ASSUME FilesInv, AccountInv, [Next]_vars
    PROVE  Covered \subseteq Covered' /\ Covered' \subseteq Offsets'
<1>1. Archived \subseteq Archived' \cup late  BY StepsKeepLines DEF Kept
<1>2. /\ HistoryInv' /\ missed \subseteq missed' /\ late \subseteq late'
      /\ glued \subseteq glued'
  BY RecordedSteps DEF AccountInv
<1>3. Archived' \subseteq Offsets'  BY DEF Archived
<1> QED  BY <1>1, <1>2, <1>3 DEF Covered, HistoryInv

LEMMA StepsImplementLog ==
    ASSUME FilesInv, AccountInv, [Next]_vars
    PROVE  [Log!Next]_(Log!vars)
<1>0. /\ published \in Nat /\ committed \in {None} \cup Nat
      /\ committed = None \/ committed <= published
  BY DEF FilesInv, TypeInv
<1>1. Covered \subseteq Covered' /\ Covered' \subseteq Offsets' /\ Covered \subseteq Offsets
  <2>1. Archived \subseteq Offsets  BY DEF Archived
  <2> QED  BY <2>1, CoveredGrows DEF Covered, AccountInv, HistoryInv
<1>2. CASE Publish
  <2>1. /\ published' = published + 1
        /\ UNCHANGED <<committed, plain, plainHours, gz, gzHours, missed, late, glued>>
    BY <1>2 DEF Publish, disk, history
  <2>2. \A o \in Offsets : o \in Covered' => o \in Covered
    BY <1>0, <2>1 DEF Covered, Archived, Offsets
  <2>3. Offsets' = Offsets \cup {published + 1}  BY <1>0, <2>1 DEF Offsets
  <2>4. Covered' \in {Covered, Covered \cup {published + 1}}  BY <1>1, <2>2, <2>3
  <2>5. Log!Publish  BY <2>1, <2>4 DEF Log!Publish, Covered
  <2> QED  BY <2>5 DEF Log!Next
<1>3. CASE Commit
  <2>1. /\ pc = "commit" /\ committed' = position
        /\ UNCHANGED <<published, plain, plainHours, gz, gzHours, missed, late, glued>>
    BY <1>3 DEF Commit, disk, history
  <2>2. Covered' = Covered  BY <2>1 DEF Covered, Archived, Offsets
  <2>3. position \in Nat /\ position <= published /\ Len(batch) \in Nat
    BY DEF FilesInv, TypeInv
  <2>4. Acked' = position /\ Acked <= position
    <3>1. Base \in Nat /\ (committed # None => Base = committed)
      BY <2>1 DEF AccountInv, BatchInv, Running
    <3>2. Base <= position  BY <2>3, <3>1 DEF Base
    <3>3. position # None  BY <2>3 DEF None
    <3> QED  BY <1>0, <2>1, <2>3, <3>1, <3>2, <3>3 DEF Acked
  <2>5. 1 .. Acked' \subseteq Covered
    <3> SUFFICES ASSUME NEW o \in 1 .. position PROVE o \in Covered  BY <2>4
    <3>1. o \in Offsets' /\ Committed(o)'
      BY <2>1, <2>3, <1>0 DEF Offsets, Committed, None
    <3>2. Settled(o)'  BY <3>1, SettledStep DEF SettledInv
    <3>3. o \in Covered'  BY <3>2 DEF Settled, Covered
    <3> QED  BY <2>2, <3>3
  <2>6. Acked \in Nat  BY <1>0 DEF Acked
  <2>7. Acked' \in Acked .. published  BY <2>3, <2>4, <2>6, <1>0
  <2>8. Log!Acknowledge  BY <2>1, <2>2, <2>5, <2>7 DEF Log!Acknowledge, Covered, Acked
  <2> QED  BY <2>8 DEF Log!Next
<1>4. CASE UNCHANGED <<published, committed>>
  <2>1. Covered' \in SUBSET (1 .. published)  BY <1>1, <1>4 DEF Offsets
  <2>2. Log!Settle  BY <1>1, <1>4, <2>1 DEF Log!Settle, Covered
  <2> QED  BY <2>2 DEF Log!Next
<1>5. CASE ~Publish /\ ~Commit
  <2>1. UNCHANGED <<published, committed>>
    BY <1>5 DEF Next, Tick, ClockBack, Crash, Start, Finalize, GzipPublish, RemovePlain, Join,
       Fetch, Flush, BeginFlush, Rotate, WriteLine, Sync, ShortWrite, vars
  <2> QED  BY <1>4, <2>1
<1> QED  BY <1>2, <1>3, <1>5

(***************************************************************************)
(* The archive consumer implements the log consumer: the committed offset  *)
(* only advances, and only over messages whose lines are on disk (or are   *)
(* among the exceptions above), at whatever point a kill interrupts it.    *)
(***************************************************************************)
THEOREM ArchiveImplementsLog == Spec => ImplementsLogConsumer
<1>1. Init => Log!Init
  <2> SUFFICES ASSUME Init PROVE Log!Init  OBVIOUS
  <2>1. Offsets = {}  BY DEF Init, Offsets
  <2>2. Archived = {}  BY <2>1 DEF Archived
  <2> QED  BY <2>2 DEF Init, Log!Init
<1>2. FilesInv /\ AccountInv /\ [Next]_vars => [Log!Next]_(Log!vars)  BY StepsImplementLog
<1> QED  BY <1>1, <1>2, MessagesAreAccountedFor, PTL DEF Spec, ImplementsLogConsumer, Log!Spec
=============================================================================
