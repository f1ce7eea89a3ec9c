--------------------------- MODULE GtfsRefreshProofs ---------------------------
(***************************************************************************)
(* Theorems about the refresh of the GTFS-static bundle, for any number of *)
(* releases, kills and refused renames: types, the honesty of the stored   *)
(* validators, and what one interruption of the swap cannot do.            *)
(***************************************************************************)
EXTENDS GtfsRefresh, TLAPS

PCs == {"down", "mkdir", "recover", "check", "download", "clear_old", "park",
        "publish", "sweep", "load", "reload", "serve"}

-----------------------------------------------------------------------------
(***************************************************************************)
(* The inductive invariant.                                                *)
(***************************************************************************)
\* A directory that holds a release holds one that was published.
Placed(d) == d \in {Absent, Hollow} \cup [release : 1 .. Newest, etag : 0 .. Newest]

DiskInv ==
    /\ feed \in Seq(Releases) /\ Newest \in 1 .. MaxRelease
    /\ Placed(target) /\ Placed(old) /\ Placed(staged)
    /\ EtagHonest
    /\ head \in 0 .. Newest

ControlInv ==
    /\ pc \in PCs
    /\ (staged # Absent) <=> pc \in Swapping
    /\ startup \in BOOLEAN /\ dateStale \in BOOLEAN /\ due \in BOOLEAN
    /\ loaded \in 0 .. Newest
    /\ ~startup => loaded # 0
    /\ pc \in {"serve", "reload"} => ~startup
    /\ crashes \in 0 .. MaxCrashes /\ faults \in 0 .. MaxFaults

\* What is staged passed the required-files check, and the old bundle is only swept when
\* it has been replaced.  As long as nothing was interrupted, the last complete bundle is
\* live, or parked between the two renames; after one interruption it is somewhere.
SwapInv ==
    /\ staged # Absent => Whole(staged)
    /\ pc = "sweep" => Whole(target)
    /\ wasWhole /\ crashes + faults = 0
            => Whole(target) \/ (pc = "publish" /\ Whole(old))
    /\ SurvivesOneInterruption

RefreshInv == DiskInv /\ ControlInv /\ SwapInv

-----------------------------------------------------------------------------
LEMMA RefreshInitially == Init => RefreshInv
<1> SUFFICES ASSUME Init PROVE RefreshInv  OBVIOUS
<1>1. PICK quality \in {"good", "incomplete", "unloadable"} :
          feed = <<[quality |-> quality, version |-> 1]>>
  BY DEF Init
<1>2. feed \in Seq(Releases) /\ Newest = 1
  BY <1>1, RefreshAssumption DEF Releases, Newest
<1>3. DiskInv
  BY <1>2, RefreshAssumption DEF Init, DiskInv, Placed, Absent, Hollow, EtagHonest
<1>4. ControlInv
  <2>1. pc = "down" /\ staged = Absent /\ startup /\ loaded = 0  BY DEF Init
  <2>2. startup \in BOOLEAN /\ dateStale \in BOOLEAN /\ due \in BOOLEAN  BY DEF Init
  <2>3. crashes \in 0 .. MaxCrashes /\ faults \in 0 .. MaxFaults
    BY RefreshAssumption DEF Init
  <2>4. pc \in PCs /\ pc \notin Swapping /\ pc \notin {"serve", "reload"}
    BY <2>1 DEF PCs, Swapping
  <2> QED  BY <1>2, <2>1, <2>2, <2>3, <2>4 DEF ControlInv
<1>5. SwapInv
  BY DEF Init, SwapInv, SurvivesOneInterruption
<1> QED  BY <1>3, <1>4, <1>5 DEF RefreshInv

\* The publisher adds releases and changes none: what was whole stays whole.
LEMMA PublishKeepsRefresh == ASSUME RefreshInv, Publish PROVE RefreshInv'
<1>1. PICK r \in Releases : Newest < MaxRelease /\ feed' = Append(feed, r)
  BY DEF Publish
<1>2. UNCHANGED <<disk, call, pc, snapshot, due, bounds, wasWhole>>
  BY DEF Publish
<1> USE DEF disk, call, snapshot, bounds
<1>3. /\ feed' \in Seq(Releases) /\ Newest' = Newest + 1
      /\ \A n \in 1 .. Newest : feed'[n] = feed[n]
  BY <1>1 DEF RefreshInv, DiskInv, Newest
<1>4. Newest' \in 1 .. MaxRelease
  BY <1>1, <1>3, RefreshAssumption DEF RefreshInv, DiskInv
<1>5. \A d : Placed(d) => Placed(d)'
  BY <1>3, <1>4 DEF RefreshInv, DiskInv, Placed, Absent, Hollow
<1>6. \A d : Placed(d) => (Whole(d)' <=> Whole(d))
  BY <1>3 DEF RefreshInv, DiskInv, Placed, Absent, Hollow, Whole, Held
<1>7. DiskInv'
  BY <1>2, <1>3, <1>4, <1>5 DEF RefreshInv, DiskInv, EtagHonest
<1>8. ControlInv'
  BY <1>2, <1>3, <1>4 DEF RefreshInv, DiskInv, ControlInv
<1>9. SwapInv'
  BY <1>2, <1>6 DEF RefreshInv, DiskInv, SwapInv, SurvivesOneInterruption
<1> QED  BY <1>7, <1>8, <1>9 DEF RefreshInv


\* A process that is gone has no lookups and nothing staged.
LEMMA ExitIsClean ==
    ASSUME RefreshInv, Exit, UNCHANGED feed,
           crashes' \in 0 .. MaxCrashes, faults' \in 0 .. MaxFaults
    PROVE  ControlInv'
<1>1. pc' = "down" /\ staged' = Absent /\ startup' /\ loaded' = 0  BY DEF Exit
<1>2. startup' \in BOOLEAN /\ dateStale' \in BOOLEAN /\ due' \in BOOLEAN  BY DEF Exit
<1>3. pc' \in PCs /\ pc' \notin Swapping /\ pc' \notin {"serve", "reload"}
  BY <1>1 DEF PCs, Swapping
<1>4. Newest' \in Nat  BY DEF RefreshInv, DiskInv, Newest
<1> QED  BY <1>1, <1>2, <1>3, <1>4 DEF ControlInv

\* The process is killed at whatever step: staged goes, and the first such loss leaves the
\* bundle live or parked.
LEMMA CrashKeepsRefresh == ASSUME RefreshInv, Crash PROVE RefreshInv'
<1> USE DEF disk, call, snapshot, bounds
<1>1. DiskInv'
  BY DEF Crash, Exit, RefreshInv, DiskInv, ControlInv, Placed, Newest, EtagHonest, Absent, Hollow, Held
<1>2. ControlInv'
  <2>1. Exit /\ UNCHANGED feed  BY DEF Crash
  <2>2. crashes' \in 0 .. MaxCrashes /\ faults' \in 0 .. MaxFaults
    BY RefreshAssumption DEF Crash, RefreshInv, ControlInv
  <2> QED  BY <2>1, <2>2, ExitIsClean
<1>3. SwapInv'
  BY DEF Crash, Exit, RefreshInv, DiskInv, ControlInv, SwapInv, SurvivesOneInterruption, Newest,
         Placed, Swapping, Whole, Held, Absent, Hollow
<1> QED  BY <1>1, <1>2, <1>3 DEF RefreshInv

\* A refused rename is the other interruption.
LEMMA RenameFailsKeepsRefresh == ASSUME RefreshInv, RenameFails PROVE RefreshInv'
<1> USE DEF disk, call, snapshot, bounds
<1>1. DiskInv'
  BY DEF RenameFails, Return, RefreshInv, DiskInv, ControlInv, Placed, Newest, EtagHonest, Absent, Hollow, Held
<1>2. ControlInv'
  BY RefreshAssumption
     DEF RenameFails, Return, RefreshInv, DiskInv, ControlInv, Placed, Newest, Swapping, PCs, Absent, Hollow, Held
<1>3. SwapInv'
  BY DEF RenameFails, Return, RefreshInv, DiskInv, ControlInv, SwapInv, SurvivesOneInterruption, Newest,
         Placed, Swapping, Whole, Held, Absent, Hollow
<1> QED  BY <1>1, <1>2, <1>3 DEF RefreshInv

LEMMA MakeDirectoryKeepsRefresh == ASSUME RefreshInv, MakeDirectory PROVE RefreshInv'
<1> USE DEF disk, call, snapshot, bounds
<1>1. DiskInv'
  BY DEF MakeDirectory, RefreshInv, DiskInv, ControlInv, Placed, Newest, EtagHonest, Absent, Hollow, Held
<1>2. ControlInv'
  BY RefreshAssumption
     DEF MakeDirectory, RefreshInv, DiskInv, ControlInv, Placed, Newest, Swapping, PCs, Absent, Hollow, Held
<1>3. SwapInv'
  BY DEF MakeDirectory, RefreshInv, DiskInv, ControlInv, SwapInv, SurvivesOneInterruption, Newest,
         Placed, Swapping, Whole, Held, Absent, Hollow
<1> QED  BY <1>1, <1>2, <1>3 DEF RefreshInv

LEMMA RecoverOldKeepsRefresh == ASSUME RefreshInv, RecoverOld PROVE RefreshInv'
<1> USE DEF disk, call, snapshot, bounds
<1>1. DiskInv'
  BY DEF RecoverOld, RefreshInv, DiskInv, ControlInv, Placed, Newest, EtagHonest, Absent, Hollow, Held
<1>2. ControlInv'
  BY RefreshAssumption
     DEF RecoverOld, RefreshInv, DiskInv, ControlInv, Placed, Newest, Swapping, PCs, Absent, Hollow, Held
<1>3. SwapInv'
  BY DEF RecoverOld, RefreshInv, DiskInv, ControlInv, SwapInv, SurvivesOneInterruption, Newest,
         Placed, Swapping, Whole, Held, Absent, Hollow
<1> QED  BY <1>1, <1>2, <1>3 DEF RefreshInv

LEMMA CheckRemoteKeepsRefresh == ASSUME RefreshInv, CheckRemote PROVE RefreshInv'
<1> USE DEF disk, call, snapshot, bounds
<1>1. DiskInv'
  BY DEF CheckRemote, Return, RefreshInv, DiskInv, ControlInv, Placed, Newest, EtagHonest, Absent, Hollow, Held
<1>2. ControlInv'
  BY RefreshAssumption
     DEF CheckRemote, Return, RefreshInv, DiskInv, ControlInv, Placed, Newest, Swapping, PCs, Absent, Hollow, Held
<1>3. SwapInv'
  BY DEF CheckRemote, Return, RefreshInv, DiskInv, ControlInv, SwapInv, SurvivesOneInterruption, Newest,
         Placed, Swapping, Whole, Held, Absent, Hollow
<1> QED  BY <1>1, <1>2, <1>3 DEF RefreshInv

LEMMA NetworkFailsKeepsRefresh == ASSUME RefreshInv, NetworkFails PROVE RefreshInv'
<1> USE DEF disk, call, snapshot, bounds
<1>1. DiskInv'
  BY DEF NetworkFails, Return, RefreshInv, DiskInv, ControlInv, Placed, Newest, EtagHonest, Absent, Hollow, Held
<1>2. ControlInv'
  BY RefreshAssumption
     DEF NetworkFails, Return, RefreshInv, DiskInv, ControlInv, Placed, Newest, Swapping, PCs, Absent, Hollow, Held
<1>3. SwapInv'
  BY DEF NetworkFails, Return, RefreshInv, DiskInv, ControlInv, SwapInv, SurvivesOneInterruption, Newest,
         Placed, Swapping, Whole, Held, Absent, Hollow
<1> QED  BY <1>1, <1>2, <1>3 DEF RefreshInv

\* The validators were fetched before the bundle: they name no newer release.
LEMMA DownloadKeepsRefresh == ASSUME RefreshInv, Download PROVE RefreshInv'
<1> USE DEF disk, call, snapshot, bounds
<1>1. DiskInv'
  BY DEF Download, Return, RefreshInv, DiskInv, ControlInv, Placed, Newest, EtagHonest, Absent, Hollow, Held
<1>2. ControlInv'
  BY RefreshAssumption
     DEF Download, Return, RefreshInv, DiskInv, ControlInv, Placed, Newest, Swapping, PCs, Absent, Hollow, Held
<1>3. SwapInv'
  BY DEF Download, Return, RefreshInv, DiskInv, ControlInv, SwapInv, SurvivesOneInterruption, Newest,
         Placed, Swapping, Whole, Held, Absent, Hollow
<1> QED  BY <1>1, <1>2, <1>3 DEF RefreshInv

\* The old bundle goes once another is staged or live.
LEMMA RemoveOldKeepsRefresh == ASSUME RefreshInv, RemoveOld PROVE RefreshInv'
<1> USE DEF disk, call, snapshot, bounds
<1>1. DiskInv'
  BY DEF RemoveOld, Return, RefreshInv, DiskInv, ControlInv, Placed, Newest, EtagHonest, Absent, Hollow, Held
<1>2. ControlInv'
  BY RefreshAssumption
     DEF RemoveOld, Return, RefreshInv, DiskInv, ControlInv, Placed, Newest, Swapping, PCs, Absent, Hollow, Held
<1>3. SwapInv'
  BY DEF RemoveOld, Return, RefreshInv, DiskInv, ControlInv, SwapInv, SurvivesOneInterruption, Newest,
         Placed, Swapping, Whole, Held, Absent, Hollow
<1> QED  BY <1>1, <1>2, <1>3 DEF RefreshInv

LEMMA ParkTargetKeepsRefresh == ASSUME RefreshInv, ParkTarget PROVE RefreshInv'
<1> USE DEF disk, call, snapshot, bounds
<1>1. DiskInv'
  BY DEF ParkTarget, RefreshInv, DiskInv, ControlInv, Placed, Newest, EtagHonest, Absent, Hollow, Held
<1>2. ControlInv'
  BY RefreshAssumption
     DEF ParkTarget, RefreshInv, DiskInv, ControlInv, Placed, Newest, Swapping, PCs, Absent, Hollow, Held
<1>3. SwapInv'
  BY DEF ParkTarget, RefreshInv, DiskInv, ControlInv, SwapInv, SurvivesOneInterruption, Newest,
         Placed, Swapping, Whole, Held, Absent, Hollow
<1> QED  BY <1>1, <1>2, <1>3 DEF RefreshInv

LEMMA PublishStagedKeepsRefresh == ASSUME RefreshInv, PublishStaged PROVE RefreshInv'
<1> USE DEF disk, call, snapshot, bounds
<1>1. DiskInv'
  BY DEF PublishStaged, RefreshInv, DiskInv, ControlInv, Placed, Newest, EtagHonest, Absent, Hollow, Held
<1>2. ControlInv'
  BY RefreshAssumption
     DEF PublishStaged, RefreshInv, DiskInv, ControlInv, Placed, Newest, Swapping, PCs, Absent, Hollow, Held
<1>3. SwapInv'
  BY DEF PublishStaged, RefreshInv, DiskInv, ControlInv, SwapInv, SurvivesOneInterruption, Newest,
         Placed, Swapping, Whole, Held, Absent, Hollow
<1> QED  BY <1>1, <1>2, <1>3 DEF RefreshInv

LEMMA LoadAtStartupKeepsRefresh == ASSUME RefreshInv, LoadAtStartup PROVE RefreshInv'
<1> USE DEF disk, call, snapshot, bounds
<1>1. DiskInv'
  BY DEF LoadAtStartup, LoadTarget, Exit, Loadable, RefreshInv, DiskInv, ControlInv, Placed, Newest, EtagHonest, Absent, Hollow, Held
<1>2. ControlInv'
  <2>1. CASE Exit
    <3>1. UNCHANGED <<feed, crashes, faults>>  BY DEF LoadAtStartup
    <3>2. crashes' \in 0 .. MaxCrashes /\ faults' \in 0 .. MaxFaults
      BY <3>1 DEF RefreshInv, ControlInv
    <3> QED  BY <2>1, <3>1, <3>2, ExitIsClean
  <2>2. CASE ~Exit
    <3>1. /\ Loadable(target) /\ LoadTarget /\ pc = "load"
          /\ pc' = "serve" /\ ~startup' /\ startup' \in BOOLEAN
          /\ UNCHANGED <<feed, staged, head, due, crashes, faults>>
      BY <2>2 DEF LoadAtStartup
    <3>2. loaded' = target.release /\ dateStale' \in BOOLEAN  BY <3>1 DEF LoadTarget
    <3>3. target.release \in 1 .. Newest
      BY <3>1 DEF Loadable, Held, RefreshInv, DiskInv, Placed, Absent, Hollow
    <3>4. Newest' = Newest  BY <3>1 DEF Newest
    <3> QED  BY <3>1, <3>2, <3>3, <3>4 DEF RefreshInv, DiskInv, ControlInv, PCs, Swapping
  <2> QED  BY <2>1, <2>2
<1>3. SwapInv'
  BY DEF LoadAtStartup, LoadTarget, Exit, Loadable, RefreshInv, DiskInv, ControlInv, SwapInv, SurvivesOneInterruption, Newest,
         Placed, Swapping, Whole, Held, Absent, Hollow
<1> QED  BY <1>1, <1>2, <1>3 DEF RefreshInv

-----------------------------------------------------------------------------
(***************************************************************************)
(* The steps that change neither the directories nor what is staged.       *)
(***************************************************************************)
LEMMA LookupsKeepDisk ==
    ASSUME RefreshInv, UNCHANGED <<feed, disk, staged, head, bounds, wasWhole>>,
           pc' = pc \/ (pc # "publish" /\ pc' # "sweep")
    PROVE  DiskInv' /\ SwapInv'
<1> USE DEF disk, bounds
<1>1. DiskInv'  BY DEF RefreshInv, DiskInv, Placed, Newest, EtagHonest
<1>2. SwapInv'
  BY DEF RefreshInv, SwapInv, SurvivesOneInterruption, Whole, Held
<1> QED  BY <1>1, <1>2

LEMMA LookupsKeepRefresh ==
    ASSUME RefreshInv,
           DayAdvances \/ IntervalElapses \/ Start \/ ReloadForDate \/ DailyCheck
                \/ ReloadIfChanged \/ UNCHANGED vars
    PROVE  RefreshInv'
<1> USE DEF disk, call, snapshot, bounds
<1>1. /\ UNCHANGED <<feed, disk, staged, head, bounds, wasWhole>>
      /\ pc' = pc \/ (pc # "publish" /\ pc' # "sweep")
  BY DEF DayAdvances, IntervalElapses, Start, ReloadForDate, DailyCheck, ReloadIfChanged, vars
<1>2. DiskInv' /\ SwapInv'  BY <1>1, LookupsKeepDisk
<1>3. Newest' = Newest  BY <1>1 DEF Newest
<1>4. Loadable(target) => target.release \in 1 .. Newest
  BY DEF Loadable, Held, RefreshInv, DiskInv, Placed, Absent, Hollow
<1>5. UNCHANGED startup
  BY DEF DayAdvances, IntervalElapses, Start, ReloadForDate, DailyCheck, ReloadIfChanged, vars
<1>6. loaded' \in 0 .. Newest /\ (~startup => loaded' # 0)
  BY <1>4 DEF DayAdvances, IntervalElapses, Start, ReloadForDate, DailyCheck,
              ReloadIfChanged, LoadTarget, vars, RefreshInv, DiskInv, ControlInv
<1>7. dateStale' \in BOOLEAN /\ due' \in BOOLEAN
  BY DEF DayAdvances, IntervalElapses, Start, ReloadForDate, DailyCheck,
         ReloadIfChanged, LoadTarget, vars, RefreshInv, ControlInv
<1>8. /\ pc' \in PCs
      /\ pc' = pc \/ (pc \notin Swapping /\ pc' \notin Swapping)
      /\ pc' \in {"serve", "reload"} => pc \in {"serve", "reload"}
  BY DEF DayAdvances, IntervalElapses, Start, ReloadForDate, DailyCheck,
         ReloadIfChanged, vars, RefreshInv, ControlInv, PCs, Swapping
<1>9. ControlInv'
  BY <1>1, <1>3, <1>5, <1>6, <1>7, <1>8 DEF RefreshInv, ControlInv
<1> QED  BY <1>2, <1>9 DEF RefreshInv

-----------------------------------------------------------------------------
\* The invariant holds at every step of every refresh, load and kill.
THEOREM RefreshInvariant == Spec => []RefreshInv
<1>1. ASSUME RefreshInv, [Next]_vars PROVE RefreshInv'
  BY <1>1, PublishKeepsRefresh, CrashKeepsRefresh, RenameFailsKeepsRefresh,
     MakeDirectoryKeepsRefresh, RecoverOldKeepsRefresh, CheckRemoteKeepsRefresh,
     NetworkFailsKeepsRefresh, DownloadKeepsRefresh, RemoveOldKeepsRefresh,
     ParkTargetKeepsRefresh, PublishStagedKeepsRefresh, LoadAtStartupKeepsRefresh,
     LookupsKeepRefresh
     DEF Next, Environment, Refresh, Serve
<1> QED  BY RefreshInitially, <1>1, PTL DEF Spec

\* Every variable has its type, a staged bundle exists exactly while the swap is under way,
\* and a process that serves has its lookups.
THEOREM RefreshTypeCorrect == Spec => []TypeOK
<1>1. RefreshInv => TypeOK
  BY RefreshAssumption
     DEF RefreshInv, DiskInv, ControlInv, TypeOK, Placed, Directories, Absent, Hollow
<1> QED  BY RefreshInvariant, <1>1, PTL

\* No directory's .etag names a release newer than what the directory holds: a match with
\* the server's validators never hides a release that is not on disk.
THEOREM EtagsAreHonest == Spec => []EtagHonest
<1>1. RefreshInv => EtagHonest  BY DEF RefreshInv, DiskInv
<1> QED  BY RefreshInvariant, <1>1, PTL

\* One kill or one refused rename, at whatever step of whichever of any number of
\* refreshes, never costs the last complete bundle.
THEOREM OneInterruptionIsHarmless == Spec => []SurvivesOneInterruption
<1>1. RefreshInv => SurvivesOneInterruption  BY DEF RefreshInv, SwapInv
<1> QED  BY RefreshInvariant, <1>1, PTL
===============================================================================
