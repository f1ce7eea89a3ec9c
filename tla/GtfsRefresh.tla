----------------------------- MODULE GtfsRefresh -----------------------------
(***************************************************************************)
(* The GTFS-static schedule of the analytics engine: the refresh that      *)
(* replaces the bundle on disk (gtfs_static/refresh.py), the loader that   *)
(* builds the lookups the metrics use (gtfs_static/loader.py), and their   *)
(* two callers, main() at startup and _maybe_refresh_gtfs_static() in the  *)
(* consumer loop.  One step per change of the file system, so that the     *)
(* process may be killed, and the container restarted, between any two.    *)
(*                                                                         *)
(* A release is a number, the place of a bundle in the publisher's feed.   *)
(* What distinguishes releases is whether they pass the required-files     *)
(* check, whether load() accepts them, and their feed_version.  A          *)
(* directory is a record: the release it holds and the one its .etag file  *)
(* names (.last_modified plays the same part when there is no ETag).       *)
(***************************************************************************)
EXTENDS Integers, Sequences

CONSTANTS
    HasValidator,   \* the server sends an ETag or a Last-Modified header
    MaxRelease,     \* bound: releases ever published
    MaxCrashes,     \* bound: process kills
    MaxFaults       \* bound: renames the file system refuses

ASSUME RefreshAssumption ==
    /\ HasValidator \in BOOLEAN
    /\ MaxRelease \in Nat \ {0} /\ MaxCrashes \in Nat /\ MaxFaults \in Nat

VARIABLES
    feed,       \* the publisher's releases, oldest first
    target,     \* the live directory, data/MBTA_GTFS
    old,        \* the parking place of the previous bundle, MBTA_GTFS.old
    staged,     \* the extracted bundle of this call's staging directory
    head,       \* the release whose validators this call's HEAD returned
    pc,         \* where the process is
    startup,    \* main() called the refresh, not the consumer loop
    loaded,     \* the release of the in-memory lookups, 0 for none
    dateStale,  \* service_date_stale(): the service date advanced since load()
    due,        \* the daily network check's interval has elapsed
    crashes,    \* process kills so far
    faults,     \* refused renames so far
    wasWhole    \* history: the live directory has held a complete bundle

disk == <<target, old>>
call == <<staged, head, startup>>
snapshot == <<loaded, dateStale>>
bounds == <<crashes, faults>>
vars == <<feed, disk, call, pc, snapshot, due, bounds, wasWhole>>

-----------------------------------------------------------------------------
Releases == [quality : {"good", "incomplete", "unloadable"}, version : 1..MaxRelease]

Absent == [release |-> -1, etag |-> 0]
Hollow == [release |-> 0, etag |-> 0]       \* a directory without a whole bundle
Directories == {Absent, Hollow} \cup [release : 1..MaxRelease, etag : 0..MaxRelease]

Newest == Len(feed)

Held(d) == d.release > 0

\* Every file of _REQUIRED_FILES is there.
Whole(d) == Held(d) /\ feed[d.release].quality # "incomplete"

\* load() does not raise: required files, required columns, readable values.
Loadable(d) == Held(d) /\ feed[d.release].quality = "good"

\* Mutant: any .etag on disk counts as a match.
BundleIsCurrent_AnyEtag == HasValidator /\ target.etag # 0

\* _bundle_is_current: with no validator every call downloads again.
BundleIsCurrent == HasValidator /\ target.etag = Newest

\* has_changed() compares feed_version, and a republication may keep it.
HasChanged == feed[target.release].version # feed[loaded].version

\* download_and_extract_gtfs returns, to main() or to the consumer loop.
Return ==
    /\ staged' = Absent /\ head' = 0
    /\ pc' = IF startup THEN "load" ELSE "reload"
    /\ UNCHANGED startup

Init ==
    /\ \E quality \in {"good", "incomplete", "unloadable"} :
            feed = <<[quality |-> quality, version |-> 1]>>
    /\ target = Hollow      \* created by the Dockerfile
    /\ old = Absent /\ staged = Absent /\ head = 0
    /\ pc = "down" /\ startup = TRUE
    /\ loaded = 0 /\ dateStale = FALSE /\ due = FALSE
    /\ crashes = 0 /\ faults = 0 /\ wasWhole = FALSE

-----------------------------------------------------------------------------
(* The environment.                                                        *)

\* The agency publishes a release, under a new feed_version or the same one.
Publish ==
    /\ Newest < MaxRelease
    /\ \E r \in Releases :
        /\ r.version \in {feed[Newest].version, feed[Newest].version + 1}
        /\ feed' = Append(feed, r)
    /\ UNCHANGED <<disk, call, pc, snapshot, due, bounds, wasWhole>>

DayAdvances ==
    /\ loaded # 0
    /\ dateStale' = TRUE
    /\ UNCHANGED <<feed, disk, call, pc, loaded, due, bounds, wasWhole>>

IntervalElapses ==
    /\ loaded # 0
    /\ due' = TRUE
    /\ UNCHANGED <<feed, disk, call, pc, snapshot, bounds, wasWhole>>

\* The process is gone, with its lookups; its staging directory is left
\* behind under a random name that no later call looks at.
Exit ==
    /\ pc' = "down"
    /\ staged' = Absent /\ head' = 0 /\ startup' = TRUE
    /\ loaded' = 0 /\ dateStale' = FALSE /\ due' = FALSE

Crash ==
    /\ pc # "down" /\ crashes < MaxCrashes
    /\ crashes' = crashes + 1
    /\ Exit
    /\ UNCHANGED <<feed, disk, faults, wasWhole>>

-----------------------------------------------------------------------------
(* download_and_extract_gtfs().                                            *)

Start ==
    /\ pc = "down"
    /\ pc' = "mkdir"
    /\ UNCHANGED <<feed, disk, call, snapshot, due, bounds, wasWhole>>

\* target_path.mkdir(parents=True, exist_ok=True)
MakeDirectory ==
    /\ pc = "mkdir"
    /\ target' = IF target = Absent THEN Hollow ELSE target
    /\ pc' = "recover"
    /\ UNCHANGED <<feed, old, call, snapshot, due, bounds, wasWhole>>

\* if not target_path.exists() and old_path.exists(): old_path.rename(...)
RecoverOld ==
    /\ pc = "recover"
    /\ IF target = Absent /\ old # Absent
         THEN target' = old /\ old' = Absent
         ELSE UNCHANGED disk
    /\ pc' = "check"
    /\ UNCHANGED <<feed, call, snapshot, due, bounds, wasWhole>>

\* HEAD answers: the validators match, or a download is due.
CheckRemote ==
    /\ pc = "check"
    /\ IF BundleIsCurrent
         THEN Return
         ELSE head' = Newest /\ pc' = "download" /\ UNCHANGED <<staged, startup>>
    /\ UNCHANGED <<feed, disk, snapshot, due, bounds, wasWhole>>

\* HEAD or GET fails, or the archive is not a ZIP: return False.
NetworkFails ==
    /\ pc \in {"check", "download"}
    /\ Return
    /\ UNCHANGED <<feed, disk, snapshot, due, bounds, wasWhole>>

\* GET, extract, check the required files, write the validators HEAD gave.
\* The feed may have moved on between HEAD and GET.
Download ==
    /\ pc = "download"
    /\ IF feed[Newest].quality = "incomplete"
         THEN Return
         ELSE /\ staged' = [release |-> Newest, etag |-> IF HasValidator THEN head ELSE 0]
              /\ pc' = "clear_old" /\ UNCHANGED <<head, startup>>
    /\ UNCHANGED <<feed, disk, snapshot, due, bounds, wasWhole>>

\* shutil.rmtree(old_path), before and after the swap: not one step, so that
\* a kill may leave part of a bundle.
RemoveOld ==
    /\ pc \in {"clear_old", "sweep"}
    /\ IF Held(old)
         THEN old' = Hollow /\ UNCHANGED <<pc, call>>
         ELSE /\ old' = Absent
              /\ IF pc = "clear_old" THEN pc' = "park" /\ UNCHANGED call ELSE Return
    /\ UNCHANGED <<feed, target, snapshot, due, bounds, wasWhole>>

\* Mutant: the previous bundle is deleted instead of parked.
ParkTarget_Deletes ==
    /\ pc = "park"
    /\ old' = Absent /\ target' = Absent
    /\ pc' = "publish"
    /\ UNCHANGED <<feed, call, snapshot, due, bounds, wasWhole>>

\* target_path.rename(old_path), if the target exists.
ParkTarget ==
    /\ pc = "park"
    /\ old' = target /\ target' = Absent
    /\ pc' = "publish"
    /\ UNCHANGED <<feed, call, snapshot, due, bounds, wasWhole>>

\* contents.rename(target_path)
PublishStaged ==
    /\ pc = "publish"
    /\ target' = staged /\ staged' = Absent
    /\ wasWhole' = TRUE
    /\ pc' = "sweep"
    /\ UNCHANGED <<feed, old, head, startup, snapshot, due, bounds>>

\* Either rename raises OSError.  `except Exception` returns False, and the
\* staging directory is deleted on the way; nothing undoes the first rename.
RenameFails ==
    /\ pc \in {"park", "publish"} /\ faults < MaxFaults
    /\ faults' = faults + 1
    /\ Return
    /\ UNCHANGED <<feed, disk, snapshot, due, crashes, wasWhole>>

-----------------------------------------------------------------------------
(* The loader and the two callers.                                         *)

LoadTarget == loaded' = target.release /\ dateStale' = FALSE

\* AnalyticsConsumer.__init__: load() raises out of main() if it cannot load.
LoadAtStartup ==
    /\ pc = "load"
    /\ IF Loadable(target)
         THEN /\ LoadTarget /\ pc' = "serve" /\ startup' = FALSE
              /\ UNCHANGED <<staged, head, due>>
         ELSE Exit
    /\ UNCHANGED <<feed, disk, bounds, wasWhole>>

\* The service date advanced: load() again.  If it raises, the snapshot and
\* its date stay, and the next loop iteration tries again.
ReloadForDate ==
    /\ pc = "serve" /\ dateStale /\ Loadable(target)
    /\ LoadTarget
    /\ UNCHANGED <<feed, disk, call, pc, due, bounds, wasWhole>>

\* The daily network check, after the date reload was tried.
DailyCheck ==
    /\ pc = "serve" /\ due
    /\ dateStale => ~Loadable(target)
    /\ due' = FALSE
    /\ pc' = "mkdir"
    /\ UNCHANGED <<feed, disk, call, snapshot, bounds, wasWhole>>

\* reload_if_changed(); an unloadable or missing bundle keeps the snapshot.
ReloadIfChanged ==
    /\ pc = "reload"
    /\ IF Loadable(target) /\ (HasChanged \/ dateStale)
         THEN LoadTarget
         ELSE UNCHANGED snapshot
    /\ pc' = "serve"
    /\ UNCHANGED <<feed, disk, call, due, bounds, wasWhole>>

-----------------------------------------------------------------------------
Environment == Publish \/ DayAdvances \/ IntervalElapses \/ Crash
Refresh == MakeDirectory \/ RecoverOld \/ CheckRemote \/ NetworkFails \/ Download
             \/ RemoveOld \/ ParkTarget \/ PublishStaged \/ RenameFails
Serve == Start \/ LoadAtStartup \/ ReloadForDate \/ DailyCheck \/ ReloadIfChanged

Next == Environment \/ Refresh \/ Serve

Spec == Init /\ [][Next]_vars

\* The process runs and is restarted, days and intervals pass -- each longer
\* than an iteration of the loop, which therefore gets to the checks they make
\* due -- and the publisher's server, asked again and again, answers sometimes.
Fairness ==
    /\ WF_vars(DayAdvances) /\ WF_vars(IntervalElapses)
    /\ WF_vars(Refresh) /\ SF_vars(CheckRemote) /\ SF_vars(Download)
    /\ WF_vars(Start) /\ WF_vars(LoadAtStartup) /\ WF_vars(ReloadIfChanged)
    /\ SF_vars(ReloadForDate) /\ SF_vars(DailyCheck)

FairSpec == Spec /\ Fairness

-----------------------------------------------------------------------------
(* Properties.                                                             *)

Swapping == {"clear_old", "park", "publish"}

(***************************************************************************)
(* Every variable has its type; a staged bundle exists exactly while the   *)
(* swap is under way, and a running process always has its lookups.        *)
(***************************************************************************)
TypeOK ==
    /\ feed \in Seq(Releases)
    /\ {target, old, staged} \subseteq Directories
    /\ (staged # Absent) <=> pc \in Swapping
    /\ head \in 0..Newest
    /\ startup \in BOOLEAN /\ dateStale \in BOOLEAN /\ due \in BOOLEAN
    /\ loaded \in 0..Newest
    /\ pc \in {"serve", "reload"} => loaded # 0
    /\ crashes \in 0..MaxCrashes /\ faults \in 0..MaxFaults

(***************************************************************************)
(* One interruption, a kill or a refused rename, at whatever step, never   *)
(* costs the last complete bundle: it is still live, parked, or staged.    *)
(* (Two may: recovery does not work, and the next swap deletes *.old.)     *)
(***************************************************************************)
SurvivesOneInterruption ==
    wasWhole /\ crashes + faults <= 1 => \E d \in {target, old, staged} : Whole(d)

(***************************************************************************)
(* No directory's .etag names a release newer than its contents, so a      *)
(* validator match never hides a release that is not on disk: not after a  *)
(* kill, and not when the feed moves on between HEAD and GET.              *)
(***************************************************************************)
EtagHonest == \A d \in {target, old, staged} : d # Absent => d.etag <= d.release

(***************************************************************************)
(* Whatever was killed, refused or unreachable, and even if a republished  *)
(* release keeps its feed_version: once the publisher's newest release     *)
(* stays a good one, the engine ends up serving it.                        *)
(***************************************************************************)
CatchesUp == <>[](feed[Newest].quality = "good") => <>[](loaded = Newest)

(***************************************************************************)
(* refresh.py:55-57: a bundle parked at *.old by a kill between the two    *)
(* renames is not lost to the restart.  When the restarted process comes   *)
(* to load the schedule, a complete parked bundle has been put back or     *)
(* replaced.                                                               *)
(***************************************************************************)
ParkedBundleRecovered == pc = "load" /\ Whole(old) => Whole(target)
=============================================================================
