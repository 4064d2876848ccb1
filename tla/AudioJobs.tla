----------------------------- MODULE AudioJobs ------------------------------
(***************************************************************************)
(* Audio jobs through the cache: lookup, build, commit, packaging,         *)
(* delivery, bookkeeping and eviction (pipeline/runner.py,                 *)
(* pipeline/package.py, queue/worker.py, bot/deliver.py), with the         *)
(* administrator's /cache purge, crashes and the start-up sweep.           *)
(*                                                                         *)
(* The worker runs one job at a time.  A step is what it does between two  *)
(* awaits, except where it works on several files: there a step is one     *)
(* system call, since a crash may fall between two of them.  While the     *)
(* event loop is inside such a stretch no handler runs; only the packaging *)
(* thread does.  A statement takes effect when it is submitted.            *)
(***************************************************************************)
EXTENDS CacheStore

CONSTANTS
  Canonical,      \* the keys whose id is the site's real one
  MultiDelivery,  \* settings.audio_multi_delivery
  MaxSend,        \* settings.max_send_bytes
  FileServer,     \* whether a file server is configured
  MaxJobs,        \* bound: audio jobs
  MaxPurges,      \* bound: /cache purge commands
  MaxCrashes      \* bound: crashes of the process

ASSUME JobsAssumption ==
  /\ Canonical \subseteq Keys
  /\ MultiDelivery \in {"zip", "individual", "both"}
  /\ MaxSend \in Nat /\ FileServer \in BOOLEAN
  /\ MaxJobs \in Nat /\ MaxPurges \in Nat /\ MaxCrashes \in Nat

VARIABLES
  up,        \* whether the process runs
  disk,      \* disk[p]: the directory at a place
  stamp,     \* stamp[k]: cache_entries.last_served_at, 0: no row
  bytes,     \* bytes[k]: cache_entries.bytes
  now,       \* the clock, counted in the statements that read it
  removing,  \* the directories the event loop is in the middle of removing
  pc,        \* where the worker is
  key,       \* the key of the job, resolved as far as it is known
  dest,      \* where the job is to be delivered
  fresh,     \* whether the job has built its entry itself (not from_cache)
  next,      \* the track the packager or the sender comes to next
  archive,   \* the members of the archive, as pairs of track and build
  sent,      \* what the user has received of the album, as such pairs
  order,     \* cache_keys_by_age, as the worker has read it
  victims,   \* keys evicted whose rows are still to be forgotten
  admin,     \* where the /cache purge handler is
  doomed,    \* the keys it purges
  jobs, purges, crashes,  \* counters, for the bounds
  gone,      \* history: the job's entry was purged while the job used it
  served,    \* history: served[k], when k was last delivered
  missed,    \* history: the keys whose last delivery was not written down
  broken     \* history: the keys whose staging directory a failed commit has left

job == <<key, dest, fresh, next, archive, sent, order, victims, jobs>>
rows == <<stamp, bytes, now>>
purger == <<admin, doomed, purges>>
history == <<gone, served, missed, broken>>
vars == <<up, disk, rows, removing, pc, job, purger, crashes, history>>

Contents == Tracks \X Builds

WorkerPc == {"idle", "lookup", "fetch", "download", "stage", "write", "torn", "clear",
             "package", "send", "tracks", "link", "delivered", "recorded", "over", "ordered", "forget",
             "settled"}

(* The stretches of the worker that hold the event loop. *)
Holding == {"stage", "write", "torn", "clear"}

TypeOK ==
  /\ up \in BOOLEAN
  /\ disk \in [Places -> Dir]
  /\ stamp \in [Keys -> Nat] /\ bytes \in [Keys -> Nat] /\ now \in Nat
  /\ removing \subseteq Places
  /\ pc \in WorkerPc /\ key \in Keys
  /\ dest \in {"telegram", "server"} /\ fresh \in BOOLEAN
  /\ next \in 1..(NTracks + 1)
  /\ archive \subseteq Contents /\ sent \subseteq Contents
  /\ order \in [Keys -> Nat] /\ victims \subseteq Keys
  /\ admin \in {"idle", "forgetting"} /\ doomed \subseteq Keys
  /\ jobs \in Nat /\ purges \in Nat /\ crashes \in Nat
  /\ gone \in BOOLEAN /\ served \in [Keys -> Nat] /\ missed \subseteq Keys
  /\ broken \subseteq Keys

Init ==
  /\ up = TRUE
  /\ disk = [p \in Places |-> Empty]
  /\ stamp = [k \in Keys |-> 0] /\ bytes = [k \in Keys |-> 0] /\ now = 1
  /\ removing = {}
  /\ pc = "idle" /\ key \in Keys /\ dest = "telegram" /\ fresh = FALSE
  /\ next = 1 /\ archive = {} /\ sent = {}
  /\ order = [k \in Keys |-> 0] /\ victims = {}
  /\ admin = "idle" /\ doomed = {}
  /\ jobs = 0 /\ purges = 0 /\ crashes = 0
  /\ gone = FALSE /\ served = [k \in Keys |-> 0] /\ missed = {} /\ broken = {}

Final(k) == <<"final", k>>
Staging(k) == <<"staging", k>>
Entry(k) == disk[Final(k)]

(* The event loop is free to run a coroutine. *)
LoopFree == up /\ removing = {} /\ pc \notin Holding

Goto(p) == pc' = p

(***************************************************************************)
(* rmtree, one unlink at a time.                                           *)
(***************************************************************************)
RemoveFile(p) ==
  /\ p \in removing
  /\ \E f \in Pieces(disk[p]) :
       LET left == Without(disk[p], f)
       IN  /\ disk' = [disk EXCEPT ![p] = left]
           /\ removing' = IF Pieces(left) = {} THEN removing \ {p} ELSE removing
  /\ UNCHANGED <<up, rows, pc, job, purger, crashes, history>>

Present(S) == {p \in S : disk[p] # Empty}

(* What is left of broken when some of its staging directories are being removed. *)
StillBroken == {k \in broken : Staging(k) \notin removing'}

(***************************************************************************)
(* The pipeline.                                                           *)
(***************************************************************************)
(* _run_audio up to its first await.  Without a canonical id there is nothing to *)
(* look up yet.                                                                  *)
StartJob(k) ==
  /\ LoopFree /\ pc \in {"idle", "settled"} /\ jobs < MaxJobs
  /\ key' = k
  /\ dest' \in IF FileServer THEN {"telegram", "server"} ELSE {"telegram"}
  /\ next' = 1 /\ archive' = {} /\ sent' = {} /\ fresh' = FALSE /\ gone' = FALSE
  /\ jobs' = jobs + 1
  /\ Goto(IF k \in Canonical THEN "lookup" ELSE "fetch")
  /\ UNCHANGED <<up, disk, rows, removing, order, victims, purger, crashes,
                 served, missed, broken>>

(* cache.get: a hit goes on to _from_cache, an invalid directory is removed. *)
Get(k, miss) ==
  IF Valid(Entry(k))
  THEN Goto("package") /\ UNCHANGED removing
  ELSE Goto(miss) /\ removing' = Present({Final(k)})

Lookup ==
  /\ LoopFree /\ pc = "lookup"
  /\ Get(key, "fetch")
  /\ UNCHANGED <<up, disk, rows, job, purger, crashes, history>>

(* Mutant of Resolve: the resolved key is not looked up. *)
ResolveBlindly(k) ==
  /\ LoopFree /\ pc = "fetch"
  /\ key' = k
  /\ Goto("download") /\ UNCHANGED removing
  /\ UNCHANGED <<up, disk, rows, dest, fresh, next, archive, sent, order, victims, jobs,
                 purger, crashes, history>>

(* The metadata names the media: a second lookup under the resolved key, if it is another. *)
Resolve(k) ==
  /\ LoopFree /\ pc = "fetch"
  /\ key' = k
  /\ IF k # key THEN Get(k, "download") ELSE Goto("download") /\ UNCHANGED removing
  /\ UNCHANGED <<up, disk, rows, dest, fresh, next, archive, sent, order, victims, jobs,
                 purger, crashes, history>>

(* The tracks are cut and tagged; commit removes what is left of an earlier one. *)
BeginCommit ==
  /\ LoopFree /\ pc = "download"
  /\ removing' = Present({Staging(key)})
  /\ broken' = StillBroken
  /\ Goto("stage")
  /\ UNCHANGED <<up, disk, rows, job, purger, crashes, gone, served, missed>>

(* os.replace: the tracks move to the staging directory. *)
Stage ==
  /\ up /\ pc = "stage" /\ removing = {}
  /\ disk' = [disk EXCEPT ![Staging(key)] = Cut(jobs)]
  /\ Goto("write")
  /\ UNCHANGED <<up, rows, removing, job, purger, crashes, history>>

WriteManifest ==
  /\ up /\ pc \in {"write", "torn"}
  /\ IF pc = "write"
     THEN /\ disk' = [disk EXCEPT ![Staging(key)].manifest = Torn]
          /\ Goto("torn") /\ UNCHANGED removing
     ELSE /\ disk' = [disk EXCEPT ![Staging(key)].manifest = jobs]
          /\ Goto("clear") /\ removing' = Present({Final(key)})
  /\ UNCHANGED <<up, rows, job, purger, crashes, history>>

(* os.replace, and get on the new entry. *)
Publish ==
  /\ up /\ pc = "clear" /\ removing = {}
  /\ disk' = [disk EXCEPT ![Final(key)] = disk[Staging(key)], ![Staging(key)] = Empty]
  /\ fresh' = TRUE
  /\ Goto("package")
  /\ UNCHANGED <<up, rows, removing, key, dest, next, archive, sent, order, victims, jobs,
                 purger, crashes, history>>

(***************************************************************************)
(* Packaging, in a thread: it runs whatever the event loop does.           *)
(***************************************************************************)
Zipped == NTracks > 1 /\ MultiDelivery \in {"zip", "both"}

(* Mutant of PackNext: what is not there is packed as an empty file. *)
PackAnything ==
  /\ up /\ pc = "package" /\ Zipped /\ next \in Tracks
  /\ archive' = archive \union {<<next, Entry(key).files[next]>>}
  /\ next' = next + 1
  /\ UNCHANGED <<up, disk, rows, removing, pc, key, dest, fresh, sent, order, victims, jobs,
                 purger, crashes, history>>

(* A file that is not there is skipped. *)
PackNext ==
  /\ up /\ pc = "package" /\ Zipped /\ next \in Tracks
  /\ archive' = archive \union
       (IF Entry(key).files[next] = 0 THEN {} ELSE {<<next, Entry(key).files[next]>>})
  /\ next' = next + 1
  /\ UNCHANGED <<up, disk, rows, removing, pc, key, dest, fresh, sent, order, victims, jobs,
                 purger, crashes, history>>

EndPackage ==
  /\ LoopFree /\ pc = "package"
  /\ Zipped => next = NTracks + 1
  /\ next' = 1
  /\ Goto(IF dest = "server" THEN "link" ELSE "send")
  /\ UNCHANGED <<up, disk, rows, removing, key, dest, fresh, archive, sent, order, victims, jobs,
                 purger, crashes, history>>

(***************************************************************************)
(* Delivery.                                                               *)
(***************************************************************************)
Receive(contents) == sent' = sent \union contents

Deliver ==
  /\ Goto("delivered")
  /\ served' = [served EXCEPT ![key] = now]
  /\ missed' = missed \union {key}

Fail == Goto("idle") /\ UNCHANGED <<served, missed>>

(* TooLargeError: reroute when there is a file server, fail when there is none. *)
TooLarge == IF FileServer THEN Goto("link") /\ UNCHANGED <<served, missed>> ELSE Fail

(* send_audio_result: the archive first, if there is one. *)
SendArchive ==
  /\ LoopFree /\ pc = "send"
  /\ IF ~Zipped
     THEN Goto("tracks") /\ UNCHANGED <<sent, served, missed>>
     ELSE IF TracksBytes({c[1] : c \in archive}) > MaxSend
     THEN TooLarge /\ UNCHANGED sent
     ELSE /\ Receive(archive)
          /\ IF MultiDelivery = "both"
             THEN Goto("tracks") /\ UNCHANGED <<served, missed>>
             ELSE Deliver
  /\ UNCHANGED <<up, disk, rows, removing, key, dest, fresh, next, archive, order, victims, jobs,
                 purger, crashes, gone, broken>>

(* Each track is sent from the cache entry: one that is gone raises. *)
SendTrack ==
  /\ LoopFree /\ pc = "tracks"
  /\ LET build == Entry(key).files[next]
     IN  IF build = 0 THEN Fail /\ UNCHANGED <<sent, next>>
         ELSE IF TrackBytes[next] > MaxSend THEN TooLarge /\ UNCHANGED <<sent, next>>
         ELSE /\ Receive({<<next, build>>})
              /\ next' = next + 1
              /\ IF next = NTracks THEN Deliver
                 ELSE Goto("tracks") /\ UNCHANGED <<served, missed>>
  /\ UNCHANGED <<up, disk, rows, removing, key, dest, fresh, archive, order, victims, jobs,
                 purger, crashes, gone, broken>>

(* Mutant of Outgoing: always a track. *)
OutgoingTrack == IF Entry(key).files[1] = 0 THEN {} ELSE {<<1, Entry(key).files[1]>>}

(* _outgoing_path: the archive, or else the first track. *)
Outgoing ==
  IF Zipped THEN archive
  ELSE IF Entry(key).files[1] = 0 THEN {} ELSE {<<1, Entry(key).files[1]>>}

(* _deliver_via_server; the upload raises when its file is gone. *)
SendLink ==
  /\ LoopFree /\ pc = "link"
  /\ IF ~Zipped /\ Outgoing = {} THEN Fail /\ UNCHANGED sent ELSE Deliver /\ Receive(Outgoing)
  /\ UNCHANGED <<up, disk, rows, removing, key, dest, fresh, next, archive, order, victims, jobs,
                 purger, crashes, gone, broken>>

(* An exception at an await of the job: the network, an external program, the disk. *)
Raise ==
  /\ LoopFree /\ pc \notin {"idle", "lookup", "settled"}
  /\ Fail
  /\ victims' = {}
  /\ UNCHANGED <<up, disk, rows, removing, key, dest, fresh, next, archive, sent, order, jobs,
                 purger, crashes, gone, broken>>

(* An OSError inside commit, such as a full disk: the job fails, and what commit has *)
(* staged and removed until then stays as it is.                                     *)
CommitRaises ==
  /\ up /\ removing = {} /\ pc \in Holding
  /\ Fail
  /\ broken' = IF pc = "stage" THEN broken ELSE broken \union {key}
  /\ UNCHANGED <<up, disk, rows, removing, job, purger, crashes, gone>>

(* Mutant of Record: a hit is not written down. *)
RecordBuilds ==
  /\ LoopFree /\ pc = "delivered"
  /\ now' = now + 1
  /\ IF fresh
     THEN /\ stamp' = [stamp EXCEPT ![key] = now]
          /\ bytes' = [bytes EXCEPT ![key] = TrackSize(Entry(key))]
     ELSE UNCHANGED <<stamp, bytes>>
  /\ missed' = missed \ {key}
  /\ Goto("recorded")
  /\ UNCHANGED <<up, disk, removing, job, purger, crashes, gone, served, broken>>

(***************************************************************************)
(* Bookkeeping and eviction, after the delivery.                           *)
(***************************************************************************)
(* touch_cache_entry updates a row if there is one; record_cache_entry upserts it. *)
Record ==
  /\ LoopFree /\ pc = "delivered"
  /\ now' = now + 1
  /\ IF fresh
     THEN /\ stamp' = [stamp EXCEPT ![key] = now]
          /\ bytes' = [bytes EXCEPT ![key] = TrackSize(Entry(key))]
     ELSE /\ stamp' = [stamp EXCEPT ![key] = IF @ = 0 THEN 0 ELSE now]
          /\ UNCHANGED bytes
  /\ missed' = missed \ {key}
  /\ Goto("recorded")
  /\ UNCHANGED <<up, disk, removing, job, purger, crashes, gone, served, broken>>

ReadTotal ==
  /\ LoopFree /\ pc = "recorded"
  /\ Goto(IF TotalBytes(stamp, bytes) <= CacheMax THEN "settled" ELSE "over")
  /\ UNCHANGED <<up, disk, rows, removing, job, purger, crashes, history>>

ReadOrder ==
  /\ LoopFree /\ pc = "over"
  /\ order' = stamp
  /\ Goto("ordered")
  /\ UNCHANGED <<up, disk, rows, removing, key, dest, fresh, next, archive, sent, victims, jobs,
                 purger, crashes, history>>

(* delete removes the entry and what is left of its staging directory. *)
Delete(S) == Present({Final(k) : k \in S} \union {Staging(k) : k \in S})

(* Mutant of Evict: on the sum of the rows. *)
EvictByRows ==
  /\ LoopFree /\ pc = "ordered"
  /\ victims' = Victims(TotalBytes(stamp, bytes), disk, order)
  /\ removing' = Delete(Walked(TotalBytes(stamp, bytes), disk, order))
  /\ broken' = StillBroken
  /\ Goto("forget")
  /\ UNCHANGED <<up, disk, rows, key, dest, fresh, next, archive, sent, order, jobs,
                 purger, crashes, gone, served, missed>>

(* evict_to_fit, on the usage of the disk. *)
Evict ==
  /\ LoopFree /\ pc = "ordered"
  /\ victims' = Victims(Usage(disk), disk, order)
  /\ removing' = Delete(Walked(Usage(disk), disk, order))
  /\ broken' = StillBroken
  /\ Goto("forget")
  /\ UNCHANGED <<up, disk, rows, key, dest, fresh, next, archive, sent, order, jobs,
                 purger, crashes, gone, served, missed>>

ForgetRow(k) ==
  /\ stamp' = [stamp EXCEPT ![k] = 0]
  /\ bytes' = [bytes EXCEPT ![k] = 0]
  /\ UNCHANGED now

Forget ==
  /\ LoopFree /\ pc = "forget"
  /\ \/ /\ victims = {}
        /\ Goto("settled") /\ UNCHANGED <<rows, victims>>
     \/ \E k \in victims :
          /\ ForgetRow(k)
          /\ victims' = victims \ {k}
          /\ UNCHANGED pc
  /\ UNCHANGED <<up, disk, removing, key, dest, fresh, next, archive, sent, order, jobs,
                 purger, crashes, history>>

(***************************************************************************)
(* /cache purge: the entries go in one stretch of the event loop, the rows *)
(* one await at a time afterwards.                                         *)
(***************************************************************************)
InUse == pc \in {"package", "send", "tracks", "link"}

Cached == {k \in Keys : Valid(Entry(k))}

(* Mutant of Leftovers: a staging directory whose manifest is whole is kept. *)
LeftoversInvalid == {p \in Present(Places) : ~Valid(disk[p])}

(* sweep: every staging directory and every directory without a valid manifest. *)
Leftovers == {p \in Present(Places) : p[1] = "staging" \/ ~Valid(disk[p])}

(* The keys of S are deleted, and the directories of swept with them. *)
Purge(S, swept) ==
  /\ LoopFree /\ admin = "idle" /\ purges < MaxPurges
  /\ admin' = IF S = {} THEN "idle" ELSE "forgetting"
  /\ doomed' = S
  /\ purges' = purges + 1
  /\ removing' = Delete(S) \union swept
  /\ broken' = StillBroken
  /\ gone' = (gone \/ (InUse /\ key \in S))
  /\ UNCHANGED <<up, disk, rows, pc, job, crashes, served, missed>>

(* One entry, by a name that finds it. *)
PurgeNamed(k) == Valid(Entry(k)) /\ Purge({k}, {})

(* clear: every entry, and the sweep that follows, also when there is no entry. *)
PurgeAll == Purge(Cached, Leftovers)

PurgeForget ==
  /\ LoopFree /\ admin = "forgetting"
  /\ \E k \in doomed :
       /\ ForgetRow(k)
       /\ doomed' = doomed \ {k}
       /\ admin' = IF doomed' = {} THEN "idle" ELSE "forgetting"
  /\ UNCHANGED <<up, disk, removing, pc, job, purges, crashes, history>>

(***************************************************************************)
(* A crash, and the start-up sweep before anything else runs.              *)
(***************************************************************************)
Crash ==
  /\ up /\ crashes < MaxCrashes
  /\ up' = FALSE /\ crashes' = crashes + 1
  /\ removing' = {} /\ pc' = "idle" /\ victims' = {}
  /\ admin' = "idle" /\ doomed' = {} /\ broken' = {}
  /\ UNCHANGED <<disk, rows, key, dest, fresh, next, archive, sent, order, jobs, purges,
                 gone, served, missed>>

Restart ==
  /\ ~up
  /\ up' = TRUE
  /\ removing' = Leftovers
  /\ UNCHANGED <<disk, rows, pc, job, purger, crashes, history>>

WorkerStep ==
  \/ \E k \in Keys : StartJob(k) \/ Resolve(k)
  \/ Lookup \/ BeginCommit \/ Stage \/ WriteManifest \/ Publish \/ CommitRaises
  \/ PackNext \/ EndPackage
  \/ SendArchive \/ SendTrack \/ SendLink \/ Raise
  \/ Record \/ ReadTotal \/ ReadOrder \/ Evict \/ Forget

Next ==
  \/ WorkerStep
  \/ \E p \in Places : RemoveFile(p)
  \/ \E k \in Keys : PurgeNamed(k)
  \/ PurgeAll \/ PurgeForget
  \/ Crash \/ Restart

Spec == Init /\ [][Next]_vars

-----------------------------------------------------------------------------
(* A directory that counts as cached holds every track, all of the build its *)
(* manifest describes, also in the middle of a removal or after a crash      *)
(* (docs/architecture.md: never a half-populated entry that looks valid).    *)
EntriesAreWhole ==
  \A k \in Keys : Valid(Entry(k)) =>
    \A t \in Tracks : Entry(k).files[t] = Entry(k).manifest

(* Once the start-up sweep is over and no commit or removal is under way, the    *)
(* cache holds whole entries and, of this process's own failed commits, staging   *)
(* directories, whatever crashed before; and those go with the key's next commit, *)
(* eviction or purge.                                                             *)
NothingHalfMade ==
  LoopFree => \A p \in Places :
    \/ disk[p] = Empty
    \/ p[1] = "final" /\ Valid(disk[p])
    \/ p[1] = "staging" /\ p[2] \in broken

(* A delivered album is complete and of one build, where an archive is made of every *)
(* album (a link without one may be incomplete: RefusedIsLinked), unless the         *)
(* administrator purged its entry while the job was using it: then the archive is    *)
(* made of what is left of the entry, and the job still succeeds.                    *)
DeliveredWhole ==
  pc = "delivered" /\ ~gone => \E b \in 1..jobs : sent = Tracks \X {b}

UsageWithout(S) ==
  Usage([p \in Places |-> IF p[1] = "final" /\ p[2] \in S THEN Empty ELSE disk[p]])

(* Each entry is evicted only because the disk, without the entries evicted before *)
(* it, is still over the budget: rows that have lost their entry do not count, but *)
(* what failed commits have left does, also once delete has removed it.            *)
EvictsOnlyWhenOver ==
  [][pc = "ordered" /\ pc' = "forget" =>
       \A k \in victims' :
         UsageWithout({j \in victims' : order[j] < order[k]}) > CacheMax]_vars

(* Of the entries whose last delivery was written down, none is kept while one *)
(* delivered later is evicted.                                                 *)
EvictsLeastRecentlyServed ==
  [][pc = "ordered" /\ pc' = "forget" =>
       \A k \in victims' \ missed, j \in (Cached \ victims') \ missed :
         stamp[j] # 0 => served[k] <= served[j]]_vars

TrackSizes == [k \in Keys |-> TrackSize(Entry(k))]

(* When a job is through with its bookkeeping, the tracks of the entries are within  *)
(* the budget, provided that every entry has a row of its tracks' size, whatever was *)
(* purged, evicted or rebuilt in between.  The rows leave out manifests and covers,  *)
(* so that the directories may still be over it by as much.                          *)
BudgetKeptIfRecorded ==
  /\ pc = "settled" /\ LoopFree
  /\ \A k \in Cached : stamp[k] # 0 /\ bytes[k] = TrackSize(Entry(k))
  => SumFunctionOnSet(TrackSizes, Cached) <= CacheMax

(* The directories, the rows and the job's variables are the abstract cache: an *)
(* album is there when its directory is whole, and a job works from it until it *)
(* has been delivered or purged under it.                                       *)
Albums == [k \in Keys |-> IF Valid(Entry(k)) THEN Entry(k).manifest ELSE 0]

Working == IF InUse /\ ~gone THEN Albums[key] ELSE 0

Condemned == victims \union doomed

Cache == INSTANCE AlbumCache WITH
  album <- Albums, using <- Working, condemned <- Condemned

KeepsAlbums == Cache!Spec

(* README.md:153: "Evict least-recently-served above this": after the bookkeeping of *)
(* a job the directory fits, when no failed commit has left anything there.          *)
BudgetKept == pc = "settled" /\ broken = {} => Usage(disk) <= CacheMax

(* bot/texts.py:84, "Too big for Telegram ({size}), so here is a direct link     *)
(* instead.": what Telegram refuses reaches the user as a link, so a job for the *)
(* chat that ends well has delivered every track.                                *)
RefusedIsLinked ==
  pc = "delivered" /\ dest = "telegram" /\ ~gone => {c[1] : c \in sent} = Tracks

=============================================================================
