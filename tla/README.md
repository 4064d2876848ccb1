# A TLA+ model of chaptercut

chaptercut is a Telegram bot: a user sends a link, chooses audio or video, a quality and a destination, and gets the
media back, cut into one tagged track per chapter. Beside the bot runs a small HTTP file server (`filexchange`) for
results that Telegram refuses or the user prefers as a link. This directory holds the specification of both: what
their parts keep and do, what is checked of them with TLC and what is proved of them with TLAPS. Paths below are
relative to the repository; `cc/` stands for `src/chaptercut/` and `fx/` for `src/filexchange/`.

## 1. Inventory

| Part | State | Operations | What is hard | What makes it correct | Model |
|---|---|---|---|---|---|
| Job queue and worker (`cc/queue/`) | `jobs` table in SQLite, one shared connection and its transaction, the worker task, its event, the scratch directories | enqueue, claim, run, finish, fail, cancel, mark interrupted, re-queue | statements of other coroutines land inside the claim's transaction; a crash or a grace period at any await | no job lost, served in order, delivered at most once in a life of the process, done only if delivered, no lost wake-up | JobTable, JobQueue, PromisedQueue |
| Start-up and shutdown (`cc/main.py`) | which of the two is going on | sweep, re-queue, drain handlers, stop the worker, close | each step may meet a worker that is idle, claiming, running or dead | the process ends, unless the loop has died; the next one finds what the last one left | JobQueue |
| Audio cache (`cc/cache/`) | one directory per medium: manifest, cover, tracks; a staging directory | lookup, commit, remove, sweep | system calls of a commit or a removal interrupted by a crash, concurrent with a reader | an album is there whole or not at all, and is kept until it is evicted or purged | CacheStore, AudioJobs, AlbumCache |
| Audio pipeline (`cc/pipeline/runner.py`, `package.py`, `sink.py`) | the job's tracks, the archive, `cache_entries` rows | look up, build, commit, package, deliver, record, evict | a purge under a running job; rows that lag behind the disk | what is delivered is complete; only what must go is evicted | AudioJobs, JobProgress |
| Delivery (`cc/bot/deliver.py`) | none | send one, an archive, or each track; fall back to a link | one send of several refused; an upload whose answer is lost | all of the result reaches the user | AudioJobs, LinkDelivery |
| Choice keyboards and intake (`cc/bot/routers/`) | the request row, the message's keyboard | one handler per button | handlers overlap and work on a copy of the row | the job is what was tapped | ChoiceFlow (and JobQueue's enqueue) |
| Chapters and formats (`cc/pipeline/chapters.py`, `formats.py`) | none | compute the list of tracks, the list of qualities | ties, missing and overlapping values | agree with a definition without loops | Chapters, Formats |
| Subprocess runner (`cc/pipeline/process.py`) | a child, its group, two pipes, two readers | run, stream lines, kill on timeout or cancellation | exit, output, timeout and cancellation in any order | no program outlives its call | JobProgress |
| Status message (`cc/bot/progress.py`) | last phase, text and time, a lock | update, finish, delete | a task per progress line; flood waits | shows the reports in their order, keeps its intervals | JobProgress |
| File exchange server (`fx/app.py`, `fx/storage.py`) | one directory per upload | upload, download, sweep, delete, purge | system calls of uploads, sweeper and purge interleave; crash | links resolve to whole files, in time, and retention is enforced | FileExchange |
| File server client (`cc/bot/fileserver.py`) | none | upload, purge, purge all | a request is sent once: its answer may be lost although the server carries it out | a link that is told is the whole result; a deletion that is reported is final; an orphan is reclaimed | LinkDelivery |
| Commands (`cc/bot/routers/commands.py`) | none | `/cancel`, `/cache`, `/files`, `/queue`, `/cookies` | they run beside the worker, the sweeper and uploads | a reported effect is the effect | `/cancel` in JobQueue, `/cache purge` in AudioJobs, `/files purge` in LinkDelivery |
| Middlewares (`cc/bot/middlewares/`) | a token bucket per user | admit, refuse, reject a stranger | fractions of tokens, idle times, refused updates and restarts add up over a long sequence | nobody gets more than the rate; nobody who keeps to it is refused | Throttle |
| Providers, yt-dlp, ffmpeg, tags, texts, settings | none | parsing, command lines, wording | - | - | not modelled: no state; the models see that such a step succeeds, fails or is cancelled |

How they interact: the routers write the request row and insert a job (SQL on the shared connection), then set the
worker's event. The worker claims the oldest job and calls the pipeline, which reads and fills the cache and runs
yt-dlp and ffmpeg as child processes; their output lines call back into the status message. The worker delivers the
result through Telegram or through an HTTP upload to the file server, records the cache entry, evicts and finishes the
row. `/cancel` and `/cache purge` reach into the table and the cache while all this goes on. Everything in the bot runs
on one asyncio loop, so *what a coroutine does between two awaits* is atomic; what runs in threads (SQLite statements,
packaging, the file server's system calls) is not.

## 2. Modules

| Module | Models | Its checks and proofs |
|---|---|---|
| `JobTable` | `cc/queue/repository.py` on the table: insert, oldest queued, cancel, set state, re-queue | used by JobQueue |
| `JobQueue` | the bot process around the table | `MCJobQueue`, three runs; `JobQueueProofs` |
| `PromisedQueue` | abstract: an accepted job stays pending until it is settled, and "done" means sent | implemented by JobQueue |
| `FileExchange` | the file server, system call by system call | `MCFileExchange`, two runs; `FileExchangeProofs` |
| `LinkDelivery` | FileExchange with the bot as its client: uploads by the worker, `/files purge` by the administrator | `MCLinkDelivery`; `LinkDeliveryProofs` |
| `CacheStore` | an entry as a directory: what valid means, what a removal takes away | used by AudioJobs |
| `AudioJobs` | the worker's audio jobs over the cache | `MCAudioJobs`, three runs; `AudioJobsProofs` |
| `AlbumCache` | abstract: albums are fetched, used, condemned and dropped, each in one step | implemented by AudioJobs (`AudioJobsProofs`) |
| `Sorting` | `sorted` of Python: the listing of a finite set in a strict order | used by Formats and Chapters |
| `Formats` | the list of qualities, and `IsSelection`, its reference | used by ChoiceFlow; proved in `ChoiceFlowProofs` |
| `ChoiceFlow` | the callback handlers over the request row | `MCChoiceFlow`; `ChoiceFlowProofs` |
| `Chapters` | the list of tracks, and `IsTrackList`, its reference | used by JobProgress; proved in `JobProgressProofs` |
| `JobProgress` | a running job, its programs, its status message | `MCJobProgress`; `JobProgressProofs` |
| `Throttle` | the two middlewares before every handler | `MCThrottle`; `ThrottleProofs` |
| `DataInduction` | no code: lemmas on induction, on sums over finite sets and on `Listing` | used by the proofs of the cache, the formats and the chapters |

`PROJECT.json` names, for every definition, the lines it stands for. Definitions whose comment begins with "Mutant of"
are wrong on purpose: each is a plausible mistake in the definition it names, kept to show that the property that
guards it notices.

### JobQueue
An action is what a coroutine does between two awaits together with the effect of the statement it submits: aiosqlite
has one thread that executes statements in the order of submission. `pc` names the await at which the worker is
suspended. `db` is the table as the connection sees it, `base` what is committed, `tx` whether a transaction is open:
a handler's statement that lands between `BEGIN IMMEDIATE` and `COMMIT` of `claim_next` joins that transaction, as in
the code. Phase, error and timestamps of a row are abstracted; `created_at` is taken to be monotone. A crash loses
what is not committed (process crash, not power loss). Statements that raise are `WorkerFault` and one
disjunct of the handlers' steps, at most `MaxFaults` of them; errors of the statements that the shutdown itself issues are seen as
a crash. A statement that raises in the loop, or in the `except` clause of a job, ends the task; `stop()` awaits that task and
raises its exception again (`StopRaises`): then the connection is not closed and its thread keeps the process, until it is killed.
`delivered` counts the deliveries of the present life of the process and starts again at 0 with it, `sent` is what was ever delivered. An enqueue is a handler of its own with an INSERT, an edit and a wake-up. The audio-only path of the intake
announces the job before it inserts it (`cc/bot/routers/intake.py:84`); the model has that window and no property
forbids it. One `/cancel` per user is in flight.

### FileExchange
A step of a thread is one system call. An upload creates a staging directory, opens, writes and closes its file, and
`commit` renames the directory; the sweeper and `purge_all` list the directories and remove them in two calls (unlink
in the opened directory, then `rmdir` by name), so a rename can come between. A directory's time is that of its last
change of entries, which a rename does not touch. Time counts in ticks. Authentication, the Content-Length
check and the listings change nothing and are left out. Three clocks decide the end of a link (directory, file, and
the commit that dates the answer): the model has all three.

### CacheStore and AudioJobs
A directory is [manifest, files]; a manifest is absent, torn or the number of the build it describes; a file holds the
number of the build that made it, and so a mixture is visible. An empty directory counts as a missing one. The worker
runs one job at a time; a step is a stretch between two awaits, or one system call where several files are touched
(the loop is then held: only the packaging thread runs). The files of a removal go in any order. What an entry weighs
on the disk is its tracks, its manifest (`ManifestBytes`, a torn one as much as a whole one) and its cover (`CoverBytes`, there as long as some track is);
its row has the size of the tracks alone (`TrackSize`). A commit removes an older staging directory of its key, moves the files, writes the
manifest and renames; any of these may raise (`CommitRaises`: a full disk), and then the job fails and the process lives on with what was staged:
`broken` remembers the keys of such commits. Removals succeed (`ignore_errors`). Served times are compared as if they were all different: `iso()` keeps whole
seconds, and the order of two entries served within one second is not modelled. A placeholder id (`Keys \ Canonical`) skips the first lookup and resolves to any key, as
when the URL does not give the id. Any await may raise. `PurgeNamed` and `PurgeAll` are `/cache purge`; the sweep
inside `CacheStore.clear` takes what failed commits left, since no commit is under way when a handler runs.

`AlbumCache` says the same in seven steps without files, rows or system calls. Its `album[k]` is the build of k's
directory when that is valid and 0 otherwise, `using` the album of the job between its lookup and its delivery,
`condemned` the keys chosen for eviction or purge whose rows are not forgotten yet. An album fetched under a placeholder
(metadata without an id) may be replaced by a second fetch, since no lookup finds it; every other one is only dropped when condemned.

### LinkDelivery
`call[t]` is how far the delivery has come that uploads t. The server's steps are those of FileExchange, joined by
conjunction: a body has as many chunks as the file, begins only if the declared size is allowed, and ends there. A client
that gives up (timeout, broken connection, its own end) leaves the server with a body that breaks off, or with one that is
complete and is published all the same. A DELETE is `underway` until the server sees it or it is lost, and its
answer is lost when the command no longer waits. One `/files` command waits at a time. A crash is the server's.

### Throttle
An update is one step, as neither middleware awaits between its read and its write. Time is in ticks, tokens in fractions of
which a tick brings `PerMinute`, so the arithmetic of the floats is exact here; the rounding of floats is not modelled. `mark`, `seen` and `lives` are an observer that may start to count at
any moment, so that `RateBounded` speaks of every interval and not only of those that start with the process.

### ChoiceFlow
One request and its message. A handler keeps the copy of the row that it read; `pc` is the awaited operation it is
about to perform. Taps are possible only on buttons that the message shows. Handlers overlap; `Raise`
ends one at any await (Telegram, SQLite or yt-dlp raising, and the end of the process); the request may expire at any
time. `callback.answer` and the queue position change nothing and are folded away. In `Formats` an unknown size is 0 (the code
takes a `filesize_approx` that is 0 for a known one, which yt-dlp does not report). `site` chooses whether there is a
file server and whether the link offers video.

### JobProgress
`script` is what remains of the job: updates, programs to run, the delivery. The steps between them that neither run a program nor
edit the message can only raise (`Raise`). Every progress line starts a task that updates the message, and
`asyncio.Lock` is fair; so the tasks and the job form one queue whose head holds the lock. `wait` counts the ticks
until `_should_edit` passes again. Telegram answers an edit with success, a flood wait or an error, and an error may
hide a success. A program is [leader, ok, reaped, helper, lines] with a pipe and a reader for each of its outputs;
the helper is the ffmpeg that yt-dlp starts. Timeouts expire at any moment, `Worker.stop` cancels once, at any await.
A text is [phase, number]: reports are numbered in the order in which they are made. The percentage they show is left out. It is missing where
the total is unknown, may fall when an estimated total grows, and starts again at 0 for the second file of a video
(`cc/pipeline/ytdlp.py:63-66`, `277`); a report that looks like the one shown is not sent (`MayLookTheSame`).
In `Chapters` a missing end is 0. The comment at `cc/pipeline/chapters.py:11-13` can be read as if short chapters were
kept; the code drops those under half a second, and so does the model.

## 3. Runs

All run with `tlc -config <cfg> <module>`.

| Run | Instance | Distinct states | Shows |
|---|---|---|---|
| `queue_safety` | 2 users, 2 jobs, 2 starts, 1 cancel, 1 fault | 282,644 | the invariants of the queue, order, legal changes of state, that JobQueue implements PromisedQueue, that every shutdown ends unless a fault has killed the loop, and that every committed job is settled if no statement fails |
| `exchange_pair` | 2 uploads of 1 chunk, sweeps and single deletions (`PairSpec`), 3 ticks | 696,728 | links are whole and in time; retention is enforced although a sweep may raise |
| `link_delivery` | 1 upload of a result of 0 to 3 chunks (limit 2), 3 ticks, 1 crash, 1 purge of all, 1 deletion by name | 699,438 | told links are whole results; reported deletions are final; staging and files nobody was told of are reclaimed |
| `audio_jobs` | 3 jobs, 2 media (one known by a placeholder), albums of 2 tracks, manifest and cover of 1 byte each, a limit of 5, 1 purge, 1 crash, commits that raise | 1,412,333 | entries are whole at every system call; deliveries complete; evictions necessary, in order, and sufficient for what the rows count; AudioJobs implements AlbumCache |
| `choices` | 5 taps, 2 handlers at a time, 3 possible answers of yt-dlp | 888,423 | the dialogue's properties below; and the selection of formats equals its reference on all lists of at most 3 formats |
| `job_progress` | every script, 6 lists of chapters, 2 lines, pipes of 1 line, flood wait of 2 | 593,478 | program, message and cut list; the job ends |
| `throttle` | 2 users and a stranger, 5 ticks, 3 to a minute, rate 2, 1 restart | 1,037,350 | the rate over every interval; patience is served |
| `cancel_race`, `done_rerun`, `sweep_kills_upload`, `cache_over_budget`, `refused_not_linked` | as above, smaller | - | five disagreements with the texts (section 5) |

Why the bounds are enough to be interesting. Two jobs are needed for order and for a claim that meets another's
insert; two starts for everything that a crash, a shutdown or a grace period leaves to the next process; one
fault at each statement in turn. Two uploads are needed for a sweep that raises because another removal was faster;
one, with a client that gives up, a crash, a sweep, a purge and a deletion, for the rest. In five ticks a bucket
of three tokens is spent and refilled by three and a third. Three jobs over two media let a result be built, hit and evicted, with a third
job that forces the choice. An entry weighs 5 (tracks of 1 and 2, manifest, cover), so with a limit of 5 one just fits, and what a failed commit left
decides whether it does. Five taps reach a destination by way of Back and a second type; two
handlers show every overlap of two taps (more than two at once is covered by the proofs). Two progress lines with pipes of one line make a program wait for its
reader. The proofs of section 4 drop these bounds for the properties they cover.

Deadlock is checked in `exchange_pair`, `link_delivery`, `throttle` and the violations of the queue. It is off where the
bounded system really comes to rest: a bot that is idle after its last job (`audio_jobs`), after a
fault that ended the loop (`queue_safety`), at the end of a dialogue (`choices`) or of a job (`job_progress`).

Properties worth a second look:
- `NoLostWakeup`: when the worker sleeps with its event clear, each queued job has a handler that still has to set it
  (or has raised after the INSERT; the idle poll of 30 s then finds the job). It fails if the event is cleared after the claim.
- `NothingHangsUncommitted`: what a handler wrote inside the claim's transaction is committed or rolled back as soon as the
  claim is over, except after a shutdown that cancelled it.
- `DeliveredOncePerStart`: the bot may deliver a job again after a restart, never twice in one life, whichever life it was delivered in first.
- `ShutdownEnds`: a shutdown ends, at whatever await the loop is; the exception it names is a loop that died of a fault (section 5).
- `PublishedIsWhole`, `PurgedStaysGone`: rename, unlink and rmdir of three actors in any order.
- `PurgeReportsHold`: what the client may conclude from a 404 or an answer, when uploads commit and others delete meanwhile.
- `EntriesAreWhole`: at every system call of commit and of removal, not only between operations.
- `NothingHalfMade`: what a failed commit staged may stay while the process lives; nothing else half made does, whatever crashed before.
- `BudgetKeptIfRecorded`: total, order and usage are read at three moments, with purges in between; if every entry has a row of its tracks' size,
  the tracks are within the limit. What escapes it is what the rows do not count: entries without a row (`cache_over_budget`), manifests, covers and what
  failed commits left.
- `KeepsAlbums`: fails if the resolved key is not looked up, since an album that is there would be fetched again over a reader.
- `PatienceIsServed`: fails if the refill drops fractions, although no single update shows it.
- `LastTapDecides`, `SequentialChoicesAreKept`: what a job is made of, when the row changes under the handler.
- `ShownInOrder`: the tasks of earlier progress lines never overwrite a later report, a later phase or the failure. It speaks of the order of the reports,
  not of the percentage, which the code lets fall.
- `NeverStuck`: on every way on which nothing raises the dialogue has a button or its job. A way on which something does, such as a timeout of yt-dlp, which `choices.py:149`
  does not catch, leaves it without one.
- `ProgramEndsWithCall`: nothing of a program is alive outside its call. It names the two exceptions the code has: a
  reader that raises (a line over the limit of `asyncio.StreamReader`: nothing kills the child), and a child killed from outside
  before its own child (its return code is set, so `_kill_tree` leaves the group alone).

Fairness. `queue_safety`: the worker's steps, the steps of the shutdown and the start of the process are weakly fair:
the loop of asyncio runs every ready task, statements and jobs end (each program has a timeout), the grace period is
a timer, and the container is restarted (`docker-compose.yml:4`). Users, crashes and cancels are not fair.
`KeepsThePromiseInTime` is claimed for behaviours without a fault: after one the loop is dead and nothing restarts it
(hazard at `worker.py:101`). `exchange_pair` and `link_delivery`: the sweeper's
steps and the restart; an upload, a client, the administrator and the clock are not. `job_progress`: the coroutine, the holder
of the lock, an answer (or the client's own timeout) from Telegram, a due timeout and the reaping of an exited child are fair;
the program itself may hang, stop reading or never close its pipes.

## 4. Proofs

Checked with `tlapm <module>`, for every value of the constants under the assumptions that the modules state
(named in each module that declares constants: bounds are numbers, the set of jobs is finite and each has an owner,
null values are not members, a setting has one of its legal values).
The invariants were tried with TLC before they were proved.

**JobQueueProofs.** `TypeCorrect`, the types of the queue (no run checks them: the theorem covers every bound). `UncommittedOnlyInClaim` from `TxInv`: the transaction is open exactly at the awaits of the
claim, or after the shutdown cancelled it, and outside of it `db = base`. `OneJobRuns` from `RunInv`: a row says running only
between the claim's UPDATE and the end of the job, and then it is the claimed one; and while a transaction is open no committed row says running,
without which a rollback could bring one back. `DoneWasDelivered` and `OneDeliveryPerStart` from `DeliveryInv`: a job that is queued, or claimed but not yet sent, has no delivery in this
life, and a claim takes only what is queued. `WakeNeverLost` from `WakeInv`, which extends the property back to the SELECT that found nothing, because a job inserted after it is the one
at risk. `ScratchIsBounded`, `OnlyFaultsKillTheLoop`. `StateChangesAreLegal` from `ClaimInv` (what the
claimed row can say at each await) and `CommitInv`. `FirstComeFirstServed` from `OrderInv` (rows are numbered in the
order of insertion; between SELECT and UPDATE the claimed row stays the oldest). `QueueKeepsItsPromise`: JobQueue
implements `PromisedQueue!Spec` under `Outcome`, where queued, running and interrupted are all pending: initial states
map to the initial state and every step to a `Decide`, a `Send` or a stutter.

**FileExchangeProofs.** `ExchangeTypeCorrect`; `LinksResolveToWholeFiles` from `WholeInv` (a handler past the end of
the body has a whole file, and a final name is only reached from there); `DownloadsEndInTime` from `TimeInv` (the
last write is not later than the commit that dates the answer); `DeletionIsFinal` from `PurgeInv` (a link that existed when
the purge began is still on its list, being unlinked, or gone; and what is gone has no handler that could make it again).

**LinkDeliveryProofs.** `BotIsAClient`: LinkDelivery implements `FileExchange!Spec`, so every safety theorem of FileExchangeProofs holds of the
pair (`DeletionIsFinalForTheBot` is one). `ToldLinksAreTheResult` from `CallInv` (a body that is complete has all chunks of the
file, and a link that the bot holds was answered). `ReportsHold` from `CommandInv`: an answer that is on its way speaks of a link that has been
published and is gone, and `PurgeInv` says that what is gone has no handler that could make it again.

**AudioJobsProofs.** `CacheServesWholeEntries` and `NothingHalfMadeIsSeen` from `CommitInv` (what the staging directory
holds at each call of the commit), `WholeInv` (a readable manifest vouches for its files, in staging too) and `SweptInv`
(what is neither empty nor whole is being removed or committed, or was staged by a commit that raised, and then its key is in `broken`). `DeliveriesAreWhole` from `DeliveryInv` (while a job uses an entry that was
not purged, the entry stays valid, and archive and sent tracks are of its build), under the condition that there is one track or the delivery is not
"individual": the other case is the finding `refused_not_linked`.

`CacheTypeCorrect` adds `LedgerType` and `TransferType`, the types of the rows and of the delivery. `JobsKeepAlbums`: AudioJobs implements `AlbumCache!Spec`. Beside those invariants it needs
`KeepInv`: the entry of a job that serves from it stays unless it is purged, no two media share a build, a job fetches only what
it has looked up and not found, and a whole entry of a canonical key is removed only when it is condemned. The two properties of
eviction: `EvictionIsNeeded` rests on sums (`UsageSplits`: the usage of the disk is that of the entries older than k, of k, and of
the rest with the staging directories), because `Victims` subtracts the sizes of the older entries as the code does, and the
property speaks of the disk without them; `TheOldestGoFirst` on `StampInv` and `AgeInv` (where every delivery was written down, the row's
time, and the order that the eviction has read, are those of the last serving, also when a purge deletes rows in between). `TheBudgetIsKept` is the other side of the finding `cache_over_budget`: if every entry has a row
of its tracks' size, the tracks are within the limit after the bookkeeping of a job. It rests on `BudgetInv` (an eviction that is over, or was not called for, leaves rows
within the limit, entries within the limit, or no entry with a row; purges, removals and forgotten rows keep that true) and on
`EvictionFits` (what stays is apart from what is older than the first entry kept, so the two together weigh no more than the disk), and on
`TracksWeighLess` (tracks weigh no more than the directory that holds them).

**ChoiceFlowProofs.** `TheLastTapDecides` from `DecisionInv`: each handler is where its button leads and carries in
its copy what the tap decided. `TheChoicesAreKept` from `KeyboardInv` (one keyboard at a time, and only buttons this dialogue
has) and `SequentialInv` (with one handler at a time the row agrees with the last taps whenever the destination keyboard
is shown). For a dialogue without an accident (one tap at a time, no handler lost, no failure of yt-dlp):
`OneDialogueOneJob` from `DialogueInv` (once there is a job, the only handler left is the one that removes the buttons), and
`TheDialogueGoesOn` from `LiveInv` (the qualities shown are those of the row, a destination is asked for only with a type in the row,
and so no handler finds its request unfit). `ChoiceTypeCorrect` from `FieldInv`. `SelectionIsRight` says, without a bound on the list, that
`SelectVideoFormats` meets its reference: `BestIsKept` carries an invariant through the loop (each height that was met is
kept with the first of its best formats so far, for which `Exceeds` must order ranks strictly), and `ElementsBefore` counts the heights before
the n-th of a sorted list. `TheOptionsAreTheBest` lifts it to the request row with `SelectionInv`: a handler about to write options made them
from the answer that is recorded with them. `FormatsAssumption` says that an answer is a list of formats with whole heights and rates.

**JobProgressProofs.** `ProgramsEndWithTheirCall` from `QueueInv` (the job has at most one update of its own in the queue and only while it waits for
it, so that nothing moves the job on while it waits for a program) and `ProgramInv` (a descendant
outlives the child only if the child was killed from outside; the return code is set only once it has exited).
`EditsKeepTheirDistance` from `SpacingInv`: what is left to wait covers what is missing of the interval
and the flood wait. `TheMessageKeepsTheOrderOfTheReports` from `OrderInv`: the texts that wait for the lock are in order, all of them come after the one
shown and before everything the rest of the script, or the lines still in the pipes, can bring; so the order of the operations of a script is part of the invariant, and it is
proved for a list of tracks of any length. `ProgressTypeCorrect` from `RangeInv` on top of these. `TracksAreRight` says, for all chapters and durations, that
`ChaptersFromInfo` meets `IsTrackList`: the sort keeps every chapter, an end is the chapter's own or is filled in from the next start
(`GapIsFilled`: among equal starts only the last one is followed by a gap, and the others give pieces of no length, which are skipped), and the
pieces that are long enough keep their order. `TheTracksAreSound` follows for the running job. `SiteAssumption` says what is known of the input:
starts and ends are naturals (times in ticks) and the measured duration is positive.

**DataInduction.** The lemmas that the proofs about data share. An induction theorem with an operator as a parameter cannot be used by the installed
provers, so `NaturalInduction` and `SubsetInduction` are stated for *sets* (a set that has each natural whose predecessors it has contains them all) and used with a
set that is comprehended for the purpose. From them come the lemmas about `SumFunctionOnSet` (`SumStep`, `SumTakeOut`, `SumSame`, `SumGrows`, `SumLess`) and
about `Listing` (`ListingExists`, `Listed`, `ElementsBefore`).

**ThrottleProofs.** `TheRateIsBounded` from `RateInv`: what the observer has seen plus the tokens still in the bucket stays within a bucket for
each life and what the rate has brought up to the last refill. `PatienceSuffices` from `PatienceInv`: a bucket with less than a token holds all that the
rate has brought since the last update that was handled.

Only model-checked: liveness (`ShutdownEnds`, `KeepsThePromiseInTime`, `RetentionEnforced`, `OrphansReclaimed`,
`JobEnds`), which rests on ENABLED and the prover does not reach. Every invariant and every safety property of a passing run is a theorem.

## 5. Disagreements between code and texts

Each is the counterexample of a run that checks one quoted sentence (`findings` in `PROJECT.json`).
- `cancel_race`: a `/cancel` whose UPDATE comes between the SELECT and the UPDATE of `claim_next` reports the job cancelled; it runs all the same.
- `done_rerun`: a grace period that ends while `finish(DONE)` is awaited overwrites "done" by "interrupted"; the next start delivers again.
- `sweep_kills_upload`: a sweep removes the staging directory of an upload that is still being received.
- `cache_over_budget`: an entry whose delivery failed has no row, is not counted and is never evicted.
- `refused_not_linked`: with individual delivery, a later track that is too big is replaced by a link to the first.

The models have four more behaviours of this kind. No run is made of them; the properties that come near them name them as their exceptions.
- When a fault has ended the worker's task, `stop()` raises on SIGTERM, `repo.close()` is skipped (`cc/main.py:150-151`), and the thread of
  the connection keeps the process (`StopRaises`; the exception of `ShutdownEnds`).
- `finish(FAILED)` may raise in the `except` clause that is to keep the loop alive (`cc/queue/worker.py:124`), and the loop ends (`WorkerFault`; `OnlyFaultsKillTheLoop`).
- Rows have the size of the tracks (`cc/queue/worker.py:210`), so manifests and covers are not counted, and a cache with a row for every entry may stay
  over its limit by as much (`BudgetKeptIfRecorded` speaks of the tracks).
- A line that is too long for the stream reader ends the call that runs a program, and its timeout, and the program runs on (`LineTooLong`; the exception of
  `ProgramEndsWithCall`), although `docs/architecture.md:42` gives every subprocess a timeout.

## 6. Not modelled, and why

Parsing and wording (providers, texts, settings, tags, command lines): no state. What is inside media files. Power loss, where
`synchronous=NORMAL` may lose commits. The heartbeat file, signals and the construction of objects: their only effect is on the
container's health check. Errors that `shutil.rmtree` ignores (a directory that cannot be removed). Clients that guess or
reuse links. The queue position a user is told. Overlapping taps on Audio and Video and a double tap are in ChoiceFlow's behaviours, but the code defines no order for
them and no property claims one; the same holds for a link that ends a little before its `expires_at` because the sweep
counts from the directory's time. A failure of the bookkeeping after a delivery marks the job failed although the user has the
file; the models have that step and no text promises otherwise.

## 7. Order of the work, and what is left

In the order in which it was done: the queue with its refinement, the file server, the cache, the dialogue, the
running job, the throttle, the bot as the file server's client, the abstract cache. Left for later:
1. Two links at once in `link_delivery`, and the crash of the bot as a step apart from the server's.
2. The request table's purge at start-up and the heartbeat, with the rest of `cc/main.py`.
