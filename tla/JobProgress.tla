----------------------------- MODULE JobProgress ----------------------------
(***************************************************************************)
(* A job while it runs: the external program it waits for                  *)
(* (pipeline/process.py), the progress lines it reads from it              *)
(* (pipeline/ytdlp.py, pipeline/runner.py) and the one Telegram message    *)
(* they are shown in (bot/progress.py).                                    *)
(*                                                                         *)
(* Every progress line starts a task of its own, and all edits of the      *)
(* message go through one asyncio.Lock.  The lock is fair and the event    *)
(* loop starts tasks in the order of their creation, so the tasks and the  *)
(* job itself form a queue, whose head holds the lock.                     *)
(*                                                                         *)
(* A text is [phase, number]: the reports of a phase are numbered in the   *)
(* order in which they are made.  The percentage that a report shows is    *)
(* left out: it may be missing, repeat, or fall (each file of a download   *)
(* starts at 0), so two reports may look the same.                         *)
(* Time is counted in ticks; a timeout may expire at any moment.           *)
(***************************************************************************)
EXTENDS Chapters

CONSTANTS
  ChapterLists,  \* what a site may say about the chapters
  Durations,     \* what ffprobe may measure
  MinInterval,   \* MIN_EDIT_INTERVAL, in ticks
  RetryAfter,    \* the flood wait Telegram asks for, in ticks
  PipeSize,      \* lines a pipe holds
  MaxLines       \* bound: lines a program writes, and progress reports of a phase

ASSUME ProgressAssumption ==
  /\ MinInterval \in Nat \ {0} /\ RetryAfter \in Nat \ {0}
  /\ PipeSize \in Nat \ {0} /\ MaxLines \in Nat

(* Chapters start in the file, and what ffprobe measured is not empty. *)
ASSUME SiteAssumption ==
  /\ ChapterLists \subseteq Seq([start : Nat, end : Nat])
  /\ Durations \subseteq Nat \ {0}

VARIABLES
  script,    \* what the job still has to do
  main,      \* what its coroutine is waiting for
  cause,     \* why it kills the program
  program,   \* the child and its descendants: [leader, ok, reaped, helper, lines]
  pipe,      \* pipe[r]: lines in the pipe of reader r
  reader,    \* reader[r]: the task that reads it
  reports,   \* the number of the last report of this phase
  tracks,    \* the cut list being worked on: [chapters, duration, list]
  queue,     \* the updates that hold or wait for the lock, the holder first
  inflight,  \* whether the holder's edit has been sent
  lastPhase, lastText,   \* StatusMessage._last_phase, _last_text
  wait,      \* ticks until _should_edit lets the same phase through (_last_edit)
  shown,     \* the text of the message
  flood,     \* history: ticks left of the wait that Telegram's last answer asked for
  quiet,     \* history: ticks since Telegram answered an edit
  strayed    \* history: the child died and left a descendant behind

job == <<script, main, cause, tracks>>
child == <<program, pipe, reader, strayed>>
status == <<inflight, lastPhase, lastText, wait, shown, flood, quiet>>
vars == <<job, child, reports, queue, status>>

Readers == {"out", "err"}
Phases == <<"none", "fetch", "download", "split", "tag", "package", "upload", "failed", "deleted">>
Ended == {"done", "failed", "cancelled"}

Text(phase, n) == [phase |-> phase, number |-> n]
Update(phase, n, force) ==
  [do |-> "update", phase |-> phase, number |-> n, force |-> force, mine |-> TRUE]
Report(phase, n) == [Update(phase, n, FALSE) EXCEPT !.mine = FALSE]
Run(what) == [do |-> "run", what |-> what]
Stream == [do |-> "stream"]
Send == [do |-> "send"]
Delete == [do |-> "delete"]

NoProgram == [leader |-> "none", ok |-> FALSE, reaped |-> FALSE, helper |-> FALSE, lines |-> 0]
NoTracks == [chapters |-> <<>>, duration |-> 0, list |-> <<>>]
NoReaders == [r \in Readers |-> "none"]

-----------------------------------------------------------------------------
(* What a job does: _run_audio without a cache entry, with one under the id of the  *)
(* request and with one under the id that the metadata gave, and _run_video.  There *)
(* is an archive for two tracks and more, unless they are delivered one by one.     *)
Delivery == <<Update("upload", 0, TRUE), Send, Delete>>
Metadata == <<Update("fetch", 0, TRUE), Run("info")>>
Fetching == Metadata \o <<Update("download", 0, TRUE), Stream>>

BuildAudio == Fetching \o <<Run("probe")>>
Archive == <<Update("package", 0, TRUE)>>
Deliveries == {Delivery, Archive \o Delivery}
Scripts == {BuildAudio, Fetching \o Delivery} \union Deliveries
             \union {Metadata \o d : d \in Deliveries}

(* What follows the probe, for a list of n tracks: an update and a cut for each, *)
(* then the tags, and the delivery with or without an archive.                   *)
Cuts(n) ==
  [i \in 1..2 * n |-> IF i % 2 = 1 THEN Update("split", (i + 1) \div 2, FALSE) ELSE Run("cut")]
AfterProbe(n) ==
  {Cuts(n) \o <<Update("tag", 0, TRUE)>> \o [i \in 1..n |-> Update("tag", i, FALSE)] \o d :
     d \in IF n > 1 THEN Deliveries ELSE {Delivery}}

Init ==
  /\ script \in Scripts
  /\ main = "ready" /\ cause = "none"
  /\ program = NoProgram
  /\ pipe = [r \in Readers |-> 0] /\ reader = NoReaders
  /\ reports = 0 /\ tracks = NoTracks
  /\ queue = <<>> /\ inflight = FALSE
  /\ lastPhase = "none" /\ lastText = Text("none", 0)
  /\ wait = 0
  /\ shown = Text("none", 0)
  /\ flood = 0 /\ quiet = MinInterval
  /\ strayed = FALSE

-----------------------------------------------------------------------------
(* The status message. *)

(* Mutant of Enter: a forced update is served before those that wait. *)
EnterForcedFirst(u) ==
  queue' = IF u.force /\ queue # <<>> THEN <<Head(queue), u>> \o Tail(queue)
                                      ELSE Append(queue, u)

(* async with self._lock *)
Enter(u) == queue' = Append(queue, u)

(* The holder leaves the lock; the job goes on when it was its own update. *)
Leave ==
  /\ queue' = Tail(queue)
  /\ IF ~Head(queue).mine THEN UNCHANGED <<script, main>>
     ELSE IF main = "failing" THEN main' = "failed" /\ UNCHANGED script
     ELSE main' = "ready" /\ script' = Tail(script)
  /\ UNCHANGED <<cause, tracks>>

Final == Update("failed", 0, TRUE)
ShouldEdit(u) == u.force \/ u.phase # lastPhase \/ wait = 0

(* A report may show the percentage and the speed that are shown already. *)
MayLookTheSame(u) == ~u.mine /\ u.phase = lastText.phase

(* The first half of update, or of finish, by the holder of the lock. *)
Hold ==
  LET u == Head(queue)
      text == Text(u.phase, u.number)
  IN  /\ queue # <<>> /\ ~inflight
      /\ lastPhase' = IF ShouldEdit(u) /\ u.phase # "failed" THEN u.phase ELSE lastPhase
      /\ \/ /\ ShouldEdit(u) /\ (text # lastText \/ u.phase = "failed")
            /\ inflight' = TRUE
            /\ UNCHANGED <<queue, job>>
         \/ /\ \/ ~ShouldEdit(u)
               \/ (text = lastText \/ MayLookTheSame(u)) /\ u.phase # "failed"
            /\ Leave
            /\ UNCHANGED inflight
      /\ UNCHANGED <<child, reports, lastText, wait, shown, flood, quiet>>

Answered == inflight /\ inflight' = FALSE /\ quiet' = 0 /\ Leave

(* The edit is done, unless the message is gone. *)
Edited ==
  LET text == Text(Head(queue).phase, Head(queue).number)
  IN  /\ Answered
      /\ shown.phase # "deleted"
      /\ shown' = text /\ lastText' = text
      /\ wait' = MinInterval /\ flood' = 0
      /\ UNCHANGED <<child, reports, lastPhase>>

(* Mutant of Flooded: a flood wait is an error like another. *)
FloodedAsRefused ==
  /\ Answered
  /\ wait' = MinInterval
  /\ flood' = RetryAfter
  /\ UNCHANGED <<child, reports, lastPhase, lastText, shown>>

(* TelegramRetryAfter *)
Flooded ==
  /\ Answered
  /\ wait' = MinInterval + RetryAfter
  /\ flood' = RetryAfter
  /\ UNCHANGED <<child, reports, lastPhase, lastText, shown>>

(* TelegramAPIError: refused, or done and the answer lost. *)
Refused ==
  /\ Answered
  /\ shown' \in {shown} \union
       (IF shown.phase # "deleted" THEN {Text(Head(queue).phase, Head(queue).number)} ELSE {})
  /\ wait' = MinInterval /\ flood' = 0
  /\ UNCHANGED <<child, reports, lastPhase, lastText>>

Tick ==
  /\ wait > 0 \/ flood > 0 \/ quiet < MinInterval
  /\ wait' = Max({wait - 1, 0}) /\ flood' = Max({flood - 1, 0})
  /\ quiet' = Min({quiet + 1, MinInterval})
  /\ UNCHANGED <<job, child, reports, queue, inflight, lastPhase, lastText, shown>>

-----------------------------------------------------------------------------
(* The external program. *)
Streaming == script # <<>> /\ Head(script) = Stream

StartProgram ==
  /\ main = "ready" /\ script # <<>> /\ Head(script).do \in {"run", "stream"}
  /\ main' = "child"
  /\ program' = [NoProgram EXCEPT !.leader = "running"]
  /\ reader' = [r \in Readers |-> "reading"]
  /\ pipe' = [r \in Readers |-> 0]
  /\ reports' = 0
  /\ UNCHANGED <<script, cause, tracks, strayed, queue, status>>

Alive == program.leader = "running" \/ program.helper

(* What process.communicate reads is of no consequence and left out. *)
Write(r) ==
  /\ Alive /\ Streaming /\ pipe[r] < PipeSize /\ program.lines < MaxLines
  /\ pipe' = [pipe EXCEPT ![r] = @ + 1]
  /\ program' = [program EXCEPT !.lines = @ + 1]
  /\ UNCHANGED <<job, reader, strayed, reports, queue, status>>

(* yt-dlp runs ffmpeg for a part of the work, and waits for it. *)
HelperStarts ==
  /\ program.leader = "running" /\ ~program.helper /\ Streaming /\ main = "child"
  /\ program' = [program EXCEPT !.helper = TRUE]
  /\ UNCHANGED <<job, pipe, reader, strayed, reports, queue, status>>

HelperEnds ==
  /\ program.helper
  /\ program' = [program EXCEPT !.helper = FALSE]
  /\ UNCHANGED <<job, pipe, reader, strayed, reports, queue, status>>

LeaderExits(ok) ==
  /\ program.leader = "running" /\ ~program.helper
  /\ program' = [program EXCEPT !.leader = "exited", !.ok = ok]
  /\ UNCHANGED <<job, pipe, reader, strayed, reports, queue, status>>

(* Something else kills it, e.g. for want of memory. *)
LeaderDies ==
  /\ program.leader = "running" /\ program.helper
  /\ program' = [program EXCEPT !.leader = "exited"]
  /\ strayed' = TRUE
  /\ UNCHANGED <<job, pipe, reader, reports, queue, status>>

(* The event loop notices the exit: process.returncode is set. *)
Reap ==
  /\ program.leader = "exited" /\ ~program.reaped
  /\ program' = [program EXCEPT !.reaped = TRUE]
  /\ UNCHANGED <<job, pipe, reader, strayed, reports, queue, status>>

(* pump_stdout and drain_stderr.  A line of the streamed output may *)
(* be a progress record, which starts a task (_ProgressBridge.handle).           *)
Read(r) ==
  /\ reader[r] = "reading" /\ pipe[r] > 0
  /\ pipe' = [pipe EXCEPT ![r] = @ - 1]
  /\ \/ UNCHANGED <<reports, queue>>
     \/ /\ r = "out"
        /\ reports' = reports + 1
        /\ Enter(Report("download", reports'))
  /\ UNCHANGED <<job, program, reader, strayed, status>>

EndOfFile(r) ==
  /\ reader[r] = "reading" /\ pipe[r] = 0 /\ ~Alive
  /\ reader' = [reader EXCEPT ![r] = "done"]
  /\ UNCHANGED <<job, program, pipe, strayed, reports, queue, status>>

(* A line over the limit of asyncio.StreamReader: the iteration raises ValueError. *)
LineTooLong(r) ==
  /\ reader[r] = "reading" /\ pipe[r] > 0
  /\ reader' = [reader EXCEPT ![r] = "broken"]
  /\ UNCHANGED <<job, program, pipe, strayed, reports, queue, status>>

Complete == program.reaped /\ \A r \in Readers : reader[r] = "done"

(* returncode 0.  The measured file is cut into the tracks of its chapters. *)
ProgramSucceeds ==
  /\ main = "child" /\ Complete /\ program.ok
  /\ main' = "ready"
  /\ \/ /\ Head(script) # Run("probe")
        /\ script' = Tail(script)
        /\ UNCHANGED tracks
     \/ /\ Head(script) = Run("probe")
        /\ \E chapters \in ChapterLists, duration \in Durations :
             LET list == ChaptersFromInfo(chapters, duration)
             IN  /\ tracks' = [chapters |-> chapters, duration |-> duration, list |-> list]
                 /\ script' \in AfterProbe(Len(list))
  /\ program' = NoProgram /\ reader' = NoReaders
  /\ UNCHANGED <<cause, pipe, strayed, reports, queue, status>>

(* A status other than 0, or the exception of a reader: gather raises it and *)
(* leaves the child and the other reader alone.                              *)
ProgramFails ==
  /\ main = "child"
  /\ \/ Complete /\ ~program.ok
     \/ \E r \in Readers : reader[r] = "broken"
  /\ main' = "finishing"
  /\ UNCHANGED <<script, cause, tracks, child, reports, queue, status>>

(* Mutant of KillTree: the child alone is killed. *)
KillLeader ==
  program' = IF program.reaped \/ program.leader # "running" THEN program
             ELSE [program EXCEPT !.leader = "exited", !.ok = FALSE]

(* Mutant of KillTree: the test of the return code is inverted. *)
KillReaped ==
  program' = IF ~program.reaped THEN program
             ELSE [program EXCEPT !.leader = "exited", !.ok = FALSE, !.helper = FALSE]

(* _kill_tree: nothing when the child has been waited for, else the whole group. *)
KillTree ==
  program' = IF program.reaped THEN program
             ELSE [program EXCEPT !.leader = "exited", !.ok = FALSE, !.helper = FALSE]

StopProgram(why) ==
  /\ main = "child"
  /\ main' = "killing" /\ cause' = why
  /\ reader' = [r \in Readers |-> IF reader[r] = "reading" THEN "none" ELSE reader[r]]
  /\ KillTree
  /\ UNCHANGED <<script, tracks, pipe, strayed, reports, queue, status>>

Timeout == StopProgram("timeout")

(* await process.wait() *)
Waited ==
  /\ main = "killing" /\ program.reaped
  /\ main' = IF cause = "timeout" THEN "finishing" ELSE "cancelled"
  /\ UNCHANGED <<script, cause, tracks, child, reports, queue, status>>

-----------------------------------------------------------------------------
(* The other steps of the job. *)
StartUpdate ==
  /\ main = "ready" /\ script # <<>> /\ Head(script).do = "update"
  /\ main' = "updating"
  /\ Enter(Head(script))
  /\ tracks' = IF Head(script).phase = "tag" THEN NoTracks ELSE tracks
  /\ UNCHANGED <<script, cause, child, reports, status>>

StartSending ==
  /\ main = "ready" /\ script # <<>> /\ Head(script) = Send
  /\ main' = "sending"
  /\ reports' = 0
  /\ UNCHANGED <<script, cause, tracks, child, queue, status>>

(* _UploadProgress.handle, while a file goes to the file server. *)
UploadProgress ==
  /\ main = "sending" /\ reports < MaxLines
  /\ reports' = reports + 1
  /\ Enter(Report("upload", reports'))
  /\ UNCHANGED <<job, child, status>>

Sent ==
  /\ main = "sending"
  /\ main' = "ready" /\ script' = Tail(script)
  /\ UNCHANGED <<cause, tracks, child, reports, queue, status>>

(* StatusMessage.delete takes no lock, and its errors are ignored. *)
DeleteStatus ==
  /\ main = "ready" /\ script = <<Delete>>
  /\ main' = "done" /\ script' = <<>>
  /\ shown' \in {shown, Text("deleted", 0)}
  /\ UNCHANGED <<cause, tracks, child, reports, queue, inflight, lastPhase, lastText, wait, flood,
                 quiet>>

(* Anything the job calls between these steps, or to send the result, raises. *)
Raise ==
  /\ main \in {"ready", "sending"}
  /\ main' = "finishing"
  /\ UNCHANGED <<script, cause, tracks, child, reports, queue, status>>

(* Worker._fail: the row is written, then status.finish takes the lock. *)
FinishStatus ==
  /\ main = "finishing"
  /\ main' = "failing"
  /\ Enter(Final)
  /\ UNCHANGED <<script, cause, tracks, child, reports, status>>

(* Mutant of LeaveLock: a cancelled holder keeps the lock. *)
LeaveLockHeld ==
  /\ \E i \in DOMAIN queue : queue[i].mine /\ queue' = RemoveAt(queue, i)
  /\ UNCHANGED <<inflight, shown>>

(* The lock, or the place in its queue, of a job that is cancelled; an edit that *)
(* was sent may be done all the same.                                            *)
LeaveLock ==
  LET holds == inflight /\ Head(queue).mine
  IN  /\ \E i \in DOMAIN queue : queue[i].mine /\ queue' = RemoveAt(queue, i)
      /\ inflight' = (inflight /\ ~holds)
      /\ shown' \in {shown} \union
           (IF holds THEN {Text(Head(queue).phase, Head(queue).number)} ELSE {})

(* Worker.stop cancels the job once, at whatever it awaits. *)
Cancel ==
  \/ StopProgram("cancel")
  \/ /\ main \in {"updating", "failing"}
     /\ main' = "cancelled" /\ cause' = "cancel"
     /\ LeaveLock
     /\ UNCHANGED <<script, tracks, child, reports, lastPhase, lastText, wait, flood, quiet>>
  \/ /\ main \in {"ready", "killing", "sending", "finishing"} /\ cause # "cancel"
     /\ main' = "cancelled" /\ cause' = "cancel"
     /\ UNCHANGED <<script, tracks, child, reports, queue, status>>

ProgramStep ==
  \/ HelperStarts \/ HelperEnds \/ LeaderDies \/ Reap
  \/ \E ok \in BOOLEAN : LeaderExits(ok)
  \/ \E r \in Readers : Write(r) \/ Read(r) \/ EndOfFile(r) \/ LineTooLong(r)

MainStep ==
  \/ StartProgram \/ ProgramSucceeds \/ ProgramFails \/ Waited
  \/ StartUpdate \/ StartSending \/ Sent \/ DeleteStatus \/ Raise \/ FinishStatus

Next ==
  \/ Hold \/ Edited \/ Flooded \/ Refused \/ Tick
  \/ ProgramStep \/ MainStep
  \/ Timeout \/ Cancel \/ UploadProgress

Spec == Init /\ [][Next]_vars

(* The coroutine goes on, Telegram answers or its client gives up, a timer that *)
(* is due fires and the system reaps what has exited.  The program may hang.    *)
FairSpec ==
  /\ Spec
  /\ WF_vars(MainStep) /\ WF_vars(Hold) /\ WF_vars(Edited \/ Flooded \/ Refused)
  /\ WF_vars(Timeout) /\ WF_vars(Reap)

-----------------------------------------------------------------------------
TypeOK ==
  /\ main \in {"ready", "updating", "child", "killing", "sending", "finishing", "failing"}
              \union Ended
  /\ program \in [leader : {"none", "running", "exited"}, ok : BOOLEAN, reaped : BOOLEAN,
                  helper : BOOLEAN, lines : 0..MaxLines]
  /\ pipe \in [Readers -> 0..PipeSize]
  /\ reader \in [Readers -> {"none", "reading", "done", "broken"}]
  /\ wait \in 0..(MinInterval + RetryAfter)
  /\ flood \in 0..RetryAfter /\ quiet \in 0..MinInterval
  /\ inflight => queue # <<>>
  /\ \A i \in DOMAIN queue : queue[i].phase \in Range(Phases)
  /\ Cardinality({i \in DOMAIN queue : queue[i].mine}) =
       IF main \in {"updating", "failing"} THEN 1 ELSE 0

Broken == \E r \in Readers : reader[r] = "broken"

Position(phase) == CHOOSE i \in DOMAIN Phases : Phases[i] = phase
Before(a, b) ==
  \/ Position(a.phase) < Position(b.phase)
  \/ a.phase = b.phase /\ a.number <= b.number

(* The message shows the reports in the order in which they were made: it never    *)
(* goes back to an earlier phase, to an earlier report of the same phase, or from  *)
(* "failed" to anything, although every line has a task of its own and some of     *)
(* them are still waiting when the job goes on, fails or is cancelled.  It says    *)
(* nothing of the percentage, which may fall from one report to the next (pct and  *)
(* download_video in pipeline/ytdlp.py).  A reader that raised is the exception:   *)
(* the other one goes on after the failure.                                        *)
ShownInOrder == [][~Broken => Before(shown, shown')]_vars

EditInItsTime ==
  LET u == Head(queue)
  IN  u.force \/ u.phase # lastPhase \/ (quiet = MinInterval /\ flood = 0)

(* While the phase stays the same, edits keep their distance from the answer to *)
(* the one before, and from the end of a flood wait.                            *)
EditsAreSpaced == [][~inflight /\ inflight' => EditInItsTime]_vars

(* No program outlives the call that runs it, through failures, timeouts and     *)
(* cancellations, with the two exceptions the code has: a reader that raised, and *)
(* a child that died before its own child.                                        *)
ProgramEndsWithCall ==
  Alive => main = "child" \/ Broken \/ strayed

(* What ffmpeg is asked to cut are pieces of the file, in order, one for every  *)
(* chapter that is long enough, and nothing between two starts is left out.     *)
TracksAreSound ==
  tracks # NoTracks => IsTrackList(tracks.chapters, tracks.duration, tracks.list)

(* "a yt-dlp hang or an ffmpeg crash can never take the bot down": a job ends,   *)
(* although its programs may hang, fill their pipes or never close them.         *)
JobEnds == <>(main \in Ended)

=============================================================================
