------------------------------ MODULE JobQueue ------------------------------
(***************************************************************************)
(* The bot process around its job queue: the background Worker, the        *)
(* message handlers that enqueue and cancel jobs, the shutdown sequence,   *)
(* crashes and restarts.  All of them share ONE aiosqlite connection, whose *)
(* thread executes their statements in the order they were submitted.      *)
(*                                                                         *)
(* Everything runs on one asyncio loop: an action is what a coroutine does *)
(* between two awaits, together with the effect of the statement it then   *)
(* submits.  pc names the await at which the worker's task is suspended.   *)
(***************************************************************************)
EXTENDS JobTable

CONSTANTS
  NoJob,      \* "no job", for the worker's local variable
  MaxStarts,  \* bound: how often the process is started
  MaxCancels, \* bound: how many /cancel commands find something to cancel
  MaxFaults   \* bound: how many SQL statements raise

ASSUME NoJobAssumption == NoJob \notin Jobs

ASSUME BoundsAssumption ==
  MaxStarts \in Nat \ {0} /\ MaxCancels \in Nat /\ MaxFaults \in Nat

VARIABLES
  db,        \* the jobs table as the connection sees it
  base,      \* the jobs table a crash leaves behind: what has been committed
  tx,        \* a BEGIN IMMEDIATE has not been answered by COMMIT or ROLLBACK
  pc,        \* the worker task's await, or "off" when there is no process
  claimed,   \* the `job' of the loop: what claim_next selected
  wakeup,    \* the asyncio.Event that enqueueing sets
  shutdown,  \* how far the shutdown sequence has come
  handler,   \* handler[j]: how far the message handler that enqueues j has come
  listed,    \* listed[u]: rows a /cancel of u has read and not yet cancelled
  work,      \* the scratch directories that exist
  delivered, \* history: how often the process has delivered the result of j
  sent,      \* history: the jobs whose result was ever delivered
  starts, cancels, faults  \* counters, for the bounds

tableVars == <<db, base, tx>>
handlerVars == <<handler, listed, cancels>>
vars == <<db, base, tx, pc, claimed, wakeup, shutdown, handler, listed,
          work, delivered, sent, starts, cancels, faults>>

(***************************************************************************)
(* Inside claim_next's transaction; running a job, that is inside the try  *)
(* of _run_job; the task has ended ("exited": the loop saw _stopping,      *)
(* "dead": an exception ended it).                                         *)
(***************************************************************************)
Claiming == {"begin", "select", "update"}
Trying == {"run", "deliver", "record", "done"}
Working == Trying \union {"fail", "mark"}
Ended == {"exited", "dead"}
WorkerPc == {"off", "start", "commit", "idle"} \union Claiming \union Working \union Ended

ShutdownPc == {"no", "polling_stopped", "waiting", "grace_expired", "cancelled", "raised"}
HandlerPc == {"none", "announced", "inserted", "stored", "woken", "unwoken", "gone"}

Up == pc # "off"
Stopping == shutdown \notin {"no", "polling_stopped"}                \* Worker._stopping
Current == IF pc \in Working THEN claimed ELSE NoJob                 \* Worker._current

TypeOK ==
  /\ db \in Table /\ base \in Table /\ tx \in BOOLEAN
  /\ pc \in WorkerPc
  /\ claimed \in Jobs \union {NoJob}
  /\ wakeup \in BOOLEAN
  /\ shutdown \in ShutdownPc
  /\ handler \in [Jobs -> HandlerPc]
  /\ listed \in [Users -> SUBSET Jobs]
  /\ work \subseteq Jobs
  /\ delivered \in [Jobs -> Nat] /\ sent \subseteq Jobs
  /\ starts \in Nat /\ cancels \in Nat /\ faults \in Nat

Init ==
  /\ db = EmptyTable /\ base = EmptyTable /\ tx = FALSE
  /\ pc = "off"
  /\ claimed = NoJob
  /\ wakeup = FALSE
  /\ shutdown = "no"
  /\ handler = [j \in Jobs |-> "none"]
  /\ listed = [u \in Users |-> {}]
  /\ work = {}
  /\ delivered = [j \in Jobs |-> 0] /\ sent = {}
  /\ starts = 0 /\ cancels = 0 /\ faults = 0

(***************************************************************************)
(* The connection.  A statement outside a transaction commits itself; one  *)
(* that another coroutine submits while claim_next's transaction is open   *)
(* becomes part of that transaction.                                       *)
(***************************************************************************)
Write(t) == /\ db' = t
            /\ base' = IF tx THEN base ELSE t
            /\ tx' = tx

Begin == tx' = TRUE /\ UNCHANGED <<db, base>>

CommitTx == tx' = FALSE /\ base' = db /\ db' = db

RollbackTx == tx' = FALSE /\ db' = base /\ base' = base

(***************************************************************************)
(* The worker loop.                                                        *)
(***************************************************************************)
(* The head of _loop: leave, or clear the event and open the transaction. *)
LoopHead ==
  \/ /\ Stopping
     /\ pc' = "exited"
     /\ UNCHANGED <<tableVars, wakeup>>
  \/ /\ ~Stopping
     /\ wakeup' = FALSE
     /\ pc' = "begin"
     /\ Begin

FirstIteration ==
  /\ pc = "start"
  /\ LoopHead
  /\ UNCHANGED <<claimed, shutdown, handlerVars, work, delivered, sent, starts, faults>>

SelectOldest ==
  /\ pc = "begin"
  /\ IF Queued(db) = {} THEN claimed' = NoJob ELSE claimed' \in Oldest(db)
  /\ pc' = "select"
  /\ UNCHANGED <<tableVars, wakeup, shutdown, handlerVars, work, delivered, sent, starts, faults>>

FlipToRunning ==
  /\ pc = "select"
  /\ claimed # NoJob
  /\ Write(SetState(db, claimed, "running"))
  /\ pc' = "update"
  /\ UNCHANGED <<claimed, wakeup, shutdown, handlerVars, work, delivered, sent, starts, faults>>

Commit ==
  /\ pc = "update" \/ (pc = "select" /\ claimed = NoJob)
  /\ CommitTx
  /\ pc' = "commit"
  /\ UNCHANGED <<claimed, wakeup, shutdown, handlerVars, work, delivered, sent, starts, faults>>

StartJob ==
  /\ pc = "commit"
  /\ claimed # NoJob
  /\ work' = work \union {claimed}
  /\ pc' = "run"
  /\ UNCHANGED <<tableVars, claimed, wakeup, shutdown, handlerVars, delivered, sent, starts, faults>>

(* Mutant of GoIdle: the event is cleared after the empty claim. *)
ClearThenIdle ==
  /\ pc = "commit"
  /\ claimed = NoJob
  /\ pc' = "idle" /\ wakeup' = FALSE
  /\ UNCHANGED <<tableVars, claimed, shutdown, handlerVars, work, delivered, sent, starts, faults>>

GoIdle ==
  /\ pc = "commit"
  /\ claimed = NoJob
  /\ pc' = "idle"
  /\ UNCHANGED <<tableVars, claimed, wakeup, shutdown, handlerVars, work, delivered, sent,
                 starts, faults>>

(* _idle ends on the event, or after IDLE_POLL_SECONDS. *)
LeaveIdle ==
  /\ pc = "idle"
  /\ LoopHead
  /\ UNCHANGED <<claimed, shutdown, handlerVars, work, delivered, sent, starts, faults>>

(***************************************************************************)
(* _run_job.                                                               *)
(***************************************************************************)
PipelineSucceeds ==
  /\ pc = "run"
  /\ pc' = "deliver"
  /\ UNCHANGED <<tableVars, claimed, wakeup, shutdown, handlerVars, work, delivered, sent,
                 starts, faults>>

(* Mutant of Deliver: an exception of the delivery is swallowed. *)
DeliverOrSwallow ==
  /\ pc = "deliver"
  /\ \/ delivered' = [delivered EXCEPT ![claimed] = @ + 1] /\ sent' = sent \union {claimed}
     \/ UNCHANGED <<delivered, sent>>
  /\ pc' = "record"
  /\ UNCHANGED <<tableVars, claimed, wakeup, shutdown, handlerVars, work, starts, faults>>

Deliver ==
  /\ pc = "deliver"
  /\ delivered' = [delivered EXCEPT ![claimed] = @ + 1]
  /\ sent' = sent \union {claimed}
  /\ pc' = "record"
  /\ UNCHANGED <<tableVars, claimed, wakeup, shutdown, handlerVars, work, starts, faults>>

(* The cache is accounted for, the status message deleted, and the job finished. *)
FinishDone ==
  /\ pc = "record"
  /\ Write(SetState(db, claimed, "done"))
  /\ pc' = "done"
  /\ UNCHANGED <<claimed, wakeup, shutdown, handlerVars, work, delivered, sent, starts, faults>>

(* Mutant of Fail: a failed job goes back in the queue for another try. *)
FailRetries ==
  /\ pc \in {"run", "deliver", "record"}
  /\ Write(SetState(db, claimed, "queued"))
  /\ pc' = "fail"
  /\ UNCHANGED <<claimed, wakeup, shutdown, handlerVars, work, delivered, sent, starts, faults>>

(* Mutant of Fail: the job's exception is not caught. *)
FailUncaught ==
  /\ pc \in {"run", "deliver", "record"}
  /\ work' = work \ {claimed}
  /\ pc' = "dead"
  /\ UNCHANGED <<tableVars, claimed, wakeup, shutdown, handlerVars, delivered, sent, starts, faults>>

(* Whatever the try raises, finish(DONE) included, ends in _fail. *)
Fail ==
  /\ pc \in {"run", "deliver", "record"}
  /\ Write(SetState(db, claimed, "failed"))
  /\ pc' = "fail"
  /\ UNCHANGED <<claimed, wakeup, shutdown, handlerVars, work, delivered, sent, starts, faults>>

(* Mutant of EndJob: the directory is removed on success only. *)
EndJobKeepingScratch ==
  /\ pc \in {"done", "fail"}
  /\ work' = IF pc = "done" THEN work \ {claimed} ELSE work
  /\ LoopHead
  /\ UNCHANGED <<claimed, shutdown, handlerVars, delivered, sent, starts, faults>>

(* The finally, and the loop goes round. *)
EndJob ==
  /\ pc \in {"done", "fail"}
  /\ work' = work \ {claimed}
  /\ LoopHead
  /\ UNCHANGED <<claimed, shutdown, handlerVars, delivered, sent, starts, faults>>

(* A cancelled job has been marked; its CancelledError goes on and ends the task. *)
EndMarked ==
  /\ pc = "mark"
  /\ work' = work \ {claimed}
  /\ pc' = "dead"
  /\ UNCHANGED <<tableVars, claimed, wakeup, shutdown, handlerVars, delivered, sent, starts, faults>>

WorkerStep ==
  \/ FirstIteration \/ SelectOldest \/ FlipToRunning \/ Commit \/ StartJob \/ GoIdle
  \/ LeaveIdle \/ PipelineSucceeds \/ Deliver \/ FinishDone \/ Fail \/ EndJob
  \/ EndMarked

(***************************************************************************)
(* Statements of the worker that raise (a full disk, a locked database).   *)
(***************************************************************************)
(* Mutant of ClaimRaises: the except clause is missing, nothing is rolled back. *)
ClaimRaisesOpen ==
  /\ pc \in {"begin", "select", "update"}
  /\ faults < MaxFaults
  /\ UNCHANGED tableVars
  /\ pc' = "dead"
  /\ faults' = faults + 1
  /\ UNCHANGED <<claimed, wakeup, shutdown, handlerVars, work, delivered, sent, starts>>

(* claim_next rolls back, the exception leaves _loop and ends the task.  (A BEGIN *)
(* that raises ends it too, with nothing to roll back.)                           *)
ClaimRaises ==
  /\ pc \in {"begin", "select", "update"}
  /\ faults < MaxFaults
  /\ RollbackTx
  /\ pc' = "dead"
  /\ faults' = faults + 1
  /\ UNCHANGED <<claimed, wakeup, shutdown, handlerVars, work, delivered, sent, starts>>

(* finish(FAILED) raises inside the except clause: only the finally still runs. *)
FailRaises ==
  /\ pc \in {"run", "deliver", "record"}
  /\ faults < MaxFaults
  /\ work' = work \ {claimed}
  /\ pc' = "dead"
  /\ faults' = faults + 1
  /\ UNCHANGED <<tableVars, claimed, wakeup, shutdown, handlerVars, delivered, sent, starts>>

WorkerFault == ClaimRaises \/ FailRaises

(***************************************************************************)
(* The handlers.  A choice handler inserts the row, edits the message into *)
(* "Queued - position ..." and only then wakes the worker; the handler of  *)
(* an audio-only link shows the position first and inserts afterwards.     *)
(* New updates are taken while polling runs; handlers that have begun go   *)
(* on until the process ends.                                              *)
(***************************************************************************)
ChoiceInsert(j) ==
  /\ Up /\ shutdown = "no"
  /\ handler[j] = "none"
  /\ Write(Insert(db, j))
  /\ handler' = [handler EXCEPT ![j] = "inserted"]
  /\ UNCHANGED <<pc, claimed, wakeup, shutdown, listed, cancels, work, delivered, sent,
                 starts, faults>>

ChoiceConfirm(j) ==
  /\ handler[j] = "inserted"
  /\ wakeup' = TRUE
  /\ handler' = [handler EXCEPT ![j] = "woken"]
  /\ UNCHANGED <<tableVars, pc, claimed, shutdown, listed, cancels, work, delivered, sent,
                 starts, faults>>

(* The edit raises (the message is gone, Telegram says retry later): no wake. *)
ChoiceConfirmRaises(j) ==
  /\ handler[j] = "inserted"
  /\ handler' = [handler EXCEPT ![j] = "unwoken"]
  /\ UNCHANGED <<tableVars, pc, claimed, wakeup, shutdown, listed, cancels, work,
                 delivered, sent, starts, faults>>

Announce(j) ==
  /\ Up /\ shutdown = "no"
  /\ handler[j] = "none"
  /\ handler' = [handler EXCEPT ![j] = "announced"]
  /\ UNCHANGED <<tableVars, pc, claimed, wakeup, shutdown, listed, cancels, work,
                 delivered, sent, starts, faults>>

AnnouncedInsert(j) ==
  /\ handler[j] = "announced"
  /\ Write(Insert(db, j))
  /\ handler' = [handler EXCEPT ![j] = "stored"]
  /\ UNCHANGED <<pc, claimed, wakeup, shutdown, listed, cancels, work, delivered, sent,
                 starts, faults>>

AnnouncedWake(j) ==
  /\ handler[j] = "stored"
  /\ wakeup' = TRUE
  /\ handler' = [handler EXCEPT ![j] = "woken"]
  /\ UNCHANGED <<tableVars, pc, claimed, shutdown, listed, cancels, work,
                 delivered, sent, starts, faults>>

(* The INSERT raises: the handler ends, whatever it has announced. *)
InsertRaises(j) ==
  /\ Up
  /\ handler[j] = "announced" \/ (handler[j] = "none" /\ shutdown = "no")
  /\ faults < MaxFaults
  /\ faults' = faults + 1
  /\ handler' = [handler EXCEPT ![j] = "gone"]
  /\ UNCHANGED <<tableVars, pc, claimed, wakeup, shutdown, listed, cancels, work,
                 delivered, sent, starts>>

(* /cancel: one statement reads the user's queued rows, a second one cancels them. *)
CancelList(u) ==
  /\ Up /\ shutdown = "no"
  /\ listed[u] = {}
  /\ QueuedOf(db, u) # {}
  /\ cancels < MaxCancels
  /\ cancels' = cancels + 1
  /\ listed' = [listed EXCEPT ![u] = QueuedOf(db, u)]
  /\ UNCHANGED <<tableVars, pc, claimed, wakeup, shutdown, handler, work, delivered, sent,
                 starts, faults>>

CancelUpdate(u) ==
  /\ listed[u] # {}
  /\ Write(CancelQueued(db, u))
  /\ listed' = [listed EXCEPT ![u] = {}]
  /\ UNCHANGED <<pc, claimed, wakeup, shutdown, handler, cancels, work, delivered, sent,
                 starts, faults>>

HandlerStep ==
  \/ \E j \in Jobs : \/ ChoiceInsert(j) \/ ChoiceConfirm(j) \/ ChoiceConfirmRaises(j)
                      \/ Announce(j) \/ AnnouncedInsert(j) \/ AnnouncedWake(j)
                      \/ InsertRaises(j)
  \/ \E u \in Users : CancelList(u) \/ CancelUpdate(u)

(***************************************************************************)
(* Shutdown: polling is stopped, then Worker.stop waits for the loop, for  *)
(* at most the grace period.                                               *)
(***************************************************************************)
StopPolling ==
  /\ Up /\ shutdown = "no"
  /\ starts < MaxStarts
  /\ shutdown' = "polling_stopped"
  /\ UNCHANGED <<tableVars, pc, claimed, wakeup, handlerVars, work, delivered, sent, starts, faults>>

StopWorker ==
  /\ shutdown = "polling_stopped"
  /\ shutdown' = "waiting"
  /\ wakeup' = TRUE
  /\ UNCHANGED <<tableVars, pc, claimed, handlerVars, work, delivered, sent, starts, faults>>

(* What CancelledError does at the await it is thrown into. *)
ThrowCancelled ==
  \/ /\ pc \in Trying                      \* caught by _run_job, which marks the job
     /\ Write(SetState(db, claimed, "interrupted"))
     /\ pc' = "mark"
     /\ work' = work
  \/ /\ pc = "fail"                        \* inside _fail: only the finally runs
     /\ work' = work \ {claimed}
     /\ pc' = "dead"
     /\ UNCHANGED tableVars
  \/ /\ pc \notin Trying \union {"fail"}   \* in the loop or in claim_next, or ended already
     /\ pc' = IF pc = "exited" THEN "exited" ELSE "dead"
     /\ UNCHANGED <<tableVars, work>>

(* The grace period is over and a job is current: it is marked first. *)
GraceExpires ==
  /\ shutdown = "waiting"
  /\ pc \notin Ended
  /\ Current # NoJob
  /\ Write(SetState(db, Current, "interrupted"))
  /\ shutdown' = "grace_expired"
  /\ UNCHANGED <<pc, claimed, wakeup, handlerVars, work, delivered, sent, starts, faults>>

CancelTask ==
  /\ \/ shutdown = "grace_expired"
     \/ shutdown = "waiting" /\ pc \notin Ended /\ Current = NoJob
  /\ shutdown' = "cancelled"
  /\ ThrowCancelled
  /\ UNCHANGED <<claimed, wakeup, handlerVars, delivered, sent, starts, faults>>

(***************************************************************************)
(* What is not in the database or on disk is lost.  When amain returns, the *)
(* connection is closed, which rolls back what is open; when it raises, the *)
(* connection is not closed.                                               *)
(***************************************************************************)
HandlersAreLost ==
  /\ handler' = [j \in Jobs |-> IF handler[j] \in {"announced", "inserted", "stored"}
                                THEN "gone" ELSE handler[j]]
  /\ listed' = [u \in Users |-> {}]

ProcessEnds ==
  /\ RollbackTx
  /\ pc' = "off"
  /\ claimed' = NoJob
  /\ wakeup' = FALSE
  /\ shutdown' = "no"
  /\ HandlersAreLost
  /\ UNCHANGED <<cancels, work, delivered, sent, starts, faults>>

(* Mutant of Close: the shutdown waits for the loop to see _stopping. *)
CloseOnCleanExit ==
  /\ shutdown \in {"waiting", "cancelled"}
  /\ pc = "exited"
  /\ ProcessEnds

(* Worker.stop returns: the loop has left, or was cancelled and waited for. *)
Close ==
  /\ (shutdown = "waiting" /\ pc = "exited") \/ (shutdown = "cancelled" /\ pc \in Ended)
  /\ ProcessEnds

(* Worker.stop raises what has ended the task, or what mark_interrupted raises after  *)
(* the grace period.  asyncio.run cancels the tasks that are left, nobody closes the  *)
(* connection, and its thread keeps the process, which polls no more, until something *)
(* outside kills it (Crash).                                                          *)
StopRaises ==
  /\ shutdown = "waiting"
  /\ \/ /\ pc = "dead"
        /\ UNCHANGED <<tableVars, pc, work, faults>>
     \/ /\ Current # NoJob
        /\ faults < MaxFaults
        /\ faults' = faults + 1
        /\ ThrowCancelled
  /\ shutdown' = "raised"
  /\ HandlersAreLost
  /\ UNCHANGED <<claimed, wakeup, cancels, delivered, sent, starts>>

ShutdownStep == StopWorker \/ GraceExpires \/ CancelTask \/ Close \/ StopRaises

Crash ==
  /\ Up
  /\ starts < MaxStarts
  /\ ProcessEnds

(* amain up to worker.start(): sweep the scratch directories, re-queue, start. *)
Start ==
  /\ pc = "off"
  /\ starts < MaxStarts
  /\ work' = {}
  /\ Write(Requeue(db))
  /\ wakeup' = (InState(db, "running") \union InState(db, "interrupted") # {})
  /\ pc' = "start"
  /\ starts' = starts + 1
  /\ delivered' = [j \in Jobs |-> 0]
  /\ UNCHANGED <<claimed, shutdown, handlerVars, sent, faults>>

Next == \/ WorkerStep \/ WorkerFault \/ HandlerStep
        \/ StopPolling \/ ShutdownStep \/ Crash \/ Start

Spec == Init /\ [][Next]_vars

(***************************************************************************)
(* The loop runs, timeouts fire (the idle poll, the grace period, the time *)
(* limits of the pipeline's processes) and the container is restarted;     *)
(* nothing obliges a user, a failing statement, a signal or a crash.       *)
(***************************************************************************)
Fairness ==
  /\ WF_vars(WorkerStep)
  /\ WF_vars(ShutdownStep)
  /\ WF_vars(Start)

FairSpec == Spec /\ Fairness
-----------------------------------------------------------------------------
(***************************************************************************)
(* What the queue promises.                                                *)
(***************************************************************************)
Running == InState(db, "running")

(* One job runs at a time, and a row that says "running" is the job the     *)
(* worker holds: nothing that interleaves with the claim, and no restart,  *)
(* leaves a second row running beside it (claim_next, requeue_interrupted). *)
RunningIsTheWorkers ==
  /\ \A j, k \in Running : j = k
  /\ pc \in WorkerPc \ ({"off"} \union Ended) => Running \subseteq {claimed}
  /\ pc \in {"start", "begin", "select", "idle"} => Running = {}

(* finish(DONE) comes after the delivery on every path: a row that says    *)
(* "done", now or after a crash, belongs to a job whose result was sent.   *)
DoneMeansDelivered ==
  \A j \in Jobs : "done" \in {db.state[j], base.state[j]} => j \in sent

(* The worker delivers a job at most once in the life of a process: only a *)
(* restart, which re-queues what it finds unfinished, can repeat one.      *)
DeliveredOncePerStart == \A j \in Jobs : delivered[j] <= 1

(* The event is cleared before the claim, so when the worker waits with    *)
(* the event clear, whatever is queued belongs to a handler that has yet   *)
(* to wake it, or whose message could not be edited (the idle poll finds   *)
(* that one): nobody who called wake() is left waiting for the poll.       *)
NoLostWakeup ==
  pc = "idle" /\ ~wakeup =>
    \A j \in Queued(db) : handler[j] \in {"inserted", "stored", "unwoken"}

(* Scratch space does not accumulate: while the process lives the only     *)
(* directory under work/ is that of the current job, whatever way the job  *)
(* before it ended and whatever an earlier process left behind.            *)
ScratchIsCurrents == Up => work \subseteq {Current}

(* The shared transaction is open only while claim_next holds it, or after *)
(* the shutdown has cancelled a claim: at every other moment what handlers *)
(* wrote inside it has been committed or rolled back, never kept waiting.  *)
NothingHangsUncommitted ==
  pc \notin Claiming /\ shutdown # "cancelled" => ~tx /\ base = db

(* One job never kills the loop: whatever a job does, the task ends only   *)
(* when it is told to, or when a SQL statement raises where the loop does  *)
(* not expect it, in claim_next or in the finish of _fail.                 *)
LoopDiesOnlyOnFault == pc = "dead" => Stopping \/ faults > 0

(* First come, first served: when a job becomes the running one, no job    *)
(* enqueued before it is queued, although rows are inserted and cancelled  *)
(* between claim_next's SELECT and its UPDATE.                             *)
ServedNext ==
  \A j \in Jobs : db.state[j] # "running" /\ db'.state[j] = "running" =>
    \A k \in Queued(db) : db.rowid[j] <= db.rowid[k]

ServedInOrder == [][ServedNext]_vars

(* The changes of a committed row, whichever coroutine makes them: in      *)
(* particular a running job is never cancelled by /cancel, a committed     *)
(* cancellation and a failure nobody interrupts are final, and a job       *)
(* returns to the queue only from running or interrupted.                  *)
StateChanges ==
  {<<"absent", "queued">>, <<"absent", "running">>, <<"absent", "cancelled">>,
   <<"queued", "running">>,
   <<"queued", "cancelled">>, <<"running", "done">>, <<"running", "failed">>,
   <<"running", "interrupted">>, <<"running", "queued">>, <<"interrupted", "queued">>,
   <<"interrupted", "done">>, <<"interrupted", "failed">>, <<"done", "interrupted">>,
   <<"failed", "interrupted">>}

LegalStateChange ==
  \A j \in Jobs : base.state[j] = base'.state[j]
                 \/ <<base.state[j], base'.state[j]>> \in StateChanges

LegalStateChanges == [][LegalStateChange]_vars

(* A shutdown does not hang: the loop leaves, or the grace period cancels  *)
(* it at whatever await it has reached, and the process ends; only when a  *)
(* statement has raised, and stop with it, the process may stay.           *)
ShutdownEnds == shutdown = "waiting" ~> pc = "off" \/ (shutdown = "raised" /\ faults > 0)

(* The committed table is the abstract queue, with a job that is queued,   *)
(* running or interrupted pending: the claim, the shared transaction, the  *)
(* grace period and the re-queueing implement PromisedQueue.               *)
Outcome == [j \in Jobs |->
  CASE base.state[j] = "absent" -> "none"
    [] base.state[j] \in {"queued", "running", "interrupted"} -> "pending"
    [] OTHER -> base.state[j]]

Promise == INSTANCE PromisedQueue WITH outcome <- Outcome

KeepsThePromise == Promise!Spec

(* And a committed job is settled in the end, through crashes, shutdowns and *)
(* grace periods that run out, as long as the process is started again and no *)
(* statement raises.                                                          *)
KeepsThePromiseInTime == [](faults = 0) => Promise!Settles
-----------------------------------------------------------------------------
(***************************************************************************)
(* What docs, comments and tests say and the code does not keep.           *)
(***************************************************************************)
(* "Cancelled {count} queued job(s)": a row /cancel has flipped stays      *)
(* cancelled.  The claim's UPDATE does not ask for the state it selected,  *)
(* and its ROLLBACK takes statements of other coroutines with it.          *)
CancelledIsFinal ==
  [][\A j \in Jobs : db.state[j] = "cancelled" => db'.state[j] = "cancelled"]_vars

(* A done job stays done, over a restart too.                              *)
DoneIsFinal ==
  [][\A j \in Jobs : db.state[j] = "done" => db'.state[j] = "done"]_vars

=============================================================================
