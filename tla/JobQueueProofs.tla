--------------------------- MODULE JobQueueProofs ---------------------------
(***************************************************************************)
(* Theorems about JobQueue, for every set of jobs and users and every      *)
(* bound: the type invariant, and the safety invariants of the queue by an *)
(* inductive invariant whose parts are named below.                        *)
(***************************************************************************)
EXTENDS JobQueue, FiniteSetTheorems, TLAPS

-----------------------------------------------------------------------------
(* What the statements of the repository do to a table. *)

LEMMA InsertType ==
  ASSUME NEW t \in Table, NEW j \in Jobs
  PROVE  Insert(t, j) \in Table
<1>1. IsFiniteSet(Jobs \ InState(t, "absent"))
  BY JobsAssumption, FS_Subset, Jobs \ InState(t, "absent") \subseteq Jobs
<1>2. Cardinality(Jobs \ InState(t, "absent")) + 1 \in Nat
  BY <1>1, FS_CardinalityType
<1> QED BY <1>2 DEF Insert, Table, JobState

LEMMA SetStateType ==
  ASSUME NEW t \in Table, NEW j, NEW s \in JobState
  PROVE  SetState(t, j, s) \in Table
BY DEF SetState, Table, JobState

LEMMA CancelQueuedType ==
  ASSUME NEW t \in Table, NEW u
  PROVE  CancelQueued(t, u) \in Table
BY DEF CancelQueued, Table, JobState

LEMMA RequeueType ==
  ASSUME NEW t \in Table
  PROVE  Requeue(t) \in Table
BY DEF Requeue, Table, JobState

LEMMA EmptyTableType == EmptyTable \in Table
BY DEF EmptyTable, Table, JobState

(* A statement leaves both views of the table well typed. *)
LEMMA WriteType ==
  ASSUME TypeOK, NEW t \in Table, Write(t)
  PROVE  db' \in Table /\ base' \in Table /\ tx' \in BOOLEAN
BY DEF Write, TypeOK

-----------------------------------------------------------------------------
(* The type invariant, with what it needs to know of the loop's local      *)
(* variable: past the claim's UPDATE it holds a job.                       *)
HoldsJob == pc \in {"update"} \union Working => claimed \in Jobs

TypeInv == TypeOK /\ HoldsJob

LEMMA TypeInit == Init => TypeInv
<1> SUFFICES ASSUME Init PROVE TypeInv
  OBVIOUS
<1> USE DEF Init
<1>1. TypeOK
  BY EmptyTableType, OwnerAssumption
     DEF TypeOK, WorkerPc, ShutdownPc, HandlerPc
<1>2. HoldsJob
  BY DEF HoldsJob, Working, Trying
<1> QED BY <1>1, <1>2 DEF TypeInv

LEMMA TypeNext == TypeInv /\ [Next]_vars => TypeInv'
<1> SUFFICES ASSUME TypeInv, [Next]_vars PROVE TypeInv'
  OBVIOUS
<1> USE DEF TypeInv
<1> USE DEF WorkerPc, Claiming, Working, Trying, Ended
<1>1. CASE WorkerStep
  <2> USE DEF handlerVars, tableVars
  <2>1. CASE FirstIteration \/ LeaveIdle
    BY <2>1 DEF FirstIteration, LeaveIdle, LoopHead, Begin, TypeOK, HoldsJob
  <2>2. CASE SelectOldest
    BY <2>2 DEF SelectOldest, Oldest, Queued, InState, TypeOK, HoldsJob
  <2>3. CASE FlipToRunning
    <3>1. claimed \in Jobs /\ SetState(db, claimed, "running") \in Table
      BY <2>3, SetStateType DEF FlipToRunning, TypeOK, JobState
    <3>2. db' \in Table /\ base' \in Table /\ tx' \in BOOLEAN
      BY <2>3, <3>1, WriteType DEF FlipToRunning
    <3> QED BY <2>3, <3>1, <3>2 DEF FlipToRunning, TypeOK, HoldsJob
  <2>4. CASE Commit
    BY <2>4 DEF Commit, CommitTx, TypeOK, HoldsJob
  <2>5. CASE StartJob \/ GoIdle \/ PipelineSucceeds
    BY <2>5 DEF StartJob, GoIdle, PipelineSucceeds, TypeOK, HoldsJob
  <2>6. CASE Deliver
    BY <2>6 DEF Deliver, TypeOK, HoldsJob
  <2>7. CASE FinishDone
    <3>1. SetState(db, claimed, "done") \in Table
      BY SetStateType DEF TypeOK, JobState
    <3>2. db' \in Table /\ base' \in Table /\ tx' \in BOOLEAN
      BY <2>7, <3>1, WriteType DEF FinishDone
    <3> QED BY <2>7, <3>2 DEF FinishDone, TypeOK, HoldsJob
  <2>8. CASE Fail
    <3>1. SetState(db, claimed, "failed") \in Table
      BY SetStateType DEF TypeOK, JobState
    <3>2. db' \in Table /\ base' \in Table /\ tx' \in BOOLEAN
      BY <2>8, <3>1, WriteType DEF Fail
    <3> QED BY <2>8, <3>2 DEF Fail, TypeOK, HoldsJob
  <2>9. CASE EndJob \/ EndMarked
    BY <2>9 DEF EndJob, EndMarked, LoopHead, Begin, TypeOK, HoldsJob
  <2> QED BY <1>1, <2>1, <2>2, <2>3, <2>4, <2>5, <2>6, <2>7, <2>8, <2>9 DEF WorkerStep
<1>2. CASE WorkerFault
  <2>1. CASE ClaimRaises
    <3>1. faults' \in Nat
      BY <2>1 DEF ClaimRaises, TypeOK
    <3> QED BY <2>1, <3>1 DEF ClaimRaises, RollbackTx, handlerVars, TypeOK, HoldsJob
  <2>2. CASE FailRaises
    <3>1. faults' \in Nat
      BY <2>2 DEF FailRaises, TypeOK
    <3> QED BY <2>2, <3>1 DEF FailRaises, handlerVars, tableVars, TypeOK, HoldsJob
  <2> QED BY <1>2, <2>1, <2>2 DEF WorkerFault
<1>3. CASE HandlerStep
  <2> USE DEF HandlerPc
  <2>1. ASSUME NEW j \in Jobs, ChoiceInsert(j) \/ AnnouncedInsert(j) PROVE TypeInv'
    <3>1. db' \in Table /\ base' \in Table /\ tx' \in BOOLEAN
      BY <2>1, InsertType, WriteType DEF ChoiceInsert, AnnouncedInsert, TypeOK
    <3> QED BY <2>1, <3>1 DEF ChoiceInsert, AnnouncedInsert, TypeOK, HoldsJob
  <2>2. ASSUME NEW j \in Jobs,
               \/ ChoiceConfirm(j) \/ ChoiceConfirmRaises(j) \/ Announce(j)
               \/ AnnouncedWake(j)
        PROVE TypeInv'
    BY <2>2 DEF ChoiceConfirm, ChoiceConfirmRaises, Announce, AnnouncedWake,
                tableVars, TypeOK, HoldsJob
  <2>5. ASSUME NEW j \in Jobs, InsertRaises(j) PROVE TypeInv'
    <3>1. faults' \in Nat
      BY <2>5 DEF InsertRaises, TypeOK
    <3> QED BY <2>5, <3>1 DEF InsertRaises, tableVars, TypeOK, HoldsJob
  <2>3. ASSUME NEW u \in Users, CancelList(u) PROVE TypeInv'
    BY <2>3 DEF CancelList, QueuedOf, Queued, InState, tableVars, TypeOK, HoldsJob
  <2>4. ASSUME NEW u \in Users, CancelUpdate(u) PROVE TypeInv'
    <3>1. db' \in Table /\ base' \in Table /\ tx' \in BOOLEAN
      BY <2>4, CancelQueuedType, WriteType DEF CancelUpdate, TypeOK
    <3> QED BY <2>4, <3>1 DEF CancelUpdate, TypeOK, HoldsJob
  <2> QED BY <1>3, <2>1, <2>2, <2>3, <2>4, <2>5 DEF HandlerStep
<1>4. CASE StopPolling
  BY <1>4 DEF StopPolling, handlerVars, tableVars, TypeOK, HoldsJob, ShutdownPc
<1>5. CASE ShutdownStep
  <2>1. CASE StopWorker
    BY <2>1 DEF StopWorker, handlerVars, tableVars, TypeOK, HoldsJob, ShutdownPc
  <2>2. CASE GraceExpires
    <3>1. SetState(db, Current, "interrupted") \in Table
      BY SetStateType DEF TypeOK, JobState
    <3>2. db' \in Table /\ base' \in Table /\ tx' \in BOOLEAN
      BY <2>2, <3>1, WriteType DEF GraceExpires
    <3> QED BY <2>2, <3>2 DEF GraceExpires, handlerVars, TypeOK, HoldsJob, ShutdownPc
  <2>3. ASSUME ThrowCancelled
        PROVE  db' \in Table /\ base' \in Table /\ tx' \in BOOLEAN
    <3>1. SetState(db, claimed, "interrupted") \in Table
      BY SetStateType DEF TypeOK, JobState
    <3> QED BY <2>3, <3>1, WriteType DEF ThrowCancelled, tableVars, TypeOK
  <2>4. CASE CancelTask
    BY <2>3, <2>4 DEF CancelTask, ThrowCancelled, handlerVars, tableVars, TypeOK, HoldsJob,
                      ShutdownPc
  <2>5. CASE Close
    BY <2>5 DEF Close, ProcessEnds, RollbackTx, HandlersAreLost, TypeOK, HoldsJob, ShutdownPc,
                HandlerPc
  <2>6. CASE StopRaises
    <3>1. faults' \in Nat /\ db' \in Table /\ base' \in Table /\ tx' \in BOOLEAN
      BY <2>3, <2>6 DEF StopRaises, tableVars, TypeOK
    <3>2. pc' \in WorkerPc /\ work' \subseteq Jobs /\ HoldsJob'
      BY <2>6 DEF StopRaises, ThrowCancelled, TypeOK, HoldsJob
    <3> QED BY <2>6, <3>1, <3>2 DEF StopRaises, HandlersAreLost, TypeOK, ShutdownPc, HandlerPc
  <2> QED BY <1>5, <2>1, <2>2, <2>4, <2>5, <2>6 DEF ShutdownStep
<1>6. CASE Crash
  BY <1>6 DEF Crash, ProcessEnds, RollbackTx, HandlersAreLost, TypeOK, HoldsJob, ShutdownPc,
              HandlerPc
<1>7. CASE Start
  <2>1. db' \in Table /\ base' \in Table /\ tx' \in BOOLEAN
    BY <1>7, RequeueType, WriteType DEF Start, TypeOK
  <2> QED BY <1>7, <2>1 DEF Start, handlerVars, TypeOK, HoldsJob
<1>8. CASE UNCHANGED vars
  BY <1>8 DEF vars, TypeOK, HoldsJob
<1> QED BY <1>1, <1>2, <1>3, <1>4, <1>5, <1>6, <1>7, <1>8 DEF Next

(* Every variable keeps its type, for any number of jobs, users, restarts, *)
(* cancellations and faults.                                               *)
THEOREM TypeCorrect == Spec => []TypeOK
<1>1. TypeInv => TypeOK
  BY DEF TypeInv
<1> QED BY <1>1, TypeInit, TypeNext, PTL DEF Spec
-----------------------------------------------------------------------------
(* The shared transaction: open exactly while claim_next holds it, or left *)
(* behind by a claim that the shutdown cancelled.                          *)
TxInv ==
  /\ pc \in Claiming => tx
  /\ tx => pc \in Claiming \/ (pc = "dead" /\ shutdown = "cancelled")
  /\ ~tx => base = db

LEMMA TxNext == TypeInv /\ TxInv /\ [Next]_vars => TxInv'
<1> SUFFICES ASSUME TypeInv, TxInv, [Next]_vars PROVE TxInv'
  OBVIOUS
<1> USE DEF TxInv, Claiming
<1> pc \in WorkerPc
  BY DEF TypeInv, TypeOK
<1>1. CASE WorkerStep
  <2>1. CASE FirstIteration \/ LeaveIdle \/ EndJob
    BY <2>1 DEF FirstIteration, LeaveIdle, EndJob, LoopHead, Begin, Stopping, tableVars
  <2>2. CASE SelectOldest \/ StartJob \/ GoIdle \/ PipelineSucceeds \/ Deliver \/ EndMarked
    BY <2>2 DEF SelectOldest, StartJob, GoIdle, PipelineSucceeds, Deliver, EndMarked, tableVars
  <2>3. CASE FlipToRunning \/ FinishDone \/ Fail
    BY <2>3 DEF FlipToRunning, FinishDone, Fail, Write
  <2>4. CASE Commit
    BY <2>4 DEF Commit, CommitTx
  <2> QED BY <1>1, <2>1, <2>2, <2>3, <2>4 DEF WorkerStep
<1>2. CASE WorkerFault
  BY <1>2 DEF WorkerFault, ClaimRaises, FailRaises, RollbackTx, tableVars
<1>3. CASE HandlerStep
  BY <1>3 DEF HandlerStep, ChoiceInsert, ChoiceConfirm, ChoiceConfirmRaises, Announce,
              AnnouncedInsert, AnnouncedWake, InsertRaises, CancelList, CancelUpdate,
              Write, tableVars
<1>4. CASE StopPolling
  BY <1>4 DEF StopPolling, tableVars
<1>5. CASE ShutdownStep
  BY <1>5 DEF ShutdownStep, StopWorker, GraceExpires, CancelTask, Close, StopRaises,
              ThrowCancelled, Current, Working, ProcessEnds, RollbackTx, Write, Trying, Ended,
              tableVars
<1>6. CASE Crash
  BY <1>6 DEF Crash, ProcessEnds, RollbackTx
<1>7. CASE Start
  BY <1>7 DEF Start, Write
<1>8. CASE UNCHANGED vars
  BY <1>8 DEF vars
<1> QED BY <1>1, <1>2, <1>3, <1>4, <1>5, <1>6, <1>7, <1>8 DEF Next

LEMMA TxCorrect == Spec => [](TypeInv /\ TxInv)
<1>1. Init => TxInv
  BY DEF Init, TxInv, Claiming
<1> QED BY <1>1, TypeInit, TypeNext, TxNext, PTL DEF Spec

(* What the handlers write is committed or rolled back as soon as the      *)
(* claim ends: it never waits in a transaction that nobody holds.          *)
THEOREM UncommittedOnlyInClaim == Spec => []NothingHangsUncommitted
<1>1. TypeInv /\ TxInv => NothingHangsUncommitted
  BY DEF TxInv, NothingHangsUncommitted
<1> QED BY <1>1, TxCorrect, PTL
-----------------------------------------------------------------------------
(* Without a process there is no shutdown under way and no handler at work. *)
OffInv ==
  pc = "off" => /\ shutdown = "no"
                /\ \A j \in Jobs : handler[j] \notin {"announced", "inserted", "stored"}
                /\ \A u \in Users : listed[u] = {}

LEMMA OffNext == TypeInv /\ OffInv /\ [Next]_vars => OffInv'
<1> SUFFICES ASSUME TypeInv, OffInv, [Next]_vars, pc' = "off"
             PROVE  /\ shutdown' = "no"
                    /\ \A j \in Jobs : handler'[j] \notin {"announced", "inserted", "stored"}
                    /\ \A u \in Users : listed'[u] = {}
  BY DEF OffInv
<1>1. CASE ProcessEnds
  BY <1>1 DEF ProcessEnds, HandlersAreLost
<1>2. CASE ~ProcessEnds
  <2>1. ~WorkerStep /\ ~WorkerFault /\ ~Start
    BY DEF WorkerStep, FirstIteration, SelectOldest, FlipToRunning, Commit, StartJob, GoIdle,
           LeaveIdle, PipelineSucceeds, Deliver, FinishDone, Fail, EndJob, EndMarked, LoopHead,
           WorkerFault, ClaimRaises, FailRaises, Start
  <2>2. ~Crash /\ ~Close
    BY <1>2 DEF Crash, Close
  <2>3. ~StopPolling /\ ~StopWorker /\ ~GraceExpires /\ ~CancelTask /\ ~StopRaises
    BY DEF StopPolling, StopWorker, GraceExpires, CancelTask, StopRaises, ThrowCancelled,
           OffInv, Up, Current, Working, Trying
  <2>4. ~HandlerStep
    BY DEF HandlerStep, ChoiceInsert, ChoiceConfirm, ChoiceConfirmRaises, Announce,
           AnnouncedInsert, AnnouncedWake, InsertRaises, CancelList, CancelUpdate, OffInv, Up,
           tableVars
  <2>5. UNCHANGED vars
    BY <2>1, <2>2, <2>3, <2>4 DEF Next, ShutdownStep
  <2> QED BY <2>5 DEF vars, OffInv
<1> QED BY <1>1, <1>2

LEMMA OffCorrect == Spec => [](TypeInv /\ OffInv)
<1>1. Init => OffInv
  BY DEF Init, OffInv
<1> QED BY <1>1, TypeInit, TypeNext, OffNext, PTL DEF Spec

-----------------------------------------------------------------------------
(* One job at a time.  The transaction never carries a running row in its  *)
(* committed view, so a rollback cannot bring one back.                    *)
RunInv ==
  /\ tx => InState(base, "running") = {}
  /\ pc \in {"start", "begin", "select", "idle", "done", "fail", "mark", "exited"}
       => Running = {}
  /\ pc \in {"update", "commit", "run", "deliver", "record"} => Running \subseteq {claimed}
  /\ \A j, k \in Running : j = k

(* A write to one row can only make that row a running one. *)
LEMMA SetStateRunning ==
  ASSUME NEW t \in Table, NEW j \in Jobs, NEW s \in JobState
  PROVE  /\ s # "running" => InState(SetState(t, j, s), "running")
                                = InState(t, "running") \ {j}
         /\ InState(SetState(t, j, s), "running") \subseteq InState(t, "running") \union {j}
BY DEF SetState, InState, Table, JobState

LEMMA OtherWritesRunning ==
  ASSUME NEW t \in Table
  PROVE  /\ \A j \in Jobs : InState(Insert(t, j), "running") \subseteq InState(t, "running")
         /\ \A u \in Users : InState(CancelQueued(t, u), "running") = InState(t, "running")
         /\ InState(Requeue(t), "running") = {}
BY DEF Insert, CancelQueued, Requeue, QueuedOf, Queued, InState, Table, JobState

LEMMA RunNext == TypeInv /\ TxInv /\ RunInv /\ [Next]_vars => RunInv'
<1> SUFFICES ASSUME TypeInv, TxInv, RunInv, [Next]_vars PROVE RunInv'
  OBVIOUS
<1> USE DEF RunInv, Running
<1>a. db \in Table /\ base \in Table /\ pc \in WorkerPc /\ NoJob \notin Jobs
  BY NoJobAssumption DEF TypeInv, TypeOK
<1>b. pc \in Working => claimed \in Jobs
  BY DEF TypeInv, HoldsJob
<1>1. CASE WorkerStep
  <2>1. CASE FirstIteration \/ LeaveIdle \/ EndJob
    BY <2>1 DEF FirstIteration, LeaveIdle, EndJob, LoopHead, Begin, TxInv, Claiming,
                tableVars
  <2>2. CASE SelectOldest \/ StartJob \/ GoIdle \/ PipelineSucceeds \/ Deliver \/ EndMarked
    BY <1>a, <2>2 DEF SelectOldest, StartJob, GoIdle, PipelineSucceeds, Deliver, EndMarked,
                      InState, tableVars
  <2>3. CASE FlipToRunning
    <3>1. claimed \in Jobs
      BY <2>3 DEF FlipToRunning, TypeInv, TypeOK
    <3> QED BY <1>a, <2>3, <3>1, SetStateRunning DEF FlipToRunning, Write, TxInv, Claiming, JobState
  <2>4. CASE FinishDone \/ Fail
    <3>1. claimed \in Jobs
      BY <1>b, <2>4 DEF FinishDone, Fail, Working, Trying
    <3> QED BY <1>a, <2>4, <3>1, SetStateRunning
            DEF FinishDone, Fail, Write, TxInv, Claiming, JobState
  <2>5. CASE Commit
    BY <2>5 DEF Commit, CommitTx
  <2> QED BY <1>1, <2>1, <2>2, <2>3, <2>4, <2>5 DEF WorkerStep
<1>2. CASE WorkerFault
  BY <1>2 DEF WorkerFault, ClaimRaises, FailRaises, RollbackTx, TxInv, Claiming, tableVars
<1>3. CASE HandlerStep
  <2>1. CASE \/ \E j \in Jobs : ChoiceInsert(j) \/ AnnouncedInsert(j)
             \/ \E u \in Users : CancelUpdate(u)
    BY <1>a, <2>1, OtherWritesRunning DEF ChoiceInsert, AnnouncedInsert, CancelUpdate, Write, TxInv
  <2>2. CASE UNCHANGED <<db, base, tx, pc, claimed>>
    BY <2>2
  <2> QED BY <1>3, <2>1, <2>2
          DEF HandlerStep, ChoiceConfirm, ChoiceConfirmRaises, Announce, AnnouncedWake,
              InsertRaises, CancelList, tableVars
<1>4. CASE StopPolling
  BY <1>4 DEF StopPolling, tableVars
<1>5. CASE ShutdownStep
  <2>1. CASE StopWorker
    BY <2>1 DEF StopWorker, tableVars
  <2>2. CASE GraceExpires
    <3>1. Current = claimed /\ claimed \in Jobs
      BY <1>b, <2>2 DEF GraceExpires, Current
    <3> QED BY <1>a, <2>2, <3>1, SetStateRunning
            DEF GraceExpires, Write, TxInv, JobState
  <2>3. CASE CancelTask \/ StopRaises
    <3>1. CASE pc \in Trying
      <4>1. claimed \in Jobs
        BY <1>b, <3>1 DEF Working
      <4>2. Write(SetState(db, claimed, "interrupted")) /\ pc' = "mark" /\ claimed' = claimed
        BY <2>3, <3>1 DEF CancelTask, StopRaises, ThrowCancelled, Trying
      <4>3. Running \subseteq {claimed}
        BY <3>1 DEF Trying
      <4> QED BY <1>a, <4>1, <4>2, <4>3, SetStateRunning DEF Write, TxInv, JobState
    <3>2. CASE pc \notin Trying
      BY <2>3, <3>2 DEF CancelTask, StopRaises, ThrowCancelled, tableVars
    <3> QED BY <3>1, <3>2
  <2>4. CASE Close
    BY <2>4 DEF Close, ProcessEnds, RollbackTx, TxInv
  <2> QED BY <1>5, <2>1, <2>2, <2>3, <2>4 DEF ShutdownStep
<1>6. CASE Crash
  BY <1>6 DEF Crash, ProcessEnds, RollbackTx, TxInv
<1>7. CASE Start
  BY <1>a, <1>7, OtherWritesRunning DEF Start, Write, TxInv, Claiming
<1>8. CASE UNCHANGED vars
  BY <1>8 DEF vars
<1> QED BY <1>1, <1>2, <1>3, <1>4, <1>5, <1>6, <1>7, <1>8 DEF Next

LEMMA RunCorrect == Spec => [](TypeInv /\ TxInv /\ RunInv)
<1>1. Init => RunInv
  BY DEF Init, RunInv, Running, InState, EmptyTable
<1> QED BY <1>1, TxCorrect, RunNext, PTL DEF Spec

(* At most one job is running, whatever interleaves with the claim and     *)
(* whatever a restart finds, and it is the one the worker holds.           *)
THEOREM OneJobRuns == Spec => []RunningIsTheWorkers
<1>1. TypeInv /\ RunInv => RunningIsTheWorkers
  BY DEF TypeInv, TypeOK, RunInv, RunningIsTheWorkers, WorkerPc, Claiming, Working, Trying,
         Ended
<1> QED BY <1>1, RunCorrect, PTL
-----------------------------------------------------------------------------
(* Deliveries.  What a write does to the state column, row by row: *)
LEMMA RowsOfWrites ==
  ASSUME NEW t \in Table, NEW k \in Jobs
  PROVE  /\ \A j \in Jobs, s \in JobState :
              SetState(t, j, s).state[k] = IF k = j THEN s ELSE t.state[k]
         /\ \A j \in Jobs :
              Insert(t, j).state[k] = IF k = j THEN "queued" ELSE t.state[k]
         /\ \A u \in Users :
              CancelQueued(t, u).state[k] = IF t.state[k] = "queued" /\ Owner[k] = u
                                            THEN "cancelled" ELSE t.state[k]
         /\ Requeue(t).state[k] = IF t.state[k] \in {"running", "interrupted"}
                                  THEN "queued" ELSE t.state[k]
BY DEF SetState, Insert, CancelQueued, Requeue, QueuedOf, Queued, InState, Table, JobState

(* A job whose handler has not inserted it yet is nowhere.  After a         *)
(* rollback the reverse fails: a handler may have gone on without its row. *)
Fresh(j) == handler[j] \in {"none", "announced"}

FreshInv ==
  \A j \in Jobs : Fresh(j) =>
    delivered[j] = 0 /\ db.state[j] = "absent" /\ base.state[j] = "absent" /\ claimed # j

LEMMA FreshNext == TypeInv /\ FreshInv /\ [Next]_vars => FreshInv'
<1> SUFFICES ASSUME TypeInv, FreshInv, [Next]_vars, NEW k \in Jobs, Fresh(k)'
             PROVE  /\ Fresh(k)
                    /\ delivered'[k] = 0
                    /\ db'.state[k] = "absent" /\ base'.state[k] = "absent"
                    /\ claimed' # k
  BY DEF FreshInv
<1>a. /\ db \in Table /\ base \in Table
      /\ handler \in [Jobs -> HandlerPc] /\ delivered \in [Jobs -> Nat]
      /\ NoJob \notin Jobs
  BY NoJobAssumption DEF TypeInv, TypeOK
<1>b. pc \in {"update"} \union Working => claimed \in Jobs
  BY DEF TypeInv, HoldsJob
<1>c. Fresh(k) => /\ delivered[k] = 0 /\ db.state[k] = "absent" /\ base.state[k] = "absent"
                  /\ claimed # k
  BY DEF FreshInv
<1> USE DEF Fresh
<1>1. CASE WorkerStep
  <2>1. CASE FirstIteration \/ LeaveIdle \/ EndJob
    BY <1>c, <2>1 DEF FirstIteration, LeaveIdle, EndJob, LoopHead, Begin, handlerVars, tableVars
  <2>2. CASE SelectOldest
    BY <1>a, <1>c, <2>2 DEF SelectOldest, Oldest, Queued, InState, handlerVars, tableVars
  <2>3. CASE StartJob \/ GoIdle \/ PipelineSucceeds \/ EndMarked
    BY <1>c, <2>3 DEF StartJob, GoIdle, PipelineSucceeds, EndMarked, handlerVars, tableVars
  <2>4. CASE Deliver
    BY <1>a, <1>c, <2>4 DEF Deliver, handlerVars, tableVars
  <2>5. CASE FlipToRunning
    <3>1. claimed \in Jobs
      BY <2>5 DEF FlipToRunning, TypeInv, TypeOK
    <3> QED BY <1>a, <1>c, <2>5, <3>1, RowsOfWrites DEF FlipToRunning, Write, handlerVars, JobState
  <2>6. CASE FinishDone \/ Fail
    <3>1. claimed \in Jobs
      BY <1>b, <2>6 DEF FinishDone, Fail, Working, Trying
    <3> QED BY <1>a, <1>c, <2>6, <3>1, RowsOfWrites
            DEF FinishDone, Fail, Write, handlerVars, JobState
  <2>7. CASE Commit
    BY <1>c, <2>7 DEF Commit, CommitTx, handlerVars
  <2> QED BY <1>1, <2>1, <2>2, <2>3, <2>4, <2>5, <2>6, <2>7 DEF WorkerStep
<1>2. CASE WorkerFault
  BY <1>c, <1>2 DEF WorkerFault, ClaimRaises, FailRaises, RollbackTx, handlerVars, tableVars
<1>3. CASE HandlerStep
  <2>1. ASSUME NEW j \in Jobs, ChoiceInsert(j) \/ AnnouncedInsert(j) PROVE k # j /\ Fresh(k)
    BY <1>a, <2>1 DEF ChoiceInsert, AnnouncedInsert
  <2>2. CASE \E j \in Jobs : ChoiceInsert(j) \/ AnnouncedInsert(j)
    BY <1>a, <1>c, <2>1, <2>2, RowsOfWrites DEF ChoiceInsert, AnnouncedInsert, Write
  <2>3. CASE \E j \in Jobs : \/ ChoiceConfirm(j) \/ ChoiceConfirmRaises(j) \/ Announce(j)
                             \/ AnnouncedWake(j) \/ InsertRaises(j)
    BY <1>a, <1>c, <2>3 DEF ChoiceConfirm, ChoiceConfirmRaises, Announce, AnnouncedWake,
                            InsertRaises, tableVars
  <2>4. CASE \E u \in Users : CancelList(u)
    BY <1>c, <2>4 DEF CancelList, tableVars
  <2>5. CASE \E u \in Users : CancelUpdate(u)
    BY <1>a, <1>c, <2>5, RowsOfWrites DEF CancelUpdate, Write
  <2> QED BY <1>3, <2>2, <2>3, <2>4, <2>5 DEF HandlerStep
<1>4. CASE StopPolling
  BY <1>c, <1>4 DEF StopPolling, handlerVars, tableVars
<1>5. CASE ShutdownStep
  <2>1. CASE StopWorker
    BY <1>c, <2>1 DEF StopWorker, handlerVars, tableVars
  <2>2. CASE GraceExpires
    <3>1. Current = claimed /\ claimed \in Jobs
      BY <1>b, <2>2 DEF GraceExpires, Current
    <3> QED BY <1>a, <1>c, <2>2, <3>1, RowsOfWrites DEF GraceExpires, Write, handlerVars, JobState
  <2>3. CASE CancelTask \/ StopRaises
    <3>1. pc \in Trying => claimed \in Jobs
      BY <1>b DEF Working
    <3>2. CASE pc \in Trying
      <4>1. Write(SetState(db, claimed, "interrupted"))
        BY <2>3, <3>2 DEF CancelTask, StopRaises, ThrowCancelled, Trying
      <4>2. UNCHANGED <<claimed, delivered>> /\ Fresh(k)
        BY <1>a, <2>3 DEF CancelTask, StopRaises, HandlersAreLost, handlerVars
      <4> QED BY <1>a, <1>c, <3>1, <3>2, <4>1, <4>2, RowsOfWrites DEF Write, JobState
    <3>3. CASE pc \notin Trying
      BY <1>a, <1>c, <2>3, <3>3
         DEF CancelTask, StopRaises, ThrowCancelled, HandlersAreLost, handlerVars, tableVars
    <3> QED BY <3>2, <3>3
  <2>4. CASE Close
    BY <1>a, <1>c, <2>4 DEF Close, ProcessEnds, RollbackTx, HandlersAreLost
  <2> QED BY <1>5, <2>1, <2>2, <2>3, <2>4 DEF ShutdownStep
<1>6. CASE Crash
  BY <1>a, <1>c, <1>6 DEF Crash, ProcessEnds, RollbackTx, HandlersAreLost
<1>7. CASE Start
  BY <1>a, <1>c, <1>7, RowsOfWrites DEF Start, Write, handlerVars
<1>8. CASE UNCHANGED vars
  BY <1>c, <1>8 DEF vars
<1> QED BY <1>1, <1>2, <1>3, <1>4, <1>5, <1>6, <1>7, <1>8 DEF Next

LEMMA FreshCorrect == Spec => [](TypeInv /\ FreshInv)
<1>1. Init => FreshInv
  BY NoJobAssumption DEF Init, FreshInv, Fresh, EmptyTable
<1> QED BY <1>1, TypeInit, TypeNext, FreshNext, PTL DEF Spec
(* The row of the job the worker holds, from the claim's UPDATE to the end. *)
ClaimInv ==
  /\ pc \in {"update", "commit"} /\ claimed # NoJob => db.state[claimed] = "running"
  /\ pc \in {"run", "deliver", "record"} => db.state[claimed] \in {"running", "interrupted"}
  /\ pc = "done" => db.state[claimed] \in {"done", "interrupted"}
  /\ pc = "fail" => db.state[claimed] \in {"failed", "interrupted"}
  /\ pc = "mark" => db.state[claimed] = "interrupted"

LEMMA ClaimNext == TypeInv /\ FreshInv /\ ClaimInv /\ [Next]_vars => ClaimInv'
<1> SUFFICES ASSUME TypeInv, FreshInv, ClaimInv, [Next]_vars PROVE ClaimInv'
  OBVIOUS
<1> USE DEF ClaimInv
<1>a. /\ db \in Table /\ base \in Table /\ pc \in WorkerPc
      /\ NoJob \notin Jobs /\ claimed \in Jobs \union {NoJob}
  BY NoJobAssumption DEF TypeInv, TypeOK
<1>b. pc \in {"update"} \union Working => claimed \in Jobs
  BY DEF TypeInv, HoldsJob
<1>1. CASE WorkerStep
  <2>1. CASE FirstIteration \/ LeaveIdle \/ EndJob
    BY <2>1 DEF FirstIteration, LeaveIdle, EndJob, LoopHead
  <2>2. CASE SelectOldest \/ StartJob \/ GoIdle \/ PipelineSucceeds \/ Deliver \/ EndMarked
    BY <2>2 DEF SelectOldest, StartJob, GoIdle, PipelineSucceeds, Deliver, EndMarked, tableVars
  <2>3. CASE FlipToRunning
    <3>1. claimed \in Jobs
      BY <1>a, <2>3 DEF FlipToRunning
    <3> QED BY <1>a, <2>3, <3>1, RowsOfWrites DEF FlipToRunning, Write, JobState
  <2>4. CASE FinishDone \/ Fail
    <3>1. claimed \in Jobs
      BY <1>b, <2>4 DEF FinishDone, Fail, Working, Trying
    <3> QED BY <1>a, <2>4, <3>1, RowsOfWrites DEF FinishDone, Fail, Write, JobState
  <2>5. CASE Commit
    BY <2>5 DEF Commit, CommitTx
  <2> QED BY <1>1, <2>1, <2>2, <2>3, <2>4, <2>5 DEF WorkerStep
<1>2. CASE WorkerFault
  BY <1>2 DEF WorkerFault, ClaimRaises, FailRaises
<1>3. CASE HandlerStep
  <2>1. ASSUME NEW j \in Jobs, ChoiceInsert(j) \/ AnnouncedInsert(j) PROVE ClaimInv'
    <3>1. claimed # j
      BY <2>1 DEF ChoiceInsert, AnnouncedInsert, FreshInv, Fresh
    <3> QED BY <1>a, <1>b, <2>1, <3>1, RowsOfWrites
            DEF ChoiceInsert, AnnouncedInsert, Write, Working, Trying
  <2>2. ASSUME NEW u \in Users, CancelUpdate(u) PROVE ClaimInv'
    BY <1>a, <1>b, <2>2, RowsOfWrites DEF CancelUpdate, Write, Working, Trying
  <2>3. CASE UNCHANGED <<db, pc, claimed>>
    BY <2>3
  <2> QED BY <1>3, <2>1, <2>2, <2>3
          DEF HandlerStep, ChoiceConfirm, ChoiceConfirmRaises, Announce, AnnouncedWake,
              InsertRaises, CancelList, tableVars
<1>4. CASE StopPolling
  BY <1>4 DEF StopPolling, tableVars
<1>5. CASE ShutdownStep
  <2>1. CASE StopWorker
    BY <2>1 DEF StopWorker, tableVars
  <2>2. CASE GraceExpires
    <3>1. pc \in Working /\ Current = claimed /\ claimed \in Jobs
      BY <1>b, <2>2 DEF GraceExpires, Current
    <3> QED BY <1>a, <2>2, <3>1, RowsOfWrites DEF GraceExpires, Write, Working, Trying, JobState
  <2>3. CASE CancelTask \/ StopRaises
    <3>1. pc \in Trying => claimed \in Jobs
      BY <1>b DEF Working
    <3> QED BY <1>a, <2>3, <3>1, RowsOfWrites
            DEF CancelTask, StopRaises, ThrowCancelled, Write, Trying, tableVars, JobState
  <2>4. CASE Close
    BY <2>4 DEF Close, ProcessEnds
  <2> QED BY <1>5, <2>1, <2>2, <2>3, <2>4 DEF ShutdownStep
<1>6. CASE Crash
  BY <1>6 DEF Crash, ProcessEnds
<1>7. CASE Start
  BY <1>7 DEF Start
<1>8. CASE UNCHANGED vars
  BY <1>8 DEF vars
<1> QED BY <1>1, <1>2, <1>3, <1>4, <1>5, <1>6, <1>7, <1>8 DEF Next

LEMMA ClaimCorrect == Spec => [](TypeInv /\ TxInv /\ FreshInv /\ ClaimInv)
<1>1. Init => ClaimInv
  BY DEF Init, ClaimInv
<1> QED BY <1>1, TypeInit, TypeNext, TxCorrect, FreshCorrect, ClaimNext, PTL DEF Spec

(* A job that is queued while the process lives, or that the worker holds   *)
(* before the delivery, has not been delivered since the process started; a *)
(* job that is done has been delivered at some time.                        *)
DeliveryInv ==
  /\ \A j \in Jobs :
       /\ delivered[j] <= 1
       /\ Up /\ (db.state[j] = "queued" \/ base.state[j] = "queued") => delivered[j] = 0
       /\ db.state[j] = "done" \/ base.state[j] = "done" => j \in sent
  /\ pc \in {"select", "update", "commit", "run", "deliver"} /\ claimed # NoJob
       => delivered[claimed] = 0
  /\ pc \in {"record", "done"} => claimed \in sent

LEMMA DeliveryNext ==
  TypeInv /\ OffInv /\ TxInv /\ FreshInv /\ ClaimInv /\ DeliveryInv /\ [Next]_vars
    => DeliveryInv'
<1> SUFFICES ASSUME TypeInv, OffInv, TxInv, FreshInv, ClaimInv, DeliveryInv, [Next]_vars
             PROVE  DeliveryInv'
  OBVIOUS
<1> USE DEF DeliveryInv
<1>a. /\ db \in Table /\ base \in Table /\ pc \in WorkerPc
      /\ delivered \in [Jobs -> Nat]
      /\ NoJob \notin Jobs /\ claimed \in Jobs \union {NoJob}
  BY NoJobAssumption DEF TypeInv, TypeOK
<1>b. pc \in {"update"} \union Working => claimed \in Jobs
  BY DEF TypeInv, HoldsJob
<1>1. CASE WorkerStep
  <2>1. CASE FirstIteration \/ LeaveIdle \/ EndJob
    BY <2>1 DEF FirstIteration, LeaveIdle, EndJob, LoopHead, Begin, Up, tableVars
  <2>2. CASE SelectOldest
    BY <1>a, <2>2 DEF SelectOldest, Oldest, Queued, InState, Up, tableVars
  <2>3. CASE StartJob \/ GoIdle \/ PipelineSucceeds \/ EndMarked
    BY <2>3 DEF StartJob, GoIdle, PipelineSucceeds, EndMarked, Up, tableVars
  <2>4. CASE Deliver
    <3>1. /\ pc = "deliver" /\ claimed \in Jobs /\ claimed # NoJob
          /\ delivered' = [delivered EXCEPT ![claimed] = delivered[claimed] + 1]
          /\ sent' = sent \union {claimed}
          /\ pc' = "record" /\ UNCHANGED <<db, base, claimed>>
      BY <1>a, <1>b, <2>4 DEF Deliver, Working, Trying, tableVars
    <3>2. base = db /\ db.state[claimed] \in {"running", "interrupted"}
      BY <3>1 DEF TxInv, Claiming, ClaimInv
    <3>3. /\ delivered'[claimed] = 1
          /\ \A j \in Jobs \ {claimed} : delivered'[j] = delivered[j]
      BY <1>a, <3>1
    <3> QED BY <3>1, <3>2, <3>3 DEF Up
  <2>5. CASE FlipToRunning
    <3>1. claimed \in Jobs
      BY <1>a, <2>5 DEF FlipToRunning
    <3> QED BY <1>a, <2>5, <3>1, RowsOfWrites DEF FlipToRunning, Write, JobState, Up
  <2>6. CASE FinishDone \/ Fail
    <3>1. claimed \in Jobs
      BY <1>b, <2>6 DEF FinishDone, Fail, Working, Trying
    <3>2. PICK s \in {"done", "failed"} :
            /\ Write(SetState(db, claimed, s))
            /\ s = "done" => pc = "record"
            /\ pc' = IF s = "done" THEN "done" ELSE "fail"
            /\ UNCHANGED <<claimed, delivered, sent>>
      BY <2>6 DEF FinishDone, Fail
    <3>3. \A k \in Jobs :
            /\ db'.state[k] = IF k = claimed THEN s ELSE db.state[k]
            /\ base'.state[k] \in {base.state[k], db'.state[k]}
      BY <1>a, <3>1, <3>2, RowsOfWrites DEF Write, JobState
    <3>4. Up /\ pc' # "off"
      BY <2>6, <3>2 DEF FinishDone, Fail, Up
    <3> QED BY <3>1, <3>2, <3>3, <3>4 DEF Up
  <2>7. CASE Commit
    BY <2>7 DEF Commit, CommitTx, Up
  <2> QED BY <1>1, <2>1, <2>2, <2>3, <2>4, <2>5, <2>6, <2>7 DEF WorkerStep
<1>2. CASE WorkerFault
  BY <1>2 DEF WorkerFault, ClaimRaises, FailRaises, RollbackTx, Up, tableVars
<1>3. CASE HandlerStep
  <2>1. ASSUME NEW j \in Jobs, ChoiceInsert(j) \/ AnnouncedInsert(j) PROVE DeliveryInv'
    <3>1. delivered[j] = 0
      BY <2>1 DEF ChoiceInsert, AnnouncedInsert, FreshInv, Fresh
    <3>2. Up
      BY <2>1 DEF ChoiceInsert, AnnouncedInsert, OffInv, Up
    <3> QED BY <1>a, <2>1, <3>1, <3>2, RowsOfWrites DEF ChoiceInsert, AnnouncedInsert, Write, Up
  <2>2. ASSUME NEW u \in Users, CancelUpdate(u) PROVE DeliveryInv'
    BY <1>a, <2>2, RowsOfWrites DEF CancelUpdate, Write, Up
  <2>3. CASE UNCHANGED <<db, base, pc, claimed, delivered, sent>>
    BY <2>3 DEF Up
  <2> QED BY <1>3, <2>1, <2>2, <2>3
          DEF HandlerStep, ChoiceConfirm, ChoiceConfirmRaises, Announce, AnnouncedWake,
              InsertRaises, CancelList, tableVars
<1>4. CASE StopPolling
  BY <1>4 DEF StopPolling, tableVars, Up
<1>5. CASE ShutdownStep
  <2>1. CASE StopWorker
    BY <2>1 DEF StopWorker, tableVars, Up
  <2>2. CASE GraceExpires
    <3>1. pc \in Working /\ Current = claimed /\ claimed \in Jobs
      BY <1>b, <2>2 DEF GraceExpires, Current
    <3> QED BY <1>a, <2>2, <3>1, RowsOfWrites DEF GraceExpires, Write, JobState, Up
  <2>3. CASE CancelTask \/ StopRaises
    <3>1. pc \in Trying => claimed \in Jobs
      BY <1>b DEF Working
    <3>2. pc # "off"
      BY <2>3 DEF CancelTask, StopRaises, OffInv
    <3> QED BY <1>a, <2>3, <3>1, <3>2, RowsOfWrites
            DEF CancelTask, StopRaises, ThrowCancelled, Write, Trying, tableVars, JobState, Up
  <2>4. CASE Close
    BY <2>4 DEF Close, ProcessEnds, RollbackTx, Up
  <2> QED BY <1>5, <2>1, <2>2, <2>3, <2>4 DEF ShutdownStep
<1>6. CASE Crash
  BY <1>6 DEF Crash, ProcessEnds, RollbackTx, Up
<1>7. CASE Start
  BY <1>a, <1>7, RowsOfWrites DEF Start, Write
<1>8. CASE UNCHANGED vars
  BY <1>8 DEF vars, Up
<1> QED BY <1>1, <1>2, <1>3, <1>4, <1>5, <1>6, <1>7, <1>8 DEF Next

LEMMA DeliveryCorrect ==
  Spec => [](TypeInv /\ TxInv /\ FreshInv /\ ClaimInv /\ DeliveryInv)
<1>1. Init => DeliveryInv
  BY DEF Init, DeliveryInv, EmptyTable, Up
<1> QED BY <1>1, ClaimCorrect, OffCorrect, DeliveryNext, PTL DEF Spec

(* finish(DONE) comes after the delivery on every path: a job whose row    *)
(* says "done", now or after a crash, has been delivered.                  *)
THEOREM DoneWasDelivered == Spec => []DoneMeansDelivered
<1>1. DeliveryInv => DoneMeansDelivered
  BY DEF DeliveryInv, DoneMeansDelivered
<1> QED BY <1>1, DeliveryCorrect, PTL

(* The worker delivers a job at most once in the life of a process; only a *)
(* restart, which re-queues what it finds unfinished, can repeat one.      *)
THEOREM OneDeliveryPerStart == Spec => []DeliveredOncePerStart
<1>1. DeliveryInv => DeliveredOncePerStart
  BY DEF DeliveryInv, DeliveredOncePerStart
<1> QED BY <1>1, DeliveryCorrect, PTL

-----------------------------------------------------------------------------
(* Wake-ups: from the moment the SELECT found nothing, with the event       *)
(* clear, whatever has been queued since still owes the worker its wake.   *)
OwesWake(j) == handler[j] \in {"inserted", "stored", "unwoken"}

WakeInv ==
  /\ pc = "idle" \/ (pc \in {"select", "commit"} /\ claimed = NoJob)
  /\ ~wakeup
  => \A j \in Queued(db) : OwesWake(j)

LEMMA WakeNext == TypeInv /\ FreshInv /\ WakeInv /\ [Next]_vars => WakeInv'
<1> SUFFICES ASSUME TypeInv, FreshInv, WakeInv, [Next]_vars,
                    pc' = "idle" \/ (pc' \in {"select", "commit"} /\ claimed' = NoJob),
                    ~wakeup', NEW k \in Jobs, db'.state[k] = "queued"
             PROVE  handler'[k] \in {"inserted", "stored", "unwoken"}
  BY DEF WakeInv, OwesWake, Queued, InState
<1>a. /\ db \in Table /\ base \in Table /\ pc \in WorkerPc
      /\ handler \in [Jobs -> HandlerPc]
      /\ NoJob \notin Jobs /\ claimed \in Jobs \union {NoJob}
  BY NoJobAssumption DEF TypeInv, TypeOK
<1>b. /\ pc = "idle" \/ (pc \in {"select", "commit"} /\ claimed = NoJob)
      /\ ~wakeup
      /\ db.state[k] = "queued"
      => handler[k] \in {"inserted", "stored", "unwoken"}
  BY DEF WakeInv, OwesWake, Queued, InState
<1>1. CASE WorkerStep
  <2>1. CASE FirstIteration \/ LeaveIdle \/ EndJob
    BY <2>1 DEF FirstIteration, LeaveIdle, EndJob, LoopHead
  <2>2. CASE SelectOldest
    BY <1>a, <2>2 DEF SelectOldest, Oldest, Queued, InState, tableVars
  <2>3. CASE Commit \/ GoIdle
    BY <1>a, <1>b, <2>3 DEF Commit, CommitTx, GoIdle, handlerVars, tableVars,
                            TypeInv, HoldsJob
  <2>4. CASE \/ FlipToRunning \/ StartJob \/ PipelineSucceeds \/ Deliver \/ FinishDone
             \/ Fail \/ EndMarked
    BY <2>4 DEF FlipToRunning, StartJob, PipelineSucceeds, Deliver, FinishDone, Fail, EndMarked
  <2> QED BY <1>1, <2>1, <2>2, <2>3, <2>4 DEF WorkerStep
<1>2. CASE WorkerFault
  BY <1>2 DEF WorkerFault, ClaimRaises, FailRaises
<1>3. CASE HandlerStep
  <2>1. CASE \E j \in Jobs : ChoiceInsert(j) \/ AnnouncedInsert(j)
    BY <1>a, <1>b, <2>1, RowsOfWrites DEF ChoiceInsert, AnnouncedInsert, Write
  <2>2. CASE \E j \in Jobs : ChoiceConfirm(j) \/ AnnouncedWake(j)
    BY <2>2 DEF ChoiceConfirm, AnnouncedWake
  <2>3. CASE \E j \in Jobs : ChoiceConfirmRaises(j) \/ Announce(j) \/ InsertRaises(j)
    BY <1>a, <1>b, <2>3 DEF ChoiceConfirmRaises, Announce, InsertRaises, FreshInv, Fresh,
                            tableVars
  <2>4. CASE \E u \in Users : CancelList(u)
    BY <1>b, <2>4 DEF CancelList, tableVars
  <2>5. CASE \E u \in Users : CancelUpdate(u)
    BY <1>a, <1>b, <2>5, RowsOfWrites DEF CancelUpdate, Write
  <2> QED BY <1>3, <2>1, <2>2, <2>3, <2>4, <2>5 DEF HandlerStep
<1>4. CASE StopPolling
  BY <1>b, <1>4 DEF StopPolling, handlerVars, tableVars
<1>5. CASE ShutdownStep
  <2>1. CASE StopWorker
    BY <2>1 DEF StopWorker
  <2>2. CASE GraceExpires
    BY <1>a, <2>2 DEF GraceExpires, Current, Working, Trying
  <2>3. CASE CancelTask \/ StopRaises
    BY <2>3 DEF CancelTask, StopRaises, ThrowCancelled
  <2>4. CASE Close
    BY <2>4 DEF Close, ProcessEnds
  <2> QED BY <1>5, <2>1, <2>2, <2>3, <2>4 DEF ShutdownStep
<1>6. CASE Crash \/ Start
  BY <1>6 DEF Crash, ProcessEnds, Start
<1>8. CASE UNCHANGED vars
  BY <1>b, <1>8 DEF vars
<1> QED BY <1>1, <1>2, <1>3, <1>4, <1>5, <1>6, <1>8 DEF Next

(* While the worker waits with the event clear, everything queued belongs  *)
(* to a handler that has yet to wake it, or whose message could not be     *)
(* edited: no wake() is ever lost to a claim that was under way.           *)
THEOREM WakeNeverLost == Spec => []NoLostWakeup
<1>1. Init => WakeInv
  BY DEF Init, WakeInv
<1>2. WakeInv => NoLostWakeup
  BY DEF WakeInv, OwesWake, NoLostWakeup
<1> QED BY <1>1, <1>2, FreshCorrect, WakeNext, PTL DEF Spec

-----------------------------------------------------------------------------
(* The scratch directories: no way out of _run_job skips the finally. *)
ScratchInv ==
  /\ ScratchIsCurrents
  /\ pc = "mark" => shutdown \in {"cancelled", "raised"}   \* the task is cancelled only once

LEMMA ScratchNext == TypeInv /\ OffInv /\ ScratchInv /\ [Next]_vars => ScratchInv'
<1> SUFFICES ASSUME TypeInv, OffInv, ScratchInv, [Next]_vars PROVE ScratchInv'
  OBVIOUS
<1> USE DEF ScratchInv, ScratchIsCurrents, Up, Current, Working, Trying
<1>a. work \subseteq Jobs /\ NoJob \notin Jobs /\ pc \in WorkerPc
  BY NoJobAssumption DEF TypeInv, TypeOK
<1>1. CASE WorkerStep
  BY <1>a, <1>1
     DEF WorkerStep, FirstIteration, SelectOldest, FlipToRunning, Commit, StartJob, GoIdle,
         LeaveIdle, PipelineSucceeds, Deliver, FinishDone, Fail, EndJob, EndMarked, LoopHead
<1>2. CASE WorkerFault
  BY <1>a, <1>2 DEF WorkerFault, ClaimRaises, FailRaises
<1>3. CASE HandlerStep
  BY <1>3 DEF HandlerStep, ChoiceInsert, ChoiceConfirm, ChoiceConfirmRaises, Announce,
              AnnouncedInsert, AnnouncedWake, InsertRaises, CancelList, CancelUpdate
<1>4. CASE StopPolling
  BY <1>4 DEF StopPolling
<1>5. CASE ShutdownStep
  <2>1. CASE StopWorker \/ GraceExpires
    BY <2>1 DEF StopWorker, GraceExpires
  <2>2. CASE CancelTask \/ StopRaises
    <3>1. CASE pc \in Trying \union {"fail"}
      BY <2>2, <3>1 DEF CancelTask, StopRaises, ThrowCancelled
    <3>2. CASE pc \notin Trying \union {"fail"}
      BY <1>a, <2>2, <3>2 DEF CancelTask, StopRaises, ThrowCancelled, OffInv
    <3> QED BY <3>1, <3>2
  <2>3. CASE Close
    BY <2>3 DEF Close, ProcessEnds
  <2> QED BY <1>5, <2>1, <2>2, <2>3 DEF ShutdownStep
<1>6. CASE Crash \/ Start
  BY <1>6 DEF Crash, ProcessEnds, Start
<1>7. CASE UNCHANGED vars
  BY <1>7 DEF vars
<1> QED BY <1>1, <1>2, <1>3, <1>4, <1>5, <1>6, <1>7 DEF Next

LEMMA ScratchInit == Init => ScratchInv
BY DEF Init, ScratchInv, ScratchIsCurrents, Up

(* While the process lives, the only directory under work/ is that of the  *)
(* current job: scratch files do not accumulate.                           *)
THEOREM ScratchIsBounded == Spec => []ScratchIsCurrents
<1>1. ScratchInv => ScratchIsCurrents
  BY DEF ScratchInv
<1> QED BY <1>1, ScratchInit, OffCorrect, ScratchNext, PTL DEF Spec

-----------------------------------------------------------------------------
(* The loop ends when it is told to, or at a statement that raises where   *)
(* nothing catches it; a job that fails only ends itself.                  *)
THEOREM OnlyFaultsKillTheLoop == Spec => []LoopDiesOnlyOnFault
<1>1. Init => LoopDiesOnlyOnFault
  BY DEF Init, LoopDiesOnlyOnFault
<1>2. TypeInv /\ ScratchInv /\ LoopDiesOnlyOnFault /\ [Next]_vars => LoopDiesOnlyOnFault'
  <2> SUFFICES ASSUME TypeInv, ScratchInv, LoopDiesOnlyOnFault, [Next]_vars, pc' = "dead"
               PROVE  Stopping' \/ faults' > 0
    BY DEF LoopDiesOnlyOnFault
  <2> USE DEF LoopDiesOnlyOnFault, Stopping
  <2>a. faults \in Nat
    BY DEF TypeInv, TypeOK
  <2>1. CASE WorkerStep
    BY <2>1 DEF WorkerStep, FirstIteration, SelectOldest, FlipToRunning, Commit, StartJob, GoIdle,
                LeaveIdle, PipelineSucceeds, Deliver, FinishDone, Fail, EndJob, EndMarked,
                LoopHead, ScratchInv
  <2>2. CASE WorkerFault
    BY <2>a, <2>2 DEF WorkerFault, ClaimRaises, FailRaises
  <2>3. CASE HandlerStep
    <3>1. pc = "dead" /\ shutdown' = shutdown
      BY <2>3 DEF HandlerStep, ChoiceInsert, ChoiceConfirm, ChoiceConfirmRaises, Announce,
                  AnnouncedInsert, AnnouncedWake, InsertRaises, CancelList, CancelUpdate
    <3>2. faults' = faults \/ faults' = faults + 1
      BY <2>3 DEF HandlerStep, ChoiceInsert, ChoiceConfirm, ChoiceConfirmRaises, Announce,
                  AnnouncedInsert, AnnouncedWake, InsertRaises, CancelList, CancelUpdate
    <3>3. Stopping \/ faults > 0
      BY <3>1
    <3>4. Stopping => Stopping'
      BY <3>1
    <3>5. faults > 0 => faults' > 0
      BY <2>a, <3>2
    <3> QED BY <3>3, <3>4, <3>5
  <2>4. CASE StopPolling \/ Crash \/ Start
    BY <2>4 DEF StopPolling, Crash, ProcessEnds, Start
  <2>5. CASE ShutdownStep
    BY <2>a, <2>5 DEF ShutdownStep, StopWorker, GraceExpires, CancelTask, Close, ProcessEnds,
                      StopRaises
  <2>6. CASE UNCHANGED vars
    BY <2>6 DEF vars
  <2> QED BY <2>1, <2>2, <2>3, <2>4, <2>5, <2>6 DEF Next
<1>3. Spec => []ScratchInv
  BY OffCorrect, ScratchNext, ScratchInit, PTL DEF Spec
<1> QED BY <1>1, <1>2, <1>3, TypeInit, TypeNext, PTL DEF Spec

-----------------------------------------------------------------------------
(* What a commit may bring: inside the claim's transaction rows are only   *)
(* inserted, cancelled while they are queued, and claimed.                 *)
PendingChanges ==
  {<<"absent", "queued">>, <<"absent", "running">>, <<"absent", "cancelled">>,
   <<"queued", "running">>, <<"queued", "cancelled">>}

CommitInv ==
  /\ \A k \in Jobs : base.state[k] = db.state[k]
                     \/ <<base.state[k], db.state[k]>> \in PendingChanges
  /\ pc = "select" /\ claimed # NoJob =>
       /\ base.state[claimed] \in {"absent", "queued"}
       /\ db.state[claimed] \in {"queued", "cancelled"}

(* One lemma for both: a step keeps CommitInv, and it changes the committed *)
(* state of a row as StateChanges allows.                                  *)
AllInv == TypeInv /\ OffInv /\ TxInv /\ FreshInv /\ ClaimInv /\ CommitInv

LEMMA CommitNext == AllInv /\ [Next]_vars => CommitInv' /\ LegalStateChange
<1> SUFFICES ASSUME AllInv, [Next]_vars PROVE CommitInv' /\ LegalStateChange
  OBVIOUS
<1> USE DEF CommitInv, LegalStateChange, PendingChanges, StateChanges, AllInv
<1>a. /\ db \in Table /\ base \in Table /\ pc \in WorkerPc
      /\ NoJob \notin Jobs /\ claimed \in Jobs \union {NoJob}
  BY NoJobAssumption DEF TypeInv, TypeOK
<1>b. pc \in {"update"} \union Working => claimed \in Jobs
  BY DEF TypeInv, HoldsJob
<1>c. ~tx => base = db
  BY DEF TxInv
<1>d. pc \in Working => ~tx
  BY DEF TxInv, Claiming, Working, Trying
<1>1. CASE WorkerStep
  <2>1. CASE FirstIteration \/ LeaveIdle \/ EndJob
    BY <2>1 DEF FirstIteration, LeaveIdle, EndJob, LoopHead, Begin, tableVars
  <2>2. CASE SelectOldest
    BY <1>a, <2>2 DEF SelectOldest, Oldest, Queued, InState, tableVars
  <2>3. CASE StartJob \/ GoIdle \/ PipelineSucceeds \/ Deliver \/ EndMarked
    BY <2>3 DEF StartJob, GoIdle, PipelineSucceeds, Deliver, EndMarked, tableVars
  <2>4. CASE FlipToRunning
    <3>1. /\ claimed \in Jobs /\ tx /\ base' = base /\ pc' = "update"
          /\ \A k \in Jobs : db'.state[k] = IF k = claimed THEN "running" ELSE db.state[k]
      BY <1>a, <2>4, RowsOfWrites DEF FlipToRunning, Write, TxInv, Claiming, JobState
    <3>2. base.state[claimed] \in {"absent", "queued"}
      BY <2>4 DEF FlipToRunning
    <3> QED BY <3>1, <3>2
  <2>5. CASE FinishDone \/ Fail
    <3>1. PICK s \in {"done", "failed"} :
            Write(SetState(db, claimed, s)) /\ pc' \in {"done", "fail"}
      BY <2>5 DEF FinishDone, Fail
    <3>2. /\ claimed \in Jobs /\ ~tx
          /\ db.state[claimed] \in {"running", "interrupted"}
      BY <1>b, <1>d, <2>5 DEF FinishDone, Fail, Working, Trying, ClaimInv
    <3>3. /\ base' = db'
          /\ \A k \in Jobs : db'.state[k] = IF k = claimed THEN s ELSE db.state[k]
      BY <1>a, <3>1, <3>2, RowsOfWrites DEF Write, JobState
    <3> QED BY <1>c, <3>1, <3>2, <3>3
  <2>6. CASE Commit
    BY <2>6 DEF Commit, CommitTx
  <2> QED BY <1>1, <2>1, <2>2, <2>3, <2>4, <2>5, <2>6 DEF WorkerStep
<1>2. CASE WorkerFault
  BY <1>2 DEF WorkerFault, ClaimRaises, FailRaises, RollbackTx, tableVars
<1>3. CASE HandlerStep
  <2>1. ASSUME NEW j \in Jobs, ChoiceInsert(j) \/ AnnouncedInsert(j)
        PROVE  CommitInv' /\ LegalStateChange
    <3>1. db.state[j] = "absent" /\ base.state[j] = "absent" /\ claimed # j
      BY <2>1 DEF ChoiceInsert, AnnouncedInsert, FreshInv, Fresh
    <3>2. /\ base' \in {base, db'} /\ (~tx => base' = db') /\ UNCHANGED <<pc, claimed>>
          /\ \A k \in Jobs : db'.state[k] = IF k = j THEN "queued" ELSE db.state[k]
      BY <1>a, <2>1, RowsOfWrites DEF ChoiceInsert, AnnouncedInsert, Write
    <3>3. base' = base \/ (base = db /\ base' = db')
      BY <1>c, <2>1 DEF ChoiceInsert, AnnouncedInsert, Write
    <3> QED BY <1>a, <3>1, <3>2, <3>3
  <2>2. ASSUME NEW u \in Users, CancelUpdate(u) PROVE CommitInv' /\ LegalStateChange
    <3>1. /\ UNCHANGED <<pc, claimed>>
          /\ \A k \in Jobs : \/ db'.state[k] = db.state[k]
                             \/ db.state[k] = "queued" /\ db'.state[k] = "cancelled"
      BY <1>a, <2>2, RowsOfWrites DEF CancelUpdate, Write
    <3>2. base' = base \/ (base = db /\ base' = db')
      BY <1>c, <2>2 DEF CancelUpdate, Write
    <3>3. pc = "select" => tx
      BY DEF TxInv, Claiming
    <3>4. tx => base' = base
      BY <2>2 DEF CancelUpdate, Write
    <3> QED BY <1>a, <3>1, <3>2, <3>3, <3>4
  <2>3. CASE UNCHANGED <<db, base, pc, claimed>>
    BY <2>3
  <2> QED BY <1>3, <2>1, <2>2, <2>3
          DEF HandlerStep, ChoiceConfirm, ChoiceConfirmRaises, Announce, AnnouncedWake,
              InsertRaises, CancelList, tableVars
<1>4. CASE StopPolling
  BY <1>4 DEF StopPolling, tableVars
<1>5. CASE ShutdownStep
  <2>1. CASE StopWorker
    BY <2>1 DEF StopWorker, tableVars
  <2>2. ASSUME pc \in Working, Write(SetState(db, claimed, "interrupted")), pc' # "select",
               db.state[claimed] \notin {"absent", "cancelled", "queued"}
        PROVE  CommitInv' /\ LegalStateChange
    <3>1. /\ claimed \in Jobs /\ base = db /\ base' = db'
          /\ \A k \in Jobs : db'.state[k] = IF k = claimed THEN "interrupted" ELSE db.state[k]
      BY <1>a, <1>b, <1>c, <1>d, <2>2, RowsOfWrites DEF Write, JobState
    <3>2. db.state[claimed] \in {"running", "done", "failed", "interrupted"}
      BY <1>a, <2>2, <3>1 DEF Table, JobState
    <3> QED BY <2>2, <3>1, <3>2
  <2>3. pc \in Working => db.state[claimed] \notin {"absent", "cancelled", "queued"}
    BY DEF ClaimInv, Working, Trying
  <2>4. CASE GraceExpires
    <3>1. /\ pc \in Working /\ Current = claimed /\ pc' = pc
          /\ Write(SetState(db, claimed, "interrupted"))
      BY <2>4 DEF GraceExpires, Current
    <3> QED BY <2>2, <2>3, <3>1 DEF Working, Trying
  <2>5. CASE CancelTask \/ StopRaises
    <3>1. CASE pc \in Trying
      BY <2>2, <2>3, <2>5, <3>1 DEF CancelTask, StopRaises, ThrowCancelled, Working, Trying
    <3>2. CASE pc \notin Trying
      BY <2>5, <3>2 DEF CancelTask, StopRaises, ThrowCancelled, tableVars
    <3> QED BY <3>1, <3>2
  <2>6. CASE Close
    BY <2>6 DEF Close, ProcessEnds, RollbackTx
  <2> QED BY <1>5, <2>1, <2>4, <2>5, <2>6 DEF ShutdownStep
<1>6. CASE Crash
  BY <1>6 DEF Crash, ProcessEnds, RollbackTx
<1>7. CASE Start
  <2>1. ~tx /\ base = db
    BY <1>c, <1>7 DEF Start, TxInv, Claiming
  <2>2. /\ base' = db' /\ pc' = "start"
        /\ \A k \in Jobs : db'.state[k] = IF db.state[k] \in {"running", "interrupted"}
                                          THEN "queued" ELSE db.state[k]
    BY <1>a, <1>7, <2>1, RowsOfWrites DEF Start, Write
  <2> QED BY <2>1, <2>2
<1>8. CASE UNCHANGED vars
  BY <1>8 DEF vars
<1> QED BY <1>1, <1>2, <1>3, <1>4, <1>5, <1>6, <1>7, <1>8 DEF Next

LEMMA AllCorrect == Spec => [](AllInv /\ DeliveryInv)
<1>1. Init => CommitInv
  BY DEF Init, CommitInv
<1> QED BY <1>1, OffCorrect, DeliveryCorrect, CommitNext, PTL DEF Spec, AllInv

(* The committed state of a row changes only along StateChanges: no         *)
(* cancellation that was committed is undone, no running job is cancelled, *)
(* and a job returns to the queue only from running or interrupted.        *)
THEOREM StateChangesAreLegal == Spec => LegalStateChanges
<1>1. AllInv /\ [Next]_vars => [LegalStateChange]_vars
  BY CommitNext
<1> QED BY <1>1, AllCorrect, PTL DEF Spec, LegalStateChanges

-----------------------------------------------------------------------------
(* The refinement.  Only Deliver counts a delivery. *)
LEMMA OnlyDeliverSends ==
  ASSUME [Next]_vars, ~Deliver
  PROVE  sent' = sent
BY DEF Next, vars, WorkerStep, FirstIteration, SelectOldest, FlipToRunning, Commit, StartJob,
       GoIdle, LeaveIdle, PipelineSucceeds, FinishDone, Fail, EndJob, EndMarked, WorkerFault,
       ClaimRaises, FailRaises, HandlerStep, ChoiceInsert, ChoiceConfirm, ChoiceConfirmRaises,
       Announce, AnnouncedInsert, AnnouncedWake, InsertRaises, CancelList, CancelUpdate,
       StopPolling, ShutdownStep, StopWorker, GraceExpires, CancelTask, Close, StopRaises,
       Crash, ProcessEnds, Start

(* The committed table implements PromisedQueue: what is accepted stays    *)
(* pending until it is settled, and what is done has been sent.            *)
THEOREM QueueKeepsItsPromise == Spec => KeepsThePromise
<1>1. Init => Promise!Init
  BY DEF Init, Promise!Init, Outcome, EmptyTable
<1>2. AllInv /\ DeliveryInv /\ DeliveryInv' /\ TypeInv' /\ [Next]_vars
        => [Promise!Next]_(Promise!vars)
  <2> SUFFICES ASSUME AllInv, DeliveryInv, DeliveryInv', TypeInv', [Next]_vars
               PROVE  [Promise!Next]_(Promise!vars)
    OBVIOUS
  <2>a. base \in Table /\ base' \in Table
    BY DEF AllInv, TypeInv, TypeOK
  <2>1. CASE Deliver
    <3>1. claimed \in Jobs /\ base' = base /\ sent' = sent \union {claimed}
      BY <2>1 DEF Deliver, AllInv, TypeInv, HoldsJob, Working, Trying, tableVars
    <3>2. base.state[claimed] \in {"running", "interrupted"}
      BY <2>1 DEF Deliver, AllInv, ClaimInv, TxInv, Claiming
    <3>3. Outcome' = Outcome /\ Outcome[claimed] = "pending"
      BY <3>1, <3>2 DEF Outcome
    <3> QED BY <3>1, <3>3 DEF Promise!Next, Promise!Send
  <2>2. CASE ~Deliver
    <3>1. sent' = sent
      BY <2>2, OnlyDeliverSends
    <3>2. \A j \in Jobs : base'.state[j] = "done" => j \in sent
      BY <3>1 DEF DeliveryInv
    <3>3. \A j \in Jobs : base.state[j] = base'.state[j]
                          \/ <<base.state[j], base'.state[j]>> \in StateChanges
      BY CommitNext DEF LegalStateChange
    <3>4. \A j \in Jobs : /\ base.state[j] \in JobState \union {"absent"}
                          /\ base'.state[j] \in JobState \union {"absent"}
      BY <2>a DEF Table
    <3>5. Outcome' \in [Jobs -> Promise!Outcomes]
      BY <3>4 DEF Outcome, Promise!Outcomes, JobState
    <3>6. ASSUME NEW j \in Jobs PROVE Outcome'[j] \in Promise!Successors(j)
      <4> DEFINE s == base.state[j]
                 t == base'.state[j]
      <4>1. s = t \/ <<s, t>> \in StateChanges
        BY <3>3
      <4>2. t = "done" => j \in sent
        BY <3>2
      <4>3. s \in JobState \union {"absent"} /\ t \in JobState \union {"absent"}
        BY <3>4
      <4>4. /\ Outcome[j] = CASE s = "absent" -> "none"
                              [] s \in {"queued", "running", "interrupted"} -> "pending"
                              [] OTHER -> s
            /\ Outcome'[j] = CASE t = "absent" -> "none"
                              [] t \in {"queued", "running", "interrupted"} -> "pending"
                              [] OTHER -> t
        BY DEF Outcome
      <4> HIDE DEF s, t
      <4> QED BY <4>1, <4>2, <4>3, <4>4 DEF Promise!Successors, StateChanges, JobState
    <3> QED BY <3>1, <3>5, <3>6 DEF Promise!Next, Promise!Decide
  <2> QED BY <2>1, <2>2
<1>3. AllInv => TypeInv
  BY DEF AllInv
<1> QED BY <1>1, <1>2, <1>3, AllCorrect, PTL DEF Spec, KeepsThePromise, Promise!Spec

-----------------------------------------------------------------------------
(* First come, first served.  Rows are numbered in the order of insertion,  *)
(* in both views of the table.                                             *)
Rows(t) == Jobs \ InState(t, "absent")

Numbered(t) == \A j \in Rows(t) : t.rowid[j] <= Cardinality(Rows(t))

OrderInv ==
  /\ Numbered(db) /\ Numbered(base)
  /\ pc = "select" /\ claimed # NoJob =>
       /\ claimed \in Rows(db)
       /\ \A k \in Queued(db) : db.rowid[claimed] <= db.rowid[k]

LEMMA InsertNumbers ==
  ASSUME NEW t \in Table, Numbered(t), NEW j \in Jobs, t.state[j] = "absent"
  PROVE  /\ Numbered(Insert(t, j))
         /\ \A i \in Rows(t) : /\ Insert(t, j).rowid[i] = t.rowid[i]
                               /\ t.rowid[i] <= Insert(t, j).rowid[j]
<1>1. IsFiniteSet(Rows(t)) /\ j \notin Rows(t)
  BY JobsAssumption, FS_Subset, Rows(t) \subseteq Jobs DEF Rows, InState
<1>2. Cardinality(Rows(t)) \in Nat
  BY <1>1, FS_CardinalityType
<1>3. Cardinality(Rows(t) \union {j}) = Cardinality(Rows(t)) + 1
  BY <1>1, FS_AddElement
<1>4. Rows(Insert(t, j)) = Rows(t) \union {j}
  BY DEF Rows, InState, Insert, Table, JobState
<1>5. \A i \in Jobs : Insert(t, j).rowid[i] = IF i = j THEN Cardinality(Rows(t)) + 1 ELSE t.rowid[i]
  BY DEF Insert, Rows, Table
<1>6. \A i \in Jobs : t.rowid[i] \in Nat
  BY DEF Table
<1>7. Rows(t) \subseteq Jobs
  BY DEF Rows
<1> QED BY <1>1, <1>2, <1>3, <1>4, <1>5, <1>6, <1>7 DEF Numbered

(* The other statements touch the state column only, and remove no row. *)
LEMMA OthersKeepNumbers ==
  ASSUME NEW t \in Table, NEW v \in Table, v.rowid = t.rowid, Rows(v) = Rows(t), Numbered(t)
  PROVE  Numbered(v)
BY DEF Numbered

LEMMA RowsKept ==
  ASSUME NEW t \in Table
  PROVE  /\ \A j \in Rows(t), s \in JobState : /\ Rows(SetState(t, j, s)) = Rows(t)
                                               /\ SetState(t, j, s).rowid = t.rowid
         /\ \A u : Rows(CancelQueued(t, u)) = Rows(t) /\ CancelQueued(t, u).rowid = t.rowid
         /\ Rows(Requeue(t)) = Rows(t) /\ Requeue(t).rowid = t.rowid
BY DEF SetState, CancelQueued, Requeue, QueuedOf, Queued, Rows, InState, Table, JobState

LEMMA OrderNext == AllInv /\ RunInv /\ OrderInv /\ [Next]_vars => OrderInv' /\ ServedNext
<1> SUFFICES ASSUME AllInv, RunInv, OrderInv, [Next]_vars PROVE OrderInv' /\ ServedNext
  OBVIOUS
<1>a. /\ db \in Table /\ base \in Table /\ pc \in WorkerPc
      /\ NoJob \notin Jobs /\ claimed \in Jobs \union {NoJob}
  BY NoJobAssumption DEF AllInv, TypeInv, TypeOK
<1>b. pc \in Working => claimed \in Rows(db)
  BY DEF AllInv, TypeInv, HoldsJob, ClaimInv, Working, Trying, Rows, InState
<1>c. ~tx => base = db
  BY DEF AllInv, TxInv
<1>d. tx => \A k \in Jobs : base.state[k] # "running"
  BY DEF RunInv, InState
<1>e. Numbered(db) /\ Numbered(base)
  BY DEF OrderInv
<1>1. CASE WorkerStep
  <2>1. CASE FirstIteration \/ LeaveIdle \/ EndJob
    BY <2>1 DEF FirstIteration, LeaveIdle, EndJob, LoopHead, Begin, tableVars, OrderInv, ServedNext
  <2>2. CASE SelectOldest
    BY <1>a, <2>2 DEF SelectOldest, Oldest, Queued, InState, Rows, tableVars, OrderInv, ServedNext
  <2>3. CASE StartJob \/ GoIdle \/ PipelineSucceeds \/ Deliver \/ EndMarked
    BY <2>3 DEF StartJob, GoIdle, PipelineSucceeds, Deliver, EndMarked, tableVars, OrderInv,
                ServedNext
  <2>4. CASE FlipToRunning
    <3>1. /\ claimed \in Rows(db) /\ claimed \in Jobs
          /\ \A k \in Queued(db) : db.rowid[claimed] <= db.rowid[k]
      BY <1>a, <2>4 DEF FlipToRunning, OrderInv
    <3>2. /\ db' = SetState(db, claimed, "running") /\ base' \in {base, db'} /\ pc' = "update"
      BY <2>4 DEF FlipToRunning, Write
    <3>3. Numbered(db')
      BY <1>a, <1>e, <3>1, <3>2, RowsKept DEF Numbered, JobState
    <3>4. \A j \in Jobs : db'.state[j] = IF j = claimed THEN "running" ELSE db.state[j]
      BY <1>a, <3>1, <3>2, RowsOfWrites DEF JobState
    <3> QED BY <1>e, <3>1, <3>2, <3>3, <3>4 DEF OrderInv, ServedNext
  <2>5. CASE FinishDone \/ Fail
    <3>1. PICK s \in {"done", "failed"} :
            /\ db' = SetState(db, claimed, s) /\ base' \in {base, db'} /\ pc' \in {"done", "fail"}
      BY <2>5 DEF FinishDone, Fail, Write
    <3>2. claimed \in Rows(db) /\ claimed \in Jobs
      BY <1>b, <2>5 DEF FinishDone, Fail, Working, Trying, Rows
    <3>3. Numbered(db')
      BY <1>a, <1>e, <3>1, <3>2, RowsKept DEF Numbered, JobState
    <3>4. \A j \in Jobs : db'.state[j] = IF j = claimed THEN s ELSE db.state[j]
      BY <1>a, <3>1, <3>2, RowsOfWrites DEF JobState
    <3> QED BY <1>e, <3>1, <3>3, <3>4 DEF OrderInv, ServedNext
  <2>6. CASE Commit
    BY <1>e, <2>6 DEF Commit, CommitTx, OrderInv, ServedNext
  <2> QED BY <1>1, <2>1, <2>2, <2>3, <2>4, <2>5, <2>6 DEF WorkerStep
<1>2. ASSUME pc' # "select", db' = base, base' = base, tx \/ base = db
      PROVE  OrderInv' /\ ServedNext
  BY <1>d, <1>e, <1>2 DEF OrderInv, ServedNext
<1>3. CASE WorkerFault
  <2>1. CASE ClaimRaises
    BY <1>2, <1>c, <2>1 DEF ClaimRaises, RollbackTx
  <2>2. CASE FailRaises
    BY <2>2 DEF FailRaises, tableVars, OrderInv, ServedNext
  <2> QED BY <1>3, <2>1, <2>2 DEF WorkerFault
<1>4. CASE HandlerStep
  <2>1. ASSUME NEW j \in Jobs, ChoiceInsert(j) \/ AnnouncedInsert(j)
        PROVE  OrderInv' /\ ServedNext
    <3>1. db.state[j] = "absent" /\ base.state[j] = "absent" /\ claimed # j
      BY <2>1 DEF ChoiceInsert, AnnouncedInsert, AllInv, FreshInv, Fresh
    <3>2. db' = Insert(db, j) /\ base' \in {base, db'} /\ UNCHANGED <<pc, claimed>>
      BY <2>1 DEF ChoiceInsert, AnnouncedInsert, Write
    <3>3. /\ Numbered(db')
          /\ \A i \in Rows(db) : db'.rowid[i] = db.rowid[i] /\ db.rowid[i] <= db'.rowid[j]
      BY <1>a, <1>e, <3>1, <3>2, InsertNumbers
    <3>4. \A k \in Jobs : db'.state[k] = IF k = j THEN "queued" ELSE db.state[k]
      BY <1>a, <3>2, RowsOfWrites
    <3>5. \A k \in Queued(db') : k = j \/ (k \in Queued(db) /\ k \in Rows(db))
      BY <3>4 DEF Queued, Rows, InState
    <3>6. Rows(db) \subseteq Rows(db')
      BY <3>4 DEF Rows, InState
    <3>7. pc' = "select" /\ claimed' # NoJob =>
            /\ claimed' \in Rows(db')
            /\ \A k \in Queued(db') : db'.rowid[claimed'] <= db'.rowid[k]
      <4> SUFFICES ASSUME pc = "select", claimed # NoJob, NEW k \in Queued(db')
                   PROVE  claimed \in Rows(db') /\ db'.rowid[claimed] <= db'.rowid[k]
        BY <3>2, <3>6 DEF OrderInv
      <4>1. claimed \in Rows(db) /\ \A i \in Queued(db) : db.rowid[claimed] <= db.rowid[i]
        BY DEF OrderInv
      <4>2. CASE k = j
        BY <3>3, <3>6, <4>1, <4>2
      <4>3. CASE k # j
        BY <3>3, <3>5, <3>6, <4>1, <4>3
      <4> QED BY <4>2, <4>3
    <3>8. Numbered(base')
      BY <1>e, <3>2, <3>3
    <3> QED BY <3>3, <3>4, <3>7, <3>8 DEF OrderInv, ServedNext
  <2>2. ASSUME NEW u \in Users, CancelUpdate(u) PROVE OrderInv' /\ ServedNext
    <3>1. db' = CancelQueued(db, u) /\ base' \in {base, db'} /\ UNCHANGED <<pc, claimed>>
      BY <2>2 DEF CancelUpdate, Write
    <3>2. Rows(db') = Rows(db) /\ db'.rowid = db.rowid
      BY <1>a, <3>1, RowsKept
    <3>3. Numbered(db') /\ Numbered(base')
      BY <1>e, <3>1, <3>2 DEF Numbered
    <3>4. \A k \in Jobs : db'.state[k] = db.state[k] \/ db'.state[k] = "cancelled"
      BY <1>a, <3>1, RowsOfWrites
    <3>5. Queued(db') \subseteq Queued(db)
      BY <3>4 DEF Queued, InState
    <3> QED BY <3>1, <3>2, <3>3, <3>4, <3>5 DEF OrderInv, ServedNext
  <2>3. CASE UNCHANGED <<db, base, pc, claimed>>
    BY <2>3 DEF OrderInv, ServedNext
  <2> QED BY <1>4, <2>1, <2>2, <2>3
          DEF HandlerStep, ChoiceConfirm, ChoiceConfirmRaises, Announce, AnnouncedWake,
              InsertRaises, CancelList, tableVars
<1>5. CASE StopPolling
  BY <1>5 DEF StopPolling, tableVars, OrderInv, ServedNext
<1>6. ASSUME pc \in Working, Write(SetState(db, claimed, "interrupted")), pc' # "select"
      PROVE  OrderInv' /\ ServedNext
  <2>1. db' = SetState(db, claimed, "interrupted") /\ base' \in {base, db'}
    BY <1>6 DEF Write
  <2>2. claimed \in Rows(db) /\ claimed \in Jobs
    BY <1>b, <1>6 DEF Rows
  <2>3. Numbered(db')
    BY <1>a, <1>e, <2>1, <2>2, RowsKept DEF Numbered, JobState
  <2>4. \A j \in Jobs : db'.state[j] = IF j = claimed THEN "interrupted" ELSE db.state[j]
    BY <1>a, <2>1, <2>2, RowsOfWrites DEF JobState
  <2> QED BY <1>e, <1>6, <2>1, <2>3, <2>4 DEF OrderInv, ServedNext
<1>7. CASE ShutdownStep
  <2>1. CASE StopWorker
    BY <2>1 DEF StopWorker, tableVars, OrderInv, ServedNext
  <2>2. CASE GraceExpires
    BY <1>6, <2>2 DEF GraceExpires, Current, Working, Trying
  <2>3. CASE CancelTask \/ StopRaises
    <3>1. CASE pc \in Trying
      BY <1>6, <2>3, <3>1 DEF CancelTask, StopRaises, ThrowCancelled, Working, Trying
    <3>2. CASE pc \notin Trying
      BY <2>3, <3>2
         DEF CancelTask, StopRaises, ThrowCancelled, tableVars, OrderInv, ServedNext
    <3> QED BY <3>1, <3>2
  <2>4. CASE Close
    BY <1>2, <1>c, <2>4 DEF Close, ProcessEnds, RollbackTx
  <2> QED BY <1>7, <2>1, <2>2, <2>3, <2>4 DEF ShutdownStep
<1>8. CASE Crash
  BY <1>2, <1>c, <1>8 DEF Crash, ProcessEnds, RollbackTx
<1>9. CASE Start
  <2>1. db' = Requeue(db) /\ base' \in {base, db'} /\ pc' = "start"
    BY <1>9 DEF Start, Write
  <2>2. Numbered(db') /\ Numbered(base')
    BY <1>a, <1>e, <2>1, RowsKept DEF Numbered
  <2>3. \A k \in Jobs : db'.state[k] # "running"
    BY <1>a, <2>1, RowsOfWrites
  <2> QED BY <2>1, <2>2, <2>3 DEF OrderInv, ServedNext
<1>10. CASE UNCHANGED vars
  BY <1>10 DEF vars, OrderInv, ServedNext
<1> QED BY <1>1, <1>3, <1>4, <1>5, <1>7, <1>8, <1>9, <1>10 DEF Next

(* When a job becomes the running one, no job enqueued before it is queued. *)
THEOREM FirstComeFirstServed == Spec => ServedInOrder
<1>1. Init => OrderInv
  BY DEF Init, OrderInv, Numbered, Rows, InState, EmptyTable
<1>2. AllInv /\ RunInv /\ OrderInv /\ [Next]_vars => [ServedNext]_vars
  BY OrderNext
<1> QED BY <1>1, <1>2, AllCorrect, RunCorrect, OrderNext, PTL DEF Spec, ServedInOrder
=============================================================================
