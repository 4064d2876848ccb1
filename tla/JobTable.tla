------------------------------ MODULE JobTable ------------------------------
(***************************************************************************)
(* The `jobs' table of the bot's SQLite database, and the statements that  *)
(* src/chaptercut/queue/repository.py runs against it, as operators from a *)
(* table to a table.                                                       *)
(*                                                                         *)
(* A table keeps for each possible job the state column and the order of   *)
(* its INSERT; a job that has no row is "absent".  `created_at' is taken   *)
(* from the clock in the same step that submits the INSERT, so ordering by *)
(* (created_at, rowid) is ordering by rowid as long as the clock is not    *)
(* set back.  The phase, error and timestamp columns, and the columns that *)
(* describe the medium, are only displayed and are left out.               *)
(***************************************************************************)
EXTENDS Naturals, FiniteSets

CONSTANTS
  Jobs,    \* the jobs that may ever be enqueued (job_id)
  Users,   \* the Telegram users
  Owner    \* Owner[j]: the user_id column of job j

ASSUME JobsAssumption == IsFiniteSet(Jobs)

ASSUME OwnerAssumption == Owner \in [Jobs -> Users]

JobState == {"queued", "running", "done", "failed", "cancelled", "interrupted"}

Table == [state: [Jobs -> JobState \union {"absent"}], rowid: [Jobs -> Nat]]

EmptyTable == [state |-> [j \in Jobs |-> "absent"],
               rowid |-> [j \in Jobs |-> 0]]

InState(t, s) == {j \in Jobs : t.state[j] = s}

Queued(t) == InState(t, "queued")

QueuedOf(t, u) == {j \in Queued(t) : Owner[j] = u}

(***************************************************************************)
(* enqueue: the row is born queued and last.  Rows are never deleted, so   *)
(* the next rowid is one more than their number.                           *)
(***************************************************************************)
Insert(t, j) ==
  [state |-> [t.state EXCEPT ![j] = "queued"],
   rowid |-> [t.rowid EXCEPT ![j] = Cardinality(Jobs \ InState(t, "absent")) + 1]]

(* Mutant of Oldest: the ORDER BY is dropped. *)
OldestUnordered(t) == Queued(t)

(* The row claim_next's SELECT ... ORDER BY created_at, rowid LIMIT 1 may return. *)
Oldest(t) == {j \in Queued(t) : \A k \in Queued(t) : t.rowid[j] <= t.rowid[k]}

(* UPDATE jobs SET state = s WHERE job_id = j: the present state is not asked. *)
SetState(t, j, s) == [t EXCEPT !.state[j] = s]

(* Mutant of CancelQueued: the statement does not ask for the state. *)
CancelAll(t, u) ==
  [t EXCEPT !.state =
     [j \in Jobs |-> IF Owner[j] = u /\ t.state[j] # "absent"
                     THEN "cancelled" ELSE t.state[j]]]

(* UPDATE jobs SET state = 'cancelled' WHERE user_id = u AND state = 'queued' *)
CancelQueued(t, u) ==
  [t EXCEPT !.state =
     [j \in Jobs |-> IF j \in QueuedOf(t, u) THEN "cancelled" ELSE t.state[j]]]

(* Mutants of Requeue: one of the two states is forgotten. *)
RequeueOnlyInterrupted(t) ==
  [t EXCEPT !.state =
     [j \in Jobs |-> IF t.state[j] = "interrupted" THEN "queued" ELSE t.state[j]]]
RequeueOnlyRunning(t) ==
  [t EXCEPT !.state =
     [j \in Jobs |-> IF t.state[j] = "running" THEN "queued" ELSE t.state[j]]]

(* UPDATE jobs SET state = 'queued' WHERE state IN ('running', 'interrupted') *)
Requeue(t) ==
  [t EXCEPT !.state =
     [j \in Jobs |-> IF t.state[j] \in {"running", "interrupted"}
                     THEN "queued" ELSE t.state[j]]]
=============================================================================
