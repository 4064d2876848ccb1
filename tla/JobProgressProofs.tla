-------------------------- MODULE JobProgressProofs --------------------------
(***************************************************************************)
(* Proofs about JobProgress, for any chapters, any intervals, any size of  *)
(* the pipes and any number of progress lines.                             *)
(***************************************************************************)
EXTENDS JobProgress, SequenceTheorems, DataInduction

(* The job has at most one update of its own in the queue, and only while it *)
(* waits for it.                                                             *)
QueueInv ==
  /\ \E S : queue \in Seq(S)
  /\ \A i, j \in 1..Len(queue) : queue[i].mine /\ queue[j].mine => i = j
  /\ \A i \in 1..Len(queue) : queue[i].mine => main \in {"updating", "failing"}
  /\ inflight => queue # <<>>

LEMMA Appended ==
  ASSUME NEW S, NEW q \in Seq(S), NEW u
  PROVE  /\ \E R : Append(q, u) \in Seq(R)
         /\ Len(Append(q, u)) = Len(q) + 1 /\ Append(q, u)[Len(q) + 1] = u
         /\ \A i \in 1..Len(q) : Append(q, u)[i] = q[i]
         /\ Append(q, u) # <<>>
<1>1. q \in Seq(S \union {u}) /\ u \in S \union {u}
  OBVIOUS
<1> QED BY <1>1

LEMMA Removed ==
  ASSUME NEW S, NEW q \in Seq(S), NEW k \in 1..Len(q)
  PROVE  /\ RemoveAt(q, k) \in Seq(S) /\ Len(RemoveAt(q, k)) = Len(q) - 1
         /\ \A i \in 1..(Len(q) - 1) : RemoveAt(q, k)[i] = q[IF i < k THEN i ELSE i + 1]
<1> DEFINE a == SubSeq(q, 1, k - 1)
           b == SubSeq(q, k + 1, Len(q))
<1>1. /\ a \in Seq(S) /\ Len(a) = k - 1
      /\ \A i \in 1..(k - 1) : a[i] = q[i]
  OBVIOUS
<1>2. /\ b \in Seq(S) /\ Len(b) = Len(q) - k
      /\ \A i \in 1..(Len(q) - k) : b[i] = q[k + i]
  OBVIOUS
<1>3. /\ a \o b \in Seq(S) /\ Len(a \o b) = Len(q) - 1
      /\ \A i \in 1..(Len(q) - 1) : (a \o b)[i] = IF i < k THEN a[i] ELSE b[i - k + 1]
  <2> HIDE DEF a, b
  <2>1. Len(q) \in Nat /\ k \in 1..Len(q)
    OBVIOUS
  <2>2. a \o b \in Seq(S) /\ Len(a \o b) = Len(a) + Len(b)
    BY <1>1, <1>2, ConcatProperties
  <2>3. \A i \in 1..(Len(a) + Len(b)) : (a \o b)[i] = IF i <= Len(a) THEN a[i] ELSE b[i - Len(a)]
    BY <1>1, <1>2, ConcatProperties, Zenon
  <2>4. ASSUME NEW i \in 1..(Len(q) - 1)
        PROVE  (a \o b)[i] = IF i < k THEN a[i] ELSE b[i - k + 1]
    <3>1. i \in 1..(Len(a) + Len(b)) /\ (i <= Len(a) <=> i < k) /\ i - Len(a) = i - k + 1
      BY <1>1, <1>2, <2>1
    <3> QED BY <2>3, <3>1
  <2>5. Len(a) + Len(b) = Len(q) - 1
    BY <1>1, <1>2, <2>1
  <2> QED BY <2>2, <2>4, <2>5
<1>4. ASSUME NEW i \in 1..(Len(q) - 1) PROVE (a \o b)[i] = q[IF i < k THEN i ELSE i + 1]
  <2> HIDE DEF a, b
  <2>1. Len(q) \in Nat
    OBVIOUS
  <2>2. CASE i < k
    <3>1. i \in 1..(k - 1)
      BY <2>1, <2>2
    <3> QED BY <2>2, <3>1, <1>1, <1>3
  <2>3. CASE ~(i < k)
    <3>1. i - k + 1 \in 1..(Len(q) - k) /\ k + (i - k + 1) = i + 1
      BY <2>1, <2>3
    <3> QED BY <2>3, <3>1, <1>2, <1>3
  <2> QED BY <2>2, <2>3
<1> QED BY <1>3, <1>4 DEF RemoveAt

LEMMA Served ==
  ASSUME NEW S, NEW q \in Seq(S), q # <<>>
  PROVE  /\ Tail(q) \in Seq(S) /\ Len(Tail(q)) = Len(q) - 1 /\ Len(q) > 0 /\ Head(q) = q[1]
         /\ \A i \in 1..(Len(q) - 1) : Tail(q)[i] = q[i + 1]
OBVIOUS

LEMMA QueueInit == Init => QueueInv
<1> SUFFICES ASSUME Init PROVE QueueInv
  OBVIOUS
<1>1. queue = <<>> /\ inflight = FALSE
  BY DEF Init
<1>2. queue \in Seq({}) /\ Len(queue) = 0
  BY <1>1
<1> QED BY <1>1, <1>2 DEF QueueInv

LEMMA EnterInv ==
  ASSUME QueueInv, NEW u, Enter(u), inflight' = inflight,
         \/ ~u.mine /\ main' = main
         \/ main \notin {"updating", "failing"} /\ main' \in {"updating", "failing"}
  PROVE  QueueInv'
<1>1. PICK S : queue \in Seq(S)
  BY DEF QueueInv
<1>2. /\ \E R : queue' \in Seq(R)
      /\ Len(queue') = Len(queue) + 1 /\ queue'[Len(queue) + 1] = u
      /\ \A i \in 1..Len(queue) : queue'[i] = queue[i]
      /\ queue' # <<>>
  <2>1. queue' = Append(queue, u)
    BY DEF Enter
  <2>2. /\ \E R : Append(queue, u) \in Seq(R)
        /\ Len(Append(queue, u)) = Len(queue) + 1 /\ Append(queue, u)[Len(queue) + 1] = u
        /\ \A i \in 1..Len(queue) : Append(queue, u)[i] = queue[i]
        /\ Append(queue, u) # <<>>
    BY <1>1, Appended, Zenon
  <2> QED BY <2>1, <2>2, Zenon
<1>3. Len(queue) \in Nat
  BY <1>1
<1>4. \A i \in 1..Len(queue') : i \in 1..Len(queue) \/ i = Len(queue) + 1
  BY <1>2, <1>3
<1> QED BY <1>2, <1>4 DEF QueueInv

LEMMA LeaveInv ==
  ASSUME QueueInv, Leave, queue # <<>>, ~inflight'
  PROVE  QueueInv'
<1>1. PICK S : queue \in Seq(S)
  BY DEF QueueInv
<1>2. /\ queue' \in Seq(S) /\ Len(queue') = Len(queue) - 1 /\ Len(queue) > 0 /\ Head(queue) = queue[1]
      /\ \A i \in 1..(Len(queue) - 1) : queue'[i] = queue[i + 1]
  BY <1>1, Served DEF Leave
<1>3. Len(queue) \in Nat
  BY <1>1
<1>4. \A i \in 1..Len(queue') : i + 1 \in 1..Len(queue) /\ i + 1 # 1 /\ queue'[i] = queue[i + 1]
  BY <1>2, <1>3
<1>5. 1 \in 1..Len(queue)
  BY <1>2, <1>3
<1>6. \A i, j \in 1..Len(queue') : queue'[i].mine /\ queue'[j].mine => i = j
  <2>1. \A i, j \in 1..Len(queue') : i + 1 = j + 1 => i = j
    BY <1>2, <1>3
  <2> QED BY <2>1, <1>4 DEF QueueInv
<1>7. CASE Head(queue).mine
  BY <1>7, <1>2, <1>4, <1>5, <1>6 DEF QueueInv
<1>8. CASE ~Head(queue).mine
  <2>1. main' = main
    BY <1>8 DEF Leave
  <2> QED BY <2>1, <1>2, <1>4, <1>6 DEF QueueInv
<1> QED BY <1>7, <1>8

LEMMA LeaveLockInv ==
  ASSUME QueueInv, LeaveLock
  PROVE  QueueInv'
<1>1. PICK S : queue \in Seq(S)
  BY DEF QueueInv
<1>2. PICK k \in 1..Len(queue) : queue[k].mine /\ queue' = RemoveAt(queue, k)
  BY <1>1 DEF LeaveLock
<1>3. /\ queue' \in Seq(S) /\ Len(queue') = Len(queue) - 1 /\ Len(queue) \in Nat
      /\ \A i \in 1..Len(queue') : queue'[i] = queue[IF i < k THEN i ELSE i + 1]
  <2>1. /\ RemoveAt(queue, k) \in Seq(S) /\ Len(RemoveAt(queue, k)) = Len(queue) - 1
        /\ \A i \in 1..(Len(queue) - 1) : RemoveAt(queue, k)[i] = queue[IF i < k THEN i ELSE i + 1]
    BY <1>1, Removed, Zenon
  <2> QED BY <1>1, <1>2, <2>1
<1>4. \A i \in 1..Len(queue') : ~queue'[i].mine
  <2> SUFFICES ASSUME NEW i \in 1..Len(queue'), queue'[i].mine PROVE FALSE
    OBVIOUS
  <2>1. \E j \in 1..Len(queue) : j # k /\ queue'[i] = queue[j]
    BY <1>3
  <2> QED BY <2>1, <1>2 DEF QueueInv
<1>5. inflight' => queue' # <<>>
  <2> SUFFICES ASSUME inflight', queue' = <<>> PROVE FALSE
    OBVIOUS
  <2>1. inflight /\ ~Head(queue).mine
    BY DEF LeaveLock
  <2>2. Len(queue) = 1 /\ k = 1
    <3>1. Len(queue') = 0
      OBVIOUS
    <3>2. Len(queue) \in Nat /\ Len(queue) - 1 = 0
      BY <1>3, <3>1
    <3>3. k \in 1..Len(queue)
      BY <1>2
    <3>4. Len(queue) = 1
      BY <3>2
    <3>5. k \in 1..1
      BY <3>3, <3>4
    <3> QED BY <3>4, <3>5
  <2>3. Head(queue) = queue[1]
    BY <1>1, <2>2
  <2> QED BY <2>1, <2>2, <2>3, <1>2
<1> QED BY <1>3, <1>4, <1>5 DEF QueueInv

LEMMA QueueNext == QueueInv /\ [Next]_vars => QueueInv'
<1> SUFFICES ASSUME QueueInv, [Next]_vars PROVE QueueInv'
  OBVIOUS
<1>1. CASE /\ UNCHANGED queue /\ inflight' = inflight
           /\ main' = main \/ main \notin {"updating", "failing"}
  BY <1>1 DEF QueueInv
<1>2. CASE Hold
  <2>1. queue # <<>> /\ ~inflight
    BY <1>2 DEF Hold
  <2>2. \/ inflight' /\ UNCHANGED <<queue, job>>
        \/ Leave /\ UNCHANGED inflight
    BY <1>2 DEF Hold
  <2>3. CASE inflight' /\ UNCHANGED <<queue, job>>
    BY <2>1, <2>3 DEF QueueInv, job
  <2>4. CASE Leave /\ UNCHANGED inflight
    BY <2>1, <2>4, LeaveInv
  <2> QED BY <2>2, <2>3, <2>4
<1>3. CASE Edited \/ Flooded \/ Refused
  <2>1. inflight /\ inflight' = FALSE /\ Leave
    BY <1>3 DEF Edited, Flooded, Refused, Answered
  <2> QED BY <2>1, LeaveInv DEF QueueInv
<1>4. ASSUME NEW r \in Readers, Read(r) PROVE QueueInv'
  <2>1. inflight' = inflight /\ main' = main
    BY <1>4 DEF Read, job, status
  <2>2. UNCHANGED queue \/ Enter(Report("download", reports'))
    BY <1>4 DEF Read
  <2>3. ~Report("download", reports').mine
    BY DEF Report, Update
  <2> QED BY <2>1, <2>2, <2>3, <1>1, EnterInv
<1>5. CASE UploadProgress
  <2>1. inflight' = inflight /\ main' = main /\ Enter(Report("upload", reports'))
    BY <1>5 DEF UploadProgress, job, status
  <2>2. ~Report("upload", reports').mine
    BY DEF Report, Update
  <2> QED BY <2>1, <2>2, EnterInv
<1>6. CASE StartUpdate
  BY <1>6, EnterInv DEF StartUpdate, status
<1>7. CASE FinishStatus
  BY <1>7, EnterInv DEF FinishStatus, status
<1>8. CASE Cancel
  <2>1. CASE LeaveLock
    BY <2>1, LeaveLockInv
  <2> QED BY <1>8, <2>1, <1>1 DEF Cancel, StopProgram, status
<1>9. CASE Tick \/ DeleteStatus \/ Timeout \/ UNCHANGED vars
  BY <1>9, <1>1 DEF Tick, DeleteStatus, Timeout, StopProgram, vars, status, job
<1>10. CASE StartProgram \/ ProgramSucceeds \/ ProgramFails \/ Waited
  BY <1>10, <1>1 DEF StartProgram, ProgramSucceeds, ProgramFails, Waited, status
<1>11. CASE StartSending \/ Sent \/ Raise
  BY <1>11, <1>1 DEF StartSending, Sent, Raise, status
<1>12. CASE HelperStarts \/ HelperEnds \/ LeaderDies \/ Reap
  BY <1>12, <1>1 DEF HelperStarts, HelperEnds, LeaderDies, Reap, status, job
<1>13. ASSUME NEW ok \in BOOLEAN, LeaderExits(ok) PROVE QueueInv'
  BY <1>13, <1>1 DEF LeaderExits, status, job
<1>14. ASSUME NEW r \in Readers, Write(r) \/ EndOfFile(r) \/ LineTooLong(r) PROVE QueueInv'
  BY <1>14, <1>1 DEF Write, EndOfFile, LineTooLong, status, job
<1> QED
  BY <1>2, <1>3, <1>4, <1>5, <1>6, <1>7, <1>8, <1>9, <1>10, <1>11, <1>12, <1>13, <1>14
     DEF Next, ProgramStep, MainStep

LEMMA QueueHolds == Spec => []QueueInv
BY QueueInit, QueueNext, PTL DEF Spec

-----------------------------------------------------------------------------
(* Programs. *)
ProgramSet == [leader : {"none", "running", "exited"}, ok : BOOLEAN, reaped : BOOLEAN,
               helper : BOOLEAN, lines : Nat]

(* A descendant outlives the child only where the child was killed from outside, *)
(* the return code is set only once the child has exited, and outside of the     *)
(* call nothing of the program is left.                                          *)
ProgramInv ==
  /\ program \in ProgramSet /\ strayed \in BOOLEAN
  /\ reader \in [Readers -> {"none", "reading", "done", "broken"}]
  /\ program.leader # "running" /\ program.helper => strayed
  /\ program.reaped => program.leader # "running"
  /\ ProgramEndsWithCall

LEMMA NoProgramAlive == NoProgram \in ProgramSet /\ ~NoProgram.helper /\ NoProgram.leader = "none"
BY DEF NoProgram, ProgramSet

LEMMA KillTreeInv ==
  ASSUME ProgramInv, KillTree
  PROVE  /\ program' \in ProgramSet /\ program'.leader # "running"
         /\ program'.leader # "running" /\ program'.helper => strayed
         /\ program'.reaped => program'.leader # "running"
BY DEF ProgramInv, KillTree, ProgramSet

LEMMA ProgramInit == Init => ProgramInv
BY NoProgramAlive DEF Init, ProgramInv, ProgramEndsWithCall, Alive, NoReaders, Readers

LEMMA ProgramNext == ProgramInv /\ QueueInv /\ [Next]_vars => ProgramInv'
<1> SUFFICES ASSUME ProgramInv, QueueInv, [Next]_vars PROVE ProgramInv'
  OBVIOUS
<1>1. CASE UNCHANGED child /\ (main' = main \/ main # "child")
  BY <1>1 DEF child, ProgramInv, ProgramEndsWithCall, Alive, Broken
<1>2. CASE StartProgram
  <2>1. /\ program' = [NoProgram EXCEPT !.leader = "running"] /\ main' = "child"
        /\ reader' = [r \in Readers |-> "reading"] /\ strayed' = strayed
    BY <1>2 DEF StartProgram
  <2> QED BY <2>1 DEF ProgramInv, ProgramEndsWithCall, ProgramSet, NoProgram
<1>3. ASSUME NEW r \in Readers, Write(r) PROVE ProgramInv'
  BY <1>3 DEF Write, ProgramInv, ProgramEndsWithCall, Alive, Broken, ProgramSet, job
<1>4. CASE HelperStarts
  BY <1>4 DEF HelperStarts, ProgramInv, ProgramEndsWithCall, Alive, Broken, ProgramSet, job
<1>5. CASE HelperEnds
  BY <1>5 DEF HelperEnds, ProgramInv, ProgramEndsWithCall, Alive, Broken, ProgramSet, job
<1>6. ASSUME NEW ok \in BOOLEAN, LeaderExits(ok) PROVE ProgramInv'
  BY <1>6 DEF LeaderExits, ProgramInv, ProgramEndsWithCall, Alive, Broken, ProgramSet, job
<1>7. CASE LeaderDies
  BY <1>7 DEF LeaderDies, ProgramInv, ProgramEndsWithCall, Alive, Broken, ProgramSet, job
<1>8. CASE Reap
  BY <1>8 DEF Reap, ProgramInv, ProgramEndsWithCall, Alive, Broken, ProgramSet, job
<1>9. ASSUME NEW r \in Readers, Read(r) \/ EndOfFile(r) \/ LineTooLong(r) PROVE ProgramInv'
  <2>1. /\ program' = program /\ strayed' = strayed /\ main' = main
        /\ \/ reader' = reader
           \/ reader[r] = "reading" /\ reader' \in {[reader EXCEPT ![r] = "done"],
                                                    [reader EXCEPT ![r] = "broken"]}
    BY <1>9 DEF Read, EndOfFile, LineTooLong, job
  <2>2. Broken => Broken'
    BY <2>1 DEF Broken, ProgramInv
  <2> QED BY <2>1, <2>2 DEF ProgramInv, ProgramEndsWithCall, Alive
<1>10. CASE ProgramSucceeds
  BY <1>10, NoProgramAlive DEF ProgramSucceeds, NoReaders, ProgramInv, ProgramEndsWithCall, Alive
<1>11. CASE ProgramFails
  <2>1. Complete => ~Alive \/ strayed
    BY DEF Complete, ProgramInv, Alive
  <2> QED BY <1>11, <2>1 DEF ProgramFails, ProgramInv, ProgramEndsWithCall, Alive, Broken, child
<1>12. ASSUME NEW why, StopProgram(why) PROVE ProgramInv'
  <2>1. /\ main' = "killing" /\ strayed' = strayed /\ KillTree
        /\ reader' = [r \in Readers |-> IF reader[r] = "reading" THEN "none" ELSE reader[r]]
    BY <1>12 DEF StopProgram
  <2> QED BY <2>1, KillTreeInv DEF ProgramInv, ProgramEndsWithCall, Alive
<1>13. CASE Waited
  BY <1>13 DEF Waited, ProgramInv, ProgramEndsWithCall, Alive, Broken, child
<1>14. CASE Cancel
  <2>1. \/ StopProgram("cancel")
        \/ UNCHANGED child /\ main # "child"
    BY <1>14 DEF Cancel
  <2> QED BY <2>1, <1>1, <1>12
<1>15. CASE \/ Hold \/ Edited \/ Flooded \/ Refused \/ Tick \/ UploadProgress
            \/ StartUpdate \/ StartSending \/ Sent \/ DeleteStatus \/ Raise \/ FinishStatus
             \/ UNCHANGED vars
  <2>1. CASE Hold \/ Edited \/ Flooded \/ Refused
    <3>1. UNCHANGED child /\ (main' = main \/ Leave)
      BY <2>1 DEF Hold, Edited, Flooded, Refused, Answered, job
    <3>2. CASE Leave
      <4>1. queue # <<>>
        BY <2>1 DEF Hold, Edited, Flooded, Refused, Answered, QueueInv
      <4>2. Head(queue).mine => main # "child"
        <5>1. PICK S : queue \in Seq(S)
          BY DEF QueueInv
        <5>2. Len(queue) \in Nat /\ Len(queue) > 0 /\ Head(queue) = queue[1]
          BY <4>1, <5>1, Served
        <5> QED BY <5>2 DEF QueueInv
      <4> QED BY <3>1, <3>2, <4>2, <1>1 DEF Leave
    <3> QED BY <3>1, <3>2, <1>1
  <2>2. CASE Tick \/ UploadProgress \/ UNCHANGED vars
    BY <2>2, <1>1 DEF Tick, UploadProgress, vars, job
  <2>3. CASE StartUpdate \/ StartSending \/ Sent \/ DeleteStatus \/ Raise \/ FinishStatus
    BY <2>3, <1>1 DEF StartUpdate, StartSending, Sent, DeleteStatus, Raise, FinishStatus
  <2> QED BY <1>15, <2>1, <2>2, <2>3
<1> QED
  BY <1>2, <1>3, <1>4, <1>5, <1>6, <1>7, <1>8, <1>9, <1>10, <1>11, <1>12, <1>13, <1>14, <1>15
     DEF Next, ProgramStep, MainStep, Timeout

(* No program outlives the call that runs it, through failures, timeouts and      *)
(* cancellations, but for a reader that raised and a child killed from outside.   *)
THEOREM ProgramsEndWithTheirCall == Spec => []ProgramEndsWithCall
BY ProgramInit, ProgramNext, QueueHolds, PTL DEF Spec, ProgramInv

-----------------------------------------------------------------------------
(* Edits. *)

(* What is left to wait covers what is missing of the interval since the last *)
(* answer, and the flood wait.                                                *)
SpacingInv ==
  /\ wait \in Nat /\ flood \in Nat /\ quiet \in Nat
  /\ quiet <= MinInterval /\ MinInterval <= wait + quiet
  /\ flood <= wait

LEMMA MaxOfTwo ==
  ASSUME NEW a \in Int, NEW b \in Int
  PROVE  Max({a, b}) = IF a >= b THEN a ELSE b
BY DEF Max

LEMMA MinOfTwo ==
  ASSUME NEW a \in Int, NEW b \in Int
  PROVE  Min({a, b}) = IF a <= b THEN a ELSE b
BY DEF Min

LEMMA SpacingInit == Init => SpacingInv
BY ProgressAssumption DEF Init, SpacingInv

LEMMA SpacingNext == SpacingInv /\ [Next]_vars => SpacingInv'
<1> SUFFICES ASSUME SpacingInv, [Next]_vars PROVE SpacingInv'
  OBVIOUS
<1>1. CASE UNCHANGED <<wait, flood, quiet>>
  BY <1>1 DEF SpacingInv
<1>2. CASE Edited
  BY <1>2, ProgressAssumption DEF Edited, Answered, SpacingInv
<1>3. CASE Flooded
  BY <1>3, ProgressAssumption DEF Flooded, Answered, SpacingInv
<1>4. CASE Refused
  BY <1>4, ProgressAssumption DEF Refused, Answered, SpacingInv
<1>5. CASE Tick
  <2>1. /\ wait' = IF wait - 1 >= 0 THEN wait - 1 ELSE 0
        /\ flood' = IF flood - 1 >= 0 THEN flood - 1 ELSE 0
    BY <1>5, MaxOfTwo DEF Tick, SpacingInv
  <2>2. quiet' = IF quiet + 1 <= MinInterval THEN quiet + 1 ELSE MinInterval
    BY <1>5, MinOfTwo, ProgressAssumption DEF Tick, SpacingInv
  <2> QED BY <2>1, <2>2, ProgressAssumption DEF SpacingInv
<1>6. CASE Hold \/ UploadProgress \/ Timeout \/ Cancel \/ UNCHANGED vars
  BY <1>6, <1>1 DEF Hold, UploadProgress, Timeout, Cancel, StopProgram, vars, status
<1>7. CASE ProgramStep
  BY <1>7, <1>1 DEF ProgramStep, HelperStarts, HelperEnds, LeaderDies, Reap, LeaderExits, Write,
                    Read, EndOfFile, LineTooLong, status
<1>8. CASE MainStep
  BY <1>8, <1>1 DEF MainStep, StartProgram, ProgramSucceeds, ProgramFails, Waited, StartUpdate,
                    StartSending, Sent, DeleteStatus, Raise, FinishStatus, status
<1> QED BY <1>2, <1>3, <1>4, <1>5, <1>6, <1>7, <1>8 DEF Next

(* While the phase stays the same, an edit is sent only when the whole interval *)
(* has passed since the last answer, and the flood wait, if it asked for one.   *)
THEOREM EditsKeepTheirDistance == Spec => EditsAreSpaced
<1>1. SpacingInv /\ [Next]_vars => [~inflight /\ inflight' => EditInItsTime]_vars
  <2> SUFFICES ASSUME SpacingInv, Next, ~inflight, inflight' PROVE EditInItsTime
    BY DEF vars
  <2>1. CASE Hold
    <3>1. ShouldEdit(Head(queue))
      BY <2>1 DEF Hold
    <3>2. wait = 0 => quiet = MinInterval /\ flood = 0
      BY ProgressAssumption DEF SpacingInv
    <3> QED BY <3>1, <3>2 DEF ShouldEdit, EditInItsTime
  <2>2. CASE Edited \/ Flooded \/ Refused \/ Tick \/ UploadProgress \/ Timeout \/ Cancel
    BY <2>2 DEF Edited, Flooded, Refused, Answered, Tick, UploadProgress, Timeout, Cancel,
                StopProgram, LeaveLock, status
  <2>3. CASE ProgramStep
    BY <2>3 DEF ProgramStep, HelperStarts, HelperEnds, LeaderDies, Reap, LeaderExits, Write,
                Read, EndOfFile, LineTooLong, status
  <2>4. CASE MainStep
    BY <2>4 DEF MainStep, StartProgram, ProgramSucceeds, ProgramFails, Waited, StartUpdate,
                StartSending, Sent, DeleteStatus, Raise, FinishStatus, status
  <2> QED BY <2>1, <2>2, <2>3, <2>4 DEF Next
<1> QED BY <1>1, SpacingInit, SpacingNext, PTL DEF Spec, EditsAreSpaced

-----------------------------------------------------------------------------
(***************************************************************************)
(* The list of tracks, for any chapters and any duration.                  *)
(***************************************************************************)
ChapterSet == [start : Nat, end : Nat]

LEMMA ChapterAt ==
  ASSUME NEW s \in Seq(ChapterSet)
  PROVE  /\ Len(s) \in Nat /\ DOMAIN s = 1..Len(s)
         /\ \A p \in 1..Len(s) : /\ s[p].start \in Nat /\ s[p].end \in Nat
                                /\ s[p] = [start |-> s[p].start, end |-> s[p].end]
<1>1. Len(s) \in Nat /\ DOMAIN s = 1..Len(s) /\ \A p \in 1..Len(s) : s[p] \in ChapterSet
  OBVIOUS
<1>2. \A c \in ChapterSet : /\ c.start \in Nat /\ c.end \in Nat
                           /\ c = [start |-> c.start, end |-> c.end]
  BY DEF ChapterSet
<1> QED BY <1>1, <1>2

LEMMA PositionsFinite ==
  ASSUME NEW N \in Nat, NEW K \in SUBSET (1..N)
  PROVE  IsFiniteSet(K) /\ K \subseteq Int /\ Cardinality(1..N) = N
<1>1. IsFiniteSet(1..N) /\ Cardinality(1..N) = N
  <2>1. 1 \in Int /\ N \in Int
    OBVIOUS
  <2>2. Cardinality(1..N) = IF 1 > N THEN 0 ELSE N - 1 + 1
    BY <2>1, FS_Interval
  <2> QED BY <2>1, <2>2, FS_Interval
<1>2. IsFiniteSet(K)
  BY <1>1, FS_Subset
<1> QED BY <1>1, <1>2

LEMMA InOrderIs ==
  ASSUME NEW chapters \in Seq(ChapterSet)
  PROVE  LET N == Len(chapters)
         IN  /\ InOrder(chapters) \in [1..N -> 1..N]
             /\ \A i, j \in 1..N : i < j =>
                  chapters[InOrder(chapters)[i]].start <= chapters[InOrder(chapters)[j]].start
             /\ \A p \in 1..N : \E i \in 1..N : InOrder(chapters)[i] = p
<1> DEFINE N == Len(chapters)
           D == 1..N
           R == {pair \in D \X D : StartsBefore(chapters, pair[1], pair[2])}
           s == InOrder(chapters)
<1>1. /\ N \in Nat /\ DOMAIN chapters = D /\ IsFiniteSet(D) /\ Cardinality(D) = N
      /\ \A p \in D : p \in Int /\ chapters[p].start \in Int
  <2>1. N \in Nat /\ DOMAIN chapters = D /\ \A p \in D : chapters[p].start \in Nat
    BY ChapterAt
  <2>2. IsFiniteSet(D) /\ D \subseteq Int /\ Cardinality(D) = N
    BY <2>1, PositionsFinite
  <2> QED BY <2>1, <2>2
<1>2. s = Listing(D, R)
  BY <1>1 DEF InOrder
<1>3. Orders(R, D)
  <2> HIDE DEF D
  <2>1. \A p, q \in D : <<p, q>> \in R <=> StartsBefore(chapters, p, q)
    OBVIOUS
  <2> HIDE DEF R
  <2> DEFINE first[p \in D] == chapters[p].start
  <2>2. \A p \in D : p \in Int /\ first[p] \in Int
    BY <1>1
  <2>3. \A p, q \in D : <<p, q>> \in R <=> first[p] < first[q] \/ (first[p] = first[q] /\ p < q)
    BY <2>1 DEF StartsBefore
  <2> HIDE DEF first
  <2>4. \A p \in D : <<p, p>> \notin R
    BY <2>2, <2>3
  <2>5. \A p, q \in D : p # q => <<p, q>> \in R \/ <<q, p>> \in R
    BY <2>2, <2>3
  <2>6. \A p, q, r \in D : <<p, q>> \in R /\ <<q, r>> \in R => <<p, r>> \in R
    BY <2>2, <2>3
  <2> QED BY <2>4, <2>5, <2>6 DEF Orders
<1> HIDE DEF s, D
<1>4. /\ s \in [1..N -> D]
      /\ \A i, j \in 1..N : i < j => <<s[i], s[j]>> \in R
      /\ \A p \in D : \E i \in 1..N : s[i] = p
  <2> HIDE DEF R
  <2>0. IsFiniteSet(D) /\ Orders(R, D)
    BY <1>1, <1>3
  <2>1. /\ Listing(D, R) \in [1..Cardinality(D) -> D]
        /\ \A i, j \in 1..Cardinality(D) : i < j => <<Listing(D, R)[i], Listing(D, R)[j]>> \in R
        /\ \A p \in D : \E i \in 1..Cardinality(D) : Listing(D, R)[i] = p
    BY <2>0, Listed
  <2> HIDE DEF N
  <2> QED BY <1>1, <1>2, <2>1
<1>5. \A i, j \in 1..N : i < j => chapters[s[i]].start <= chapters[s[j]].start
  <2>1. \A p, q \in D : <<p, q>> \in R => chapters[p].start <= chapters[q].start
    BY <1>1 DEF StartsBefore
  <2> HIDE DEF R, N
  <2> QED BY <1>4, <2>1
<1> QED BY <1>4, <1>5 DEF s, D

LEMMA AscendingIs ==
  ASSUME NEW N \in Nat, NEW K \in SUBSET (1..N)
  PROVE  \E m \in Nat :
           /\ Ascending(K) \in [1..m -> K]
           /\ \A i, j \in 1..m : i < j => Ascending(K)[i] < Ascending(K)[j]
           /\ \A k \in K : \E i \in 1..m : Ascending(K)[i] = k
<1> DEFINE R == {pair \in K \X K : pair[1] < pair[2]}
           s == Ascending(K)
           m == Cardinality(K)
<1>1. IsFiniteSet(K) /\ K \subseteq Int
  BY PositionsFinite
<1>2. s = Listing(K, R)
  BY DEF Ascending
<1>3. Orders(R, K)
  BY <1>1 DEF Orders
<1>4. \A a, b \in K : <<a, b>> \in R => a < b
  OBVIOUS
<1> HIDE DEF s, R
<1>5. /\ m \in Nat /\ s \in [1..m -> K]
      /\ \A i, j \in 1..m : i < j => <<s[i], s[j]>> \in R
      /\ \A k \in K : \E i \in 1..m : s[i] = k
  BY <1>1, <1>2, <1>3, Listed
<1> HIDE DEF m
<1>6. \A i, j \in 1..m : i < j => s[i] < s[j]
  BY <1>4, <1>5
<1> QED BY <1>5, <1>6 DEF s

(* Of the positions that have something, one is the last. *)
LEMMA LastPosition ==
  ASSUME NEW N \in Nat, NEW K \in SUBSET (1..N), K # {}
  PROVE  \E p \in K : \A q \in K : q <= p
<1> DEFINE R == {pair \in K \X K : pair[1] < pair[2]}
<1>1. IsFiniteSet(K) /\ K \subseteq Int
  BY PositionsFinite
<1>2. Orders(R, K)
  BY <1>1 DEF Orders
<1>3. \A a, b \in K : <<a, b>> \in R => a < b
  OBVIOUS
<1> HIDE DEF R
<1>4. PICK p \in K : \A q \in K : q # p => <<q, p>> \in R
  BY <1>1, <1>2, LastExists
<1>5. ASSUME NEW q \in K PROVE q <= p
  <2>1. p \in Int /\ q \in Int
    BY <1>1
  <2>2. q # p => q < p
    BY <1>3, <1>4
  <2> QED BY <2>1, <2>2
<1> QED BY <1>5

(* The end of a track in a sorted list of chapters. *)
LEMMA EndIs ==
  ASSUME NEW sorted \in Seq(ChapterSet), NEW p \in 1..Len(sorted),
         NEW duration \in Nat
  PROVE  LET end == IF sorted[p].end > sorted[p].start THEN sorted[p].end
                    ELSE IF p < Len(sorted) THEN sorted[p + 1].start ELSE duration
         IN  EndOf(sorted, p, duration) = IF end <= duration THEN end ELSE duration
<1> DEFINE end == IF sorted[p].end > sorted[p].start THEN sorted[p].end
                  ELSE IF p < Len(sorted) THEN sorted[p + 1].start ELSE duration
<1>1. /\ sorted[p].start \in Nat /\ sorted[p].end \in Nat
      /\ p < Len(sorted) => sorted[p + 1].start \in Nat
  <2>1. Len(sorted) \in Nat /\ (p < Len(sorted) => p + 1 \in 1..Len(sorted))
    BY ChapterAt
  <2> QED BY <2>1, ChapterAt
<1>2. end \in Int /\ duration \in Int
  BY <1>1
<1>3. EndOf(sorted, p, duration) = Min({end, duration})
  <2>1. ~(sorted[p].end > sorted[p].start) <=> sorted[p].end <= sorted[p].start
    BY <1>1
  <2>2. end = CASE sorted[p].end > sorted[p].start -> sorted[p].end
                [] sorted[p].end <= sorted[p].start /\ p < Len(sorted) -> sorted[p + 1].start
                [] OTHER -> duration
    BY <2>1
  <2> QED BY <2>2 DEF EndOf
<1> HIDE DEF end
<1> QED BY <1>2, <1>3, MinOfTwo DEF end

(* Between two starts with none between them there is one end that is filled in. *)
Neighbours(N, first, last, a, b) ==
  /\ \A i, j \in 1..N : i < j => first[i] <= first[j]
  /\ a < b /\ b <= last
  /\ \E i \in 1..N : first[i] = a
  /\ b = last \/ \E i \in 1..N : first[i] = b
  /\ \A i \in 1..N : first[i] <= a \/ b <= first[i]

Fills(N, first, last, a, b) ==
  \E k \in 1..N :
    /\ first[k] = a
    /\ b = IF k < N /\ first[k + 1] <= last THEN first[k + 1] ELSE last

LEMMA GapIsFilled ==
  ASSUME NEW N \in Nat, NEW first \in [1..N -> Nat], NEW last \in Nat,
         NEW a \in Nat, NEW b \in Nat, Neighbours(N, first, last, a, b)
  PROVE  Fills(N, first, last, a, b)
<1> USE DEF Neighbours, Fills
<1> DEFINE A == {i \in 1..N : first[i] = a}
<1>1. PICK k \in A : \A q \in A : q <= k
  <2>1. A \in SUBSET (1..N) /\ A # {}
    OBVIOUS
  <2> HIDE DEF A
  <2> QED BY <2>1, LastPosition
<1>2. k \in 1..N /\ first[k] = a /\ \A i \in 1..N : first[i] = a => i <= k
  BY <1>1
<1> HIDE DEF A
<1>3. ASSUME NEW i \in 1..N, i > k PROVE first[i] >= b
  BY <1>2, <1>3
<1>4. ASSUME NEW i \in 1..N, first[i] = b PROVE i > k
  BY <1>2, <1>4
<1>5. CASE k < N
  <2>1. k + 1 \in 1..N /\ k + 1 > k
    BY <1>2, <1>5
  <2>2. first[k + 1] \in Nat /\ first[k + 1] >= b
    BY <1>3, <2>1
  <2>3. CASE b = last
    BY <1>2, <1>5, <2>2, <2>3
  <2>4. ASSUME NEW i \in 1..N, first[i] = b PROVE first[k + 1] = b
    <3>1. i = k + 1 \/ k + 1 < i
      BY <1>2, <1>4, <2>4
    <3> QED BY <2>1, <2>2, <2>4, <3>1
  <2> QED BY <1>2, <1>5, <2>3, <2>4
<1>6. CASE k = N
  <2>1. b = last
    BY <1>2, <1>4, <1>6
  <2> QED BY <1>2, <1>6, <2>1
<1> QED BY <1>2, <1>5, <1>6

LEMMA ByStartIs ==
  ASSUME NEW chapters \in Seq(ChapterSet)
  PROVE  LET N == Len(chapters)
             sorted == ByStart(chapters)
         IN  /\ sorted \in Seq(ChapterSet) /\ Len(sorted) = N
             /\ \A i, j \in 1..N : i < j => sorted[i].start <= sorted[j].start
             /\ \A p \in 1..N : \E i \in 1..N : sorted[i] = chapters[p]
             /\ \A i \in 1..N : \E p \in 1..N : sorted[i] = chapters[p]
<1> DEFINE N == Len(chapters)
           order == InOrder(chapters)
           sorted == ByStart(chapters)
<1>1. N \in Nat /\ \A p \in 1..N : chapters[p] \in ChapterSet
  BY ChapterAt
<1>2. /\ order \in [1..N -> 1..N]
      /\ \A i, j \in 1..N : i < j => chapters[order[i]].start <= chapters[order[j]].start
      /\ \A p \in 1..N : \E i \in 1..N : order[i] = p
  BY InOrderIs
<1> HIDE DEF order, N
<1>3. sorted = [p \in 1..N |-> chapters[order[p]]]
  BY <1>2 DEF ByStart, order
<1> HIDE DEF sorted
<1>4. sorted \in [1..N -> ChapterSet] /\ \A i \in 1..N : sorted[i] = chapters[order[i]]
  BY <1>1, <1>2, <1>3
<1>5. sorted \in Seq(ChapterSet) /\ Len(sorted) = N
  BY <1>1, <1>4
<1>6. \A i, j \in 1..N : i < j => sorted[i].start <= sorted[j].start
  <2> SUFFICES ASSUME NEW i \in 1..N, NEW j \in 1..N, i < j PROVE sorted[i].start <= sorted[j].start
    OBVIOUS
  <2>1. sorted[i] = chapters[order[i]] /\ sorted[j] = chapters[order[j]]
    BY <1>4
  <2>2. chapters[order[i]].start <= chapters[order[j]].start
    BY <1>2
  <2> QED BY <2>1, <2>2
<1>7. \A p \in 1..N : \E i \in 1..N : sorted[i] = chapters[p]
  BY <1>2, <1>4
<1>8. \A i \in 1..N : \E p \in 1..N : sorted[i] = chapters[p]
  <2>1. \A i \in 1..N : order[i] \in 1..N
    BY <1>2
  <2> QED BY <1>4, <2>1
<1> QED BY <1>5, <1>6, <1>7, <1>8 DEF N, sorted

(* The cuts that are long enough are kept, in their order. *)
Keeps(cuts, N, m, kept) ==
  /\ kept \in [1..m -> 1..N]
  /\ LongEnough(cuts) = [n \in 1..m |-> cuts[kept[n]]]
  /\ \A i, j \in 1..m : i < j => kept[i] < kept[j]
  /\ \A n \in 1..m : cuts[kept[n]].end - cuts[kept[n]].start >= MinChapter
  /\ \A p \in 1..N : cuts[p].end - cuts[p].start >= MinChapter => \E n \in 1..m : kept[n] = p

LEMMA LongEnoughIs ==
  ASSUME NEW N \in Nat, NEW cuts, DOMAIN cuts = 1..N
  PROVE  \E m \in Nat : \E kept : Keeps(cuts, N, m, kept)
<1> DEFINE K == {p \in 1..N : cuts[p].end - cuts[p].start >= MinChapter}
           kept == Ascending(K)
<1>1. /\ \A p \in K : p \in 1..N /\ cuts[p].end - cuts[p].start >= MinChapter
      /\ \A p \in 1..N : cuts[p].end - cuts[p].start >= MinChapter => p \in K
      /\ K \in SUBSET (1..N)
  OBVIOUS
<1>2. LongEnough(cuts) = [n \in DOMAIN kept |-> cuts[kept[n]]]
  BY DEF LongEnough
<1> HIDE DEF K
<1>3. PICK m \in Nat : /\ kept \in [1..m -> K]
                       /\ \A i, j \in 1..m : i < j => kept[i] < kept[j]
                       /\ \A k \in K : \E i \in 1..m : kept[i] = k
  BY <1>1, AscendingIs
<1> HIDE DEF kept
<1>4. kept \in [1..m -> 1..N] /\ DOMAIN kept = 1..m
  BY <1>1, <1>3
<1>5. LongEnough(cuts) = [n \in 1..m |-> cuts[kept[n]]]
  BY <1>2, <1>4
<1>6. \A n \in 1..m : cuts[kept[n]].end - cuts[kept[n]].start >= MinChapter
  BY <1>1, <1>3
<1>7. \A p \in 1..N : cuts[p].end - cuts[p].start >= MinChapter => \E n \in 1..m : kept[n] = p
  BY <1>1, <1>3
<1>8. Keeps(cuts, N, m, kept)
  BY <1>3, <1>4, <1>5, <1>6, <1>7 DEF Keeps
<1> QED BY <1>8

(* The tracks are pieces of the file, in order, one for every chapter that is long *)
(* enough, and chapters without ends share out the file (pipeline/chapters.py      *)
(* chapters_from_info).                                                            *)
THEOREM TracksAreRight ==
  ASSUME NEW chapters \in Seq(ChapterSet), NEW duration \in Nat \ {0}
  PROVE  /\ Len(ChaptersFromInfo(chapters, duration)) \in Nat
         /\ IsTrackList(chapters, duration, ChaptersFromInfo(chapters, duration))
<1> DEFINE N == Len(chapters)
           list == ChaptersFromInfo(chapters, duration)
<1>1. /\ N \in Nat /\ DOMAIN chapters = 1..N
      /\ duration \in Nat /\ duration > 0
      /\ MinChapter \in Nat /\ MinChapter > 0
  BY ChapterAt, ChapterAssumption
<1> DEFINE sorted == ByStart(chapters)
           cuts == Pieces(sorted, duration)
           first == [p \in 1..N |-> sorted[p].start]
           own == [p \in 1..N |-> sorted[p].end]
           end == [p \in 1..N |-> EndOf(sorted, p, duration)]
<1>2. /\ sorted \in Seq(ChapterSet) /\ Len(sorted) = N
      /\ \A i, j \in 1..N : i < j => sorted[i].start <= sorted[j].start
      /\ \A p \in 1..N : \E i \in 1..N : sorted[i] = chapters[p]
      /\ \A i \in 1..N : \E p \in 1..N : sorted[i] = chapters[p]
  BY ByStartIs
<1> HIDE DEF sorted, N
<1>3. first \in [1..N -> Nat] /\ own \in [1..N -> Nat]
  BY <1>2, ChapterAt
<1>4. \A p \in 1..N : sorted[p] = [start |-> first[p], end |-> own[p]]
  BY <1>2, ChapterAt
<1>5. \A p \in 1..N :
        end[p] = LET e == IF own[p] > first[p] THEN own[p]
                          ELSE IF p < N THEN first[p + 1] ELSE duration
                 IN  IF e <= duration THEN e ELSE duration
  <2> SUFFICES ASSUME NEW p \in 1..N
               PROVE  end[p] = LET e == IF own[p] > first[p] THEN own[p]
                                        ELSE IF p < N THEN first[p + 1] ELSE duration
                               IN  IF e <= duration THEN e ELSE duration
    OBVIOUS
  <2>1. p < N => p + 1 \in 1..N
    BY <1>1
  <2>2. end[p] = EndOf(sorted, p, duration) /\ own[p] = sorted[p].end /\ first[p] = sorted[p].start
    OBVIOUS
  <2>3. p < N => first[p + 1] = sorted[p + 1].start
    BY <2>1
  <2>4. sorted \in Seq(ChapterSet) /\ Len(sorted) = N
    BY <1>2
  <2> DEFINE e == IF sorted[p].end > sorted[p].start THEN sorted[p].end
                  ELSE IF p < N THEN sorted[p + 1].start ELSE duration
  <2>5. EndOf(sorted, p, duration) = IF e <= duration THEN e ELSE duration
    BY <1>1, <2>4, EndIs
  <2> HIDE DEF end, own, first
  <2> QED BY <2>2, <2>3, <2>5
<1>6. \A i, j \in 1..N : i < j => first[i] <= first[j]
  BY <1>2
<1>7. DOMAIN cuts = 1..N /\ \A p \in 1..N : cuts[p] = [start |-> first[p], end |-> end[p]]
  <2>1. DOMAIN sorted = 1..N
    BY <1>2
  <2> QED BY <2>1 DEF Pieces
<1>8. \A p \in 1..N : cuts[p].start = first[p] /\ cuts[p].end = end[p]
  BY <1>7
<1> HIDE DEF cuts, first, own, end
<1>9. PICK m \in Nat : \E kept : Keeps(cuts, N, m, kept)
  BY <1>1, <1>7, LongEnoughIs
<1>10. PICK kept : Keeps(cuts, N, m, kept)
  BY <1>9
<1>11. /\ kept \in [1..m -> 1..N]
      /\ \A i, j \in 1..m : i < j => kept[i] < kept[j]
  BY <1>10 DEF Keeps
<1>12. \A n \in 1..m : end[kept[n]] - first[kept[n]] >= MinChapter
  BY <1>8, <1>10 DEF Keeps
<1>13. \A p \in 1..N : end[p] - first[p] >= MinChapter => \E n \in 1..m : kept[n] = p
  BY <1>8, <1>10 DEF Keeps
<1>14. list = IF m = 0 THEN <<[start |-> 0, end |-> duration]>>
              ELSE [n \in 1..m |-> [start |-> first[kept[n]], end |-> end[kept[n]]]]
  <2>1. LongEnough(cuts) = [n \in 1..m |-> [start |-> first[kept[n]], end |-> end[kept[n]]]]
    BY <1>7, <1>10 DEF Keeps
  <2>2. m = 0 => LongEnough(cuts) = <<>>
    BY <2>1
  <2>3. m # 0 => LongEnough(cuts) # <<>>
    <3>1. m # 0 => 1 \in DOMAIN LongEnough(cuts)
      BY <2>1
    <3>2. 1 \notin DOMAIN <<>>
      OBVIOUS
    <3> QED BY <3>1, <3>2
  <2> QED BY <2>1, <2>2, <2>3 DEF ChaptersFromInfo, cuts, sorted
<1> HIDE DEF list
<1>15. \A p \in 1..N : end[p] \in Int /\ end[p] <= duration
  <2> SUFFICES ASSUME NEW p \in 1..N PROVE end[p] \in Int /\ end[p] <= duration
    OBVIOUS
  <2>1. p < N => p + 1 \in 1..N
    BY <1>1
  <2>2. first[p] \in Nat /\ own[p] \in Nat /\ (p < N => first[p + 1] \in Nat)
    BY <1>3, <2>1
  <2> QED BY <1>1, <1>5, <2>2
<1>16. Len(list) \in Nat
  BY <1>14
<1>17. \A p \in 1..N : end[p] - first[p] >= MinChapter =>
         \E n \in DOMAIN list : list[n] = [start |-> first[p], end |-> end[p]]
  <2> SUFFICES ASSUME NEW p \in 1..N, end[p] - first[p] >= MinChapter
               PROVE  \E n \in DOMAIN list : list[n] = [start |-> first[p], end |-> end[p]]
    OBVIOUS
  <2>1. PICK i \in 1..m : kept[i] = p
    BY <1>13
  <2>2. list = [n \in 1..m |-> [start |-> first[kept[n]], end |-> end[kept[n]]]]
    BY <1>14, <2>1
  <2> QED BY <2>1, <2>2
<1>18. CutInTime(list, duration)
  <2>1. CASE m = 0
    <3>1. list = <<[start |-> 0, end |-> duration]>>
      BY <1>14, <2>1
    <3> QED BY <1>1, <3>1 DEF CutInTime
  <2>2. CASE m # 0
    <3>1. list = [n \in 1..m |-> [start |-> first[kept[n]], end |-> end[kept[n]]]]
      BY <1>14, <2>2
    <3>2. ASSUME NEW n \in 1..m
          PROVE  /\ 0 <= first[kept[n]] /\ end[kept[n]] <= duration
                 /\ first[kept[n]] < end[kept[n]]
                 /\ n > 1 => first[kept[n - 1]] <= first[kept[n]]
      <4>1. kept[n] \in 1..N
        BY <1>11
      <4>2. first[kept[n]] \in Nat /\ end[kept[n]] \in Int /\ end[kept[n]] <= duration
        BY <1>3, <1>15, <4>1
      <4>3. end[kept[n]] - first[kept[n]] >= MinChapter
        BY <1>12
      <4>4. ASSUME n > 1 PROVE first[kept[n - 1]] <= first[kept[n]]
        <5>1. n - 1 \in 1..m /\ n - 1 < n
          BY <4>4
        <5>2. kept[n - 1] \in 1..N /\ kept[n - 1] < kept[n]
          BY <1>11, <5>1
        <5> QED BY <1>6, <4>1, <5>2
      <4> QED BY <1>1, <4>2, <4>3, <4>4
    <3>3. DOMAIN list = 1..m /\ 1 \in DOMAIN list /\ list # <<>>
      <4>1. DOMAIN list = 1..m /\ 1 \in 1..m
        BY <2>2, <3>1
      <4>2. 1 \notin DOMAIN <<>>
        OBVIOUS
      <4> QED BY <4>1, <4>2
    <3>4. \A n \in 1..m : list[n].start = first[kept[n]] /\ list[n].end = end[kept[n]]
      BY <3>1
    <3>5. \A n \in 1..m : n > 1 => n - 1 \in 1..m
      OBVIOUS
    <3> QED BY <3>2, <3>3, <3>4, <3>5 DEF CutInTime
  <2> QED BY <2>1, <2>2
<1>19. ChaptersKept(chapters, duration, list)
  <2> SUFFICES ASSUME NEW p \in 1..N, chapters[p].end - chapters[p].start >= MinChapter,
                      chapters[p].end <= duration
               PROVE  \E n \in DOMAIN list : list[n] = chapters[p]
    BY <1>1 DEF ChaptersKept
  <2>1. PICK i \in 1..N : sorted[i] = chapters[p]
    BY <1>2
  <2>2. first[i] \in Nat /\ own[i] \in Nat /\ chapters[p] = [start |-> first[i], end |-> own[i]]
    BY <1>3, <1>4, <2>1
  <2>3. own[i] - first[i] >= MinChapter /\ own[i] <= duration
    BY <2>2
  <2>4. end[i] = own[i]
    BY <1>1, <1>5, <2>2, <2>3
  <2>5. end[i] - first[i] >= MinChapter
    BY <2>3, <2>4
  <2> QED BY <1>17, <2>2, <2>4, <2>5
<1>20. NothingLost(chapters, duration, list)
  <2> DEFINE starts == {chapters[p].start : p \in DOMAIN chapters} \union {duration}
  <2> SUFFICES ASSUME \A p \in DOMAIN chapters : chapters[p].end = 0,
                      NEW a \in starts, NEW b \in starts,
                      a < b, b <= duration, b - a >= MinChapter,
                      \A c \in starts : c <= a \/ b <= c
               PROVE  \E n \in DOMAIN list : list[n].start = a /\ list[n].end = b
    BY DEF NothingLost
  <2>1. \A i \in 1..N : first[i] \in starts /\ own[i] = 0
    <3>1. ASSUME NEW i \in 1..N PROVE first[i] \in starts /\ own[i] = 0
      <4>1. PICK p \in 1..N : sorted[i] = chapters[p]
        BY <1>2
      <4>2. chapters[p] = [start |-> first[i], end |-> own[i]]
        BY <1>4, <4>1
      <4>3. chapters[p].start = first[i] /\ chapters[p].end = own[i]
        BY <4>2
      <4> QED BY <1>1, <4>3
    <3> QED BY <3>1
  <2>2. \A c \in starts : c = duration \/ \E i \in 1..N : first[i] = c
    <3> SUFFICES ASSUME NEW p \in 1..N PROVE \E i \in 1..N : first[i] = chapters[p].start
      BY <1>1
    <3>1. PICK i \in 1..N : sorted[i] = chapters[p]
      BY <1>2
    <3>2. chapters[p] = [start |-> first[i], end |-> own[i]]
      BY <1>4, <3>1
    <3>3. chapters[p].start = first[i]
      BY <3>2
    <3> QED BY <3>3
  <2>3. \A i \in 1..N : first[i] <= a \/ b <= first[i]
    BY <2>1
  <2> HIDE DEF starts
  <2>4. a \in Nat /\ b \in Nat
    BY <1>1, <1>3, <2>2
  <2>5. \E i \in 1..N : first[i] = a
    BY <1>1, <2>2, <2>4
  <2>6. b = duration \/ \E i \in 1..N : first[i] = b
    BY <2>2
  <2>7. PICK k \in 1..N :
          /\ first[k] = a
          /\ b = IF k < N /\ first[k + 1] <= duration THEN first[k + 1] ELSE duration
    <3>1. N \in Nat /\ duration \in Nat /\ first \in [1..N -> Nat]
      BY <1>1, <1>3
    <3>2. a < b /\ b <= duration
      OBVIOUS
    <3>3. Neighbours(N, first, duration, a, b)
      BY <1>6, <2>3, <2>5, <2>6, <3>2 DEF Neighbours
    <3>4. Fills(N, first, duration, a, b)
      BY <2>4, <3>1, <3>3, GapIsFilled
    <3> QED BY <3>4 DEF Fills
  <2>8. end[k] = b
    <3>1. own[k] = 0 /\ first[k] \in Nat
      BY <1>3, <2>1
    <3>2. ~(own[k] > first[k])
      BY <3>1
    <3> QED BY <1>5, <2>7, <3>2
  <2>9. PICK n \in DOMAIN list : list[n] = [start |-> first[k], end |-> end[k]]
    BY <1>17, <2>7, <2>8
  <2> QED BY <2>7, <2>8, <2>9
<1>21. IsTrackList(chapters, duration, list)
  BY <1>18, <1>19, <1>20 DEF IsTrackList
<1> QED BY <1>16, <1>21 DEF list

(* Every list the job works on is such a list: a list is made only where the probe has   *)
(* succeeded, and the job keeps it as it is until it is done with it (pipeline/runner.py *)
(* _build_audio).                                                                        *)
LEMMA TracksProbed == ProgramSucceeds => TracksAreSound' \/ UNCHANGED tracks
<1> SUFFICES ASSUME ProgramSucceeds, tracks' # tracks PROVE TracksAreSound'
  OBVIOUS
<1>1. PICK chapters \in ChapterLists, duration \in Durations :
        tracks' = [chapters |-> chapters, duration |-> duration,
                   list |-> ChaptersFromInfo(chapters, duration)]
  BY DEF ProgramSucceeds
<1>2. chapters \in Seq(ChapterSet) /\ duration \in Nat \ {0}
  BY SiteAssumption DEF ChapterSet
<1>3. IsTrackList(chapters, duration, ChaptersFromInfo(chapters, duration))
  BY <1>2, TracksAreRight
<1>4. /\ tracks'.chapters = chapters /\ tracks'.duration = duration
      /\ tracks'.list = ChaptersFromInfo(chapters, duration)
  BY <1>1
<1> QED BY <1>3, <1>4 DEF TracksAreSound

LEMMA TracksNext == TracksAreSound /\ [Next]_vars => TracksAreSound'
<1> SUFFICES ASSUME TracksAreSound, [Next]_vars PROVE TracksAreSound'
  OBVIOUS
<1>1. CASE UNCHANGED tracks
  BY <1>1 DEF TracksAreSound
<1>2. CASE Hold \/ Edited \/ Flooded \/ Refused \/ Tick
  BY <1>1, <1>2 DEF Hold, Edited, Flooded, Refused, Tick, Answered, Leave, job
<1>3. CASE ProgramStep
  BY <1>1, <1>3 DEF ProgramStep, HelperStarts, HelperEnds, LeaderDies, Reap, LeaderExits, Write,
                    Read, EndOfFile, LineTooLong, job
<1>4. CASE ProgramSucceeds
  BY <1>1, <1>4, TracksProbed
<1>5. CASE StartUpdate
  BY <1>1, <1>5 DEF StartUpdate, TracksAreSound
<1>6. CASE \/ StartProgram \/ ProgramFails \/ Waited \/ StartSending \/ Sent
           \/ DeleteStatus \/ Raise \/ FinishStatus
  BY <1>1, <1>6 DEF StartProgram, ProgramFails, Waited, StartSending, Sent, DeleteStatus, Raise,
                    FinishStatus
<1>7. CASE Timeout \/ Cancel \/ UploadProgress
  BY <1>1, <1>7 DEF Timeout, Cancel, StopProgram, UploadProgress, job
<1>8. CASE UNCHANGED vars
  BY <1>1, <1>8 DEF vars, job
<1> QED BY <1>2, <1>3, <1>4, <1>5, <1>6, <1>7, <1>8 DEF Next, MainStep

(* What ffmpeg is asked to cut are pieces of the file, in order, one for every chapter   *)
(* that is long enough, and nothing between two starts is left out, whatever the site    *)
(* says about the chapters.                                                              *)
THEOREM TheTracksAreSound == Spec => []TracksAreSound
<1>1. Init => TracksAreSound
  BY DEF Init, TracksAreSound
<1> QED BY <1>1, TracksNext, PTL DEF Spec

-----------------------------------------------------------------------------
(* The order of what is shown. *)

JobPhases == {"fetch", "download", "split", "tag", "package", "upload"}
PhaseSet == JobPhases \union {"none", "failed", "deleted"}
Texts == [phase : PhaseSet, number : Nat]
UpdateSet == [do : {"update"}, phase : JobPhases \union {"failed"}, number : Nat, force : BOOLEAN,
              mine : BOOLEAN]
JobUpdates == [do : {"update"}, phase : JobPhases, number : Nat, force : BOOLEAN, mine : {TRUE}]
OpSet == JobUpdates \union {Run(w) : w \in {"info", "probe", "cut"}} \union {Stream, Send, Delete}

TextOf(u) == Text(u.phase, u.number)

(* A text that a step of the script may bring, and one that may come before it. *)
Brings(op, x) ==
  \/ op.do = "update" /\ x = TextOf(op)
  \/ op.do = "stream" /\ x.phase = "download"
  \/ op.do = "send" /\ x.phase = "upload"

Allows(op, x) ==
  /\ op.do = "update" => Before(x, TextOf(op))
  /\ op.do = "stream" => Before(x, Text("download", 0))
  /\ op.do = "send" => Before(x, Text("upload", 0))
  /\ op.do = "run" /\ op.what = "probe" => Position(x.phase) <= Position("download")

Follows(a, b) == \A x \in Texts : Brings(a, x) => Allows(b, x)
Ordered(s) == \A i, j \in 1..Len(s) : i < j => Follows(s[i], s[j])

(* The texts that the message shows or may still come to show, in their order. *)
Chain(q, s) ==
  /\ s.phase # "deleted" => \A i \in 1..Len(q) : Before(s, TextOf(q[i]))
  /\ \A i, j \in 1..Len(q) : i <= j => Before(TextOf(q[i]), TextOf(q[j]))

PastOf(q, s) == {s} \union {TextOf(q[i]) : i \in 1..Len(q)}
Past == PastOf(queue, shown)

(* They come before all that the job has still to bring. *)
Leads(x) ==
  \A i \in 1..Len(script) :
    IF i = 1 /\ main = "child" /\ script[1].do = "stream" THEN Before(x, Text("download", reports))
    ELSE IF i = 1 /\ main = "sending" THEN Before(x, Text("upload", reports))
    ELSE Allows(script[i], x)

TypedInv ==
  /\ script \in Seq(OpSet) /\ queue \in Seq(UpdateSet)
  /\ shown \in Texts /\ reports \in Nat /\ pipe \in [Readers -> Int]

WorkInv ==
  /\ main \in {"updating", "child", "sending"} => script # <<>>
  /\ main = "child" => script[1].do \in {"run", "stream"}
  /\ main = "child" /\ script[1].do = "run" => \A r \in Readers : pipe[r] = 0
  /\ main = "sending" => script[1].do = "send"
  /\ Broken => main \notin {"ready", "updating", "sending"}
  /\ ~Broken => \A r \in Readers : reader[r] = "reading" => main = "child"

Stopped == {"failing", "failed", "cancelled", "done"}

TextInv ==
  ~Broken =>
    /\ shown.phase = "deleted" => main = "done"
    /\ Chain(queue, shown)
    /\ main \notin Stopped => \A x \in Past : Position(x.phase) <= Position("upload")
    /\ main \in {"ready", "updating", "child", "sending"} =>
         Ordered(script) /\ \A x \in Past : Leads(x)

OrderInv == TypedInv /\ WorkInv /\ TextInv

LEMMA Positions ==
  /\ Position("none") = 1 /\ Position("fetch") = 2 /\ Position("download") = 3
  /\ Position("split") = 4 /\ Position("tag") = 5 /\ Position("package") = 6
  /\ Position("upload") = 7 /\ Position("failed") = 8 /\ Position("deleted") = 9
<1>1. Position("none") = 1 /\ Position("fetch") = 2 /\ Position("download") = 3
  BY DEF Position, Phases
<1>2. Position("split") = 4 /\ Position("tag") = 5 /\ Position("package") = 6
  BY DEF Position, Phases
<1>3. Position("upload") = 7 /\ Position("failed") = 8 /\ Position("deleted") = 9
  BY DEF Position, Phases
<1> QED BY <1>1, <1>2, <1>3

LEMMA PositionSet == \A p \in PhaseSet : Position(p) \in 1..9
BY Positions DEF PhaseSet, JobPhases

LEMMA BeforeIsAnOrder ==
  /\ \A a \in Texts : Before(a, a)
  /\ \A a, b, c \in Texts : Before(a, b) /\ Before(b, c) => Before(a, c)
BY PositionSet DEF Before, Texts

LEMMA Join ==
  ASSUME NEW X, NEW Y, NEW a \in Seq(X), NEW b \in Seq(Y), Ordered(a), Ordered(b),
         \A x \in X, y \in Y : Follows(x, y)
  PROVE  a \o b \in Seq(X \union Y) /\ Ordered(a \o b)
<1>1. a \in Seq(X \union Y) /\ b \in Seq(X \union Y)
  OBVIOUS
<1>2. /\ a \o b \in Seq(X \union Y) /\ Len(a \o b) = Len(a) + Len(b)
      /\ \A i \in 1..(Len(a) + Len(b)) : (a \o b)[i] = IF i <= Len(a) THEN a[i] ELSE b[i - Len(a)]
  BY <1>1, ConcatProperties, Zenon
<1>3. Len(a) \in Nat /\ Len(b) \in Nat
  OBVIOUS
<1>4. ASSUME NEW i \in 1..Len(a \o b), NEW j \in 1..Len(a \o b), i < j
      PROVE  Follows((a \o b)[i], (a \o b)[j])
  <2>1. CASE j <= Len(a)
    <3>1. i \in 1..Len(a) /\ j \in 1..Len(a)
      BY <1>2, <1>3, <1>4, <2>1
    <3>2. (a \o b)[i] = a[i] /\ (a \o b)[j] = a[j]
      BY <1>2, <1>3, <3>1
    <3> QED BY <1>4, <3>1, <3>2 DEF Ordered
  <2>2. CASE i > Len(a)
    <3>1. i - Len(a) \in 1..Len(b) /\ j - Len(a) \in 1..Len(b) /\ i - Len(a) < j - Len(a)
      BY <1>2, <1>3, <1>4, <2>2
    <3>2. (a \o b)[i] = b[i - Len(a)] /\ (a \o b)[j] = b[j - Len(a)]
      BY <1>2, <1>3, <1>4, <2>2
    <3> QED BY <3>1, <3>2 DEF Ordered
  <2>3. CASE i <= Len(a) /\ j > Len(a)
    <3>1. i \in 1..Len(a) /\ j - Len(a) \in 1..Len(b)
      BY <1>2, <1>3, <1>4, <2>3
    <3>2. (a \o b)[i] = a[i] /\ (a \o b)[j] = b[j - Len(a)]
      BY <1>2, <1>3, <1>4, <2>3
    <3>3. a[i] \in X /\ b[j - Len(a)] \in Y
      BY <3>1
    <3> QED BY <3>2, <3>3
  <2> QED BY <1>2, <1>3, <2>1, <2>2, <2>3
<1> QED BY <1>2, <1>4 DEF Ordered

(* The operations of a job, in the order of their blocks. *)
FetchOps == {Update("fetch", 0, TRUE), Run("info"), Update("download", 0, TRUE), Stream}
ProbeOps == {Run("probe")}
CutOps == {Update("split", i, FALSE) : i \in Nat} \union {Run("cut")}
TagOps == {Update("tag", i, FALSE) : i \in Nat} \union {Update("tag", 0, TRUE)}
PackOps == {Update("package", 0, TRUE)}
SendOps == {Update("upload", 0, TRUE), Send, Delete}

LEMMA Blocks ==
  /\ FetchOps \subseteq OpSet /\ ProbeOps \subseteq OpSet /\ CutOps \subseteq OpSet
  /\ TagOps \subseteq OpSet /\ PackOps \subseteq OpSet /\ SendOps \subseteq OpSet
<1>1. \A p \in JobPhases, n \in Nat, f \in BOOLEAN : Update(p, n, f) \in OpSet
  BY DEF Update, OpSet, JobUpdates
<1>2. {"fetch", "download", "split", "tag", "package", "upload"} \subseteq JobPhases
  BY DEF JobPhases
<1>3. /\ \A w \in {"info", "probe", "cut"} : Run(w) \in OpSet
      /\ Stream \in OpSet /\ Send \in OpSet /\ Delete \in OpSet
  BY DEF OpSet
<1>4. FetchOps \subseteq OpSet
  BY <1>1, <1>2, <1>3 DEF FetchOps
<1>5. ProbeOps \subseteq OpSet
  BY <1>3 DEF ProbeOps
<1>6. CutOps \subseteq OpSet
  BY <1>1, <1>2, <1>3 DEF CutOps
<1>7. TagOps \subseteq OpSet
  BY <1>1, <1>2 DEF TagOps
<1>8. PackOps \subseteq OpSet /\ SendOps \subseteq OpSet
  BY <1>1, <1>2, <1>3 DEF PackOps, SendOps
<1> QED BY <1>4, <1>5, <1>6, <1>7, <1>8

(* The phases of a block, and those that its operations let pass. *)
LEMMA Lows ==
  ASSUME NEW x \in Texts
  PROVE  /\ \A op \in FetchOps : Brings(op, x) => Position(x.phase) <= 3
         /\ \A op \in ProbeOps : ~Brings(op, x)
         /\ \A op \in CutOps : Brings(op, x) => Position(x.phase) = 4
         /\ \A op \in TagOps : Brings(op, x) => Position(x.phase) = 5
         /\ \A op \in PackOps : Brings(op, x) => Position(x.phase) = 6
BY Positions DEF Brings, FetchOps, ProbeOps, CutOps, TagOps, PackOps, Update, Run, Stream,
                 TextOf, Text

LEMMA Highs ==
  ASSUME NEW x \in Texts
  PROVE  /\ \A op \in ProbeOps : Position(x.phase) <= 3 => Allows(op, x)
         /\ \A op \in CutOps : Position(x.phase) <= 3 => Allows(op, x)
         /\ \A op \in TagOps : Position(x.phase) <= 4 => Allows(op, x)
         /\ \A op \in PackOps : Position(x.phase) <= 5 => Allows(op, x)
         /\ \A op \in SendOps : Position(x.phase) <= 6 => Allows(op, x)
<1>1. Position(x.phase) \in Int
  BY PositionSet DEF Texts
<1>2. \A op \in ProbeOps : Position(x.phase) <= 3 => Allows(op, x)
  BY Positions DEF Allows, ProbeOps, Run
<1>3. \A op \in CutOps : Position(x.phase) <= 3 => Allows(op, x)
  BY <1>1, Positions DEF Allows, CutOps, Run, Update, TextOf, Text, Before
<1>4. \A op \in TagOps : Position(x.phase) <= 4 => Allows(op, x)
  BY <1>1, Positions DEF Allows, TagOps, Update, TextOf, Text, Before
<1>5. \A op \in PackOps : Position(x.phase) <= 5 => Allows(op, x)
  BY <1>1, Positions DEF Allows, PackOps, Update, TextOf, Text, Before
<1>6. \A op \in SendOps : Position(x.phase) <= 6 => Allows(op, x)
  BY <1>1, Positions DEF Allows, SendOps, Send, Delete, Update, TextOf, Text, Before
<1> QED BY <1>2, <1>3, <1>4, <1>5, <1>6

LEMMA TextsHavePositions == \A x \in Texts : Position(x.phase) \in 1..9
BY PositionSet DEF Texts

LEMMA MetadataOrdered == Metadata \in Seq({Update("fetch", 0, TRUE), Run("info")}) /\ Ordered(Metadata)
<1>1. Len(Metadata) = 2 /\ Metadata[1] = Update("fetch", 0, TRUE) /\ Metadata[2] = Run("info")
  BY DEF Metadata
<1>2. Follows(Update("fetch", 0, TRUE), Run("info"))
  BY DEF Follows, Allows, Run
<1>3. \A i, j \in 1..2 : i < j => i = 1 /\ j = 2
  OBVIOUS
<1>4. Ordered(Metadata)
  BY <1>1, <1>2, <1>3 DEF Ordered
<1> QED BY <1>4 DEF Metadata

LEMMA FetchingOrdered == Fetching \in Seq(FetchOps) /\ Ordered(Fetching)
<1> DEFINE X == {Update("fetch", 0, TRUE), Run("info")}
           Y == {Update("download", 0, TRUE), Stream}
           b == <<Update("download", 0, TRUE), Stream>>
<1>1. b \in Seq(Y) /\ Len(b) = 2 /\ b[1] = Update("download", 0, TRUE) /\ b[2] = Stream
  OBVIOUS
<1>2. Follows(Update("download", 0, TRUE), Stream)
  BY DEF Follows, Brings, Allows, Update, Stream, TextOf, Text, Before
<1>3. Ordered(b)
  <2>1. \A i, j \in 1..2 : i < j => i = 1 /\ j = 2
    OBVIOUS
  <2> HIDE DEF b
  <2> QED BY <1>1, <1>2, <2>1 DEF Ordered
<1>4. \A x \in X, y \in Y : Follows(x, y)
  BY Positions DEF Follows, Brings, Allows, Update, Run, Stream, TextOf, Text, Before
<1>5. Metadata \in Seq(X) /\ Ordered(Metadata)
  BY MetadataOrdered
<1>6. X \union Y = FetchOps /\ Fetching = Metadata \o b
  BY DEF FetchOps, Fetching
<1> HIDE DEF X, Y, b
<1> QED BY <1>1, <1>3, <1>4, <1>5, <1>6, Join

LEMMA DeliveryOrdered == Delivery \in Seq(SendOps) /\ Ordered(Delivery)
<1>1. Delivery \in Seq(SendOps) /\ Len(Delivery) = 3
  BY DEF Delivery, SendOps
<1>2. Delivery[1] = Update("upload", 0, TRUE) /\ Delivery[2] = Send /\ Delivery[3] = Delete
  BY DEF Delivery
<1>3. /\ Follows(Update("upload", 0, TRUE), Send)
      /\ \A op : Follows(op, Delete)
  BY DEF Follows, Brings, Allows, Update, Send, Delete, TextOf, Text, Before
<1>4. \A i, j \in 1..3 : i < j => (i = 1 /\ j = 2) \/ j = 3
  OBVIOUS
<1>5. \A i, j \in 1..3 : i < j => Follows(Delivery[i], Delivery[j])
  BY <1>2, <1>3, <1>4
<1> QED BY <1>1, <1>5 DEF Ordered

LEMMA SingleOrdered == ASSUME NEW op PROVE <<op>> \in Seq({op}) /\ Ordered(<<op>>)
BY DEF Ordered

LEMMA ArchiveOrdered == Archive \in Seq(PackOps) /\ Ordered(Archive)
BY SingleOrdered DEF Archive, PackOps

(* The delivery of a result, with or without an archive. *)
LEMMA DeliveriesOrdered == \A d \in Deliveries : d \in Seq(PackOps \union SendOps) /\ Ordered(d)
<1>1. \A x \in PackOps, y \in SendOps : Follows(x, y)
  BY Lows, Highs, TextsHavePositions DEF Follows
<1>2. Archive \o Delivery \in Seq(PackOps \union SendOps) /\ Ordered(Archive \o Delivery)
  BY <1>1, ArchiveOrdered, DeliveryOrdered, Join
<1>3. Delivery \in Seq(PackOps \union SendOps)
  BY DeliveryOrdered
<1> QED BY <1>2, <1>3, DeliveryOrdered DEF Deliveries

LEMMA ScriptsOrdered == \A s \in Scripts : s \in Seq(OpSet) /\ Ordered(s)
<1>1. \A x \in FetchOps, y \in ProbeOps \union PackOps \union SendOps : Follows(x, y)
  BY Lows, Highs, TextsHavePositions DEF Follows
<1>2. BuildAudio \in Seq(FetchOps \union ProbeOps) /\ Ordered(BuildAudio)
  <2>1. <<Run("probe")>> \in Seq(ProbeOps) /\ Ordered(<<Run("probe")>>)
    BY SingleOrdered DEF ProbeOps
  <2> QED BY <1>1, <2>1, FetchingOrdered, Join DEF BuildAudio
<1>3. Fetching \o Delivery \in Seq(FetchOps \union SendOps) /\ Ordered(Fetching \o Delivery)
  BY <1>1, FetchingOrdered, DeliveryOrdered, Join
<1>4. ASSUME NEW d \in Deliveries
      PROVE  Metadata \o d \in Seq(OpSet) /\ Ordered(Metadata \o d)
  <2> DEFINE X == {Update("fetch", 0, TRUE), Run("info")}
             Y == PackOps \union SendOps
  <2>1. X \subseteq FetchOps
    BY DEF FetchOps
  <2>2. \A x \in X, y \in Y : Follows(x, y)
    BY <1>1, <2>1
  <2>3. X \union Y \subseteq OpSet
    BY <2>1, Blocks
  <2>4. Metadata \in Seq(X) /\ Ordered(Metadata)
    BY MetadataOrdered
  <2>5. d \in Seq(Y) /\ Ordered(d)
    BY <1>4, DeliveriesOrdered
  <2> HIDE DEF X, Y
  <2>6. Metadata \o d \in Seq(X \union Y) /\ Ordered(Metadata \o d)
    BY <2>2, <2>4, <2>5, Join
  <2> QED BY <2>3, <2>6
<1>5. /\ FetchOps \union ProbeOps \subseteq OpSet /\ FetchOps \union SendOps \subseteq OpSet
      /\ PackOps \union SendOps \subseteq OpSet
  BY Blocks
<1>6. \A X : X \subseteq OpSet => Seq(X) \subseteq Seq(OpSet)
  OBVIOUS
<1>7. ASSUME NEW s \in Scripts
      PROVE  \/ s = BuildAudio \/ s = Fetching \o Delivery \/ s \in Deliveries
             \/ \E d \in Deliveries : s = Metadata \o d
  BY DEF Scripts
<1> QED BY <1>2, <1>3, <1>4, <1>5, <1>6, <1>7, DeliveriesOrdered

LEMMA CutsOrdered ==
  ASSUME NEW n \in Nat
  PROVE  Cuts(n) \in Seq(CutOps) /\ Ordered(Cuts(n))
<1> DEFINE s == Cuts(n)
<1>1. ASSUME NEW i \in 1..2 * n
      PROVE  s[i] = IF i % 2 = 1 THEN Update("split", (i + 1) \div 2, FALSE) ELSE Run("cut")
  BY DEF Cuts
<1>2. ASSUME NEW i \in 1..2 * n PROVE s[i] \in CutOps
  <2>1. (i + 1) \div 2 \in Nat
    OBVIOUS
  <2>2. \A m \in Nat : Update("split", m, FALSE) \in CutOps
    BY Zenon DEF CutOps
  <2>3. Run("cut") \in CutOps
    BY DEF CutOps
  <2> HIDE DEF s
  <2> QED BY <1>1, <2>1, <2>2, <2>3
<1>3. s \in Seq(CutOps) /\ Len(s) = 2 * n
  <2>1. s = [i \in 1..2 * n |-> s[i]]
    BY DEF Cuts
  <2>2. 2 * n \in Nat
    OBVIOUS
  <2> HIDE DEF s
  <2> QED BY <1>2, <2>1, <2>2
<1>4. ASSUME NEW i \in 1..2 * n, NEW j \in 1..2 * n, i < j PROVE Follows(s[i], s[j])
  <2>1. CASE i % 2 = 1 /\ j % 2 = 1
    <3>1. (i + 1) \div 2 <= (j + 1) \div 2
      BY <1>4
    <3>2. s[i] = Update("split", (i + 1) \div 2, FALSE) /\ s[j] = Update("split", (j + 1) \div 2, FALSE)
      BY <1>1, <2>1
    <3> QED BY <3>1, <3>2 DEF Follows, Brings, Allows, Update, TextOf, Text, Before
  <2>2. CASE i % 2 # 1
    <3>1. s[i] = Run("cut")
      BY <1>1, <2>2
    <3> QED BY <3>1 DEF Follows, Brings, Run
  <2>3. CASE j % 2 # 1
    <3>1. s[j] = Run("cut")
      BY <1>1, <2>3
    <3> QED BY <3>1 DEF Follows, Allows, Run
  <2> QED BY <2>1, <2>2, <2>3
<1> QED BY <1>3, <1>4 DEF Ordered

LEMMA TagsOrdered ==
  ASSUME NEW n \in Nat
  PROVE  /\ [i \in 1..n |-> Update("tag", i, FALSE)] \in Seq(TagOps)
         /\ Ordered([i \in 1..n |-> Update("tag", i, FALSE)])
         /\ \A i \in 1..n : Follows(Update("tag", 0, TRUE), Update("tag", i, FALSE))
<1> DEFINE s == [i \in 1..n |-> Update("tag", i, FALSE)]
<1>1. ASSUME NEW i \in 1..n PROVE s[i] = Update("tag", i, FALSE) /\ i \in Nat
  OBVIOUS
<1>2. \A i \in Nat : Update("tag", i, FALSE) \in TagOps
  BY Zenon DEF TagOps
<1>3. s \in Seq(TagOps) /\ Len(s) = n
  <2>1. s = [i \in 1..n |-> s[i]]
    OBVIOUS
  <2>2. \A i \in 1..n : s[i] \in TagOps
    BY <1>1, <1>2
  <2> HIDE DEF s
  <2> QED BY <2>1, <2>2
<1>4. \A i, j \in Nat : i <= j => /\ Follows(Update("tag", i, FALSE), Update("tag", j, FALSE))
                                /\ Follows(Update("tag", i, TRUE), Update("tag", j, FALSE))
  BY DEF Follows, Brings, Allows, Update, TextOf, Text, Before
<1>5. ASSUME NEW i \in 1..n, NEW j \in 1..n, i < j PROVE Follows(s[i], s[j])
  <2>1. i \in Nat /\ j \in Nat /\ i <= j
    BY <1>5
  <2> QED BY <1>1, <1>4, <2>1, Zenon
<1>6. Ordered(s)
  BY <1>3, <1>5 DEF Ordered
<1>7. \A i \in 1..n : Follows(Update("tag", 0, TRUE), Update("tag", i, FALSE))
  <2>1. 0 \in Nat /\ \A i \in 1..n : i \in Nat /\ 0 <= i
    OBVIOUS
  <2> QED BY <1>4, <2>1, Zenon
<1> QED BY <1>3, <1>6, <1>7

LEMMA AfterProbeOrdered ==
  ASSUME NEW n \in Nat, NEW s \in AfterProbe(n)
  PROVE  /\ s \in Seq(OpSet) /\ Ordered(s)
         /\ \A x \in Texts : Position(x.phase) <= 3 => \A i \in 1..Len(s) : Allows(s[i], x)
<1>0. PICK v \in Deliveries :
        s = Cuts(n) \o <<Update("tag", 0, TRUE)>> \o [i \in 1..n |-> Update("tag", i, FALSE)] \o v
  BY DEF AfterProbe, Deliveries
<1> DEFINE T == [i \in 1..n |-> Update("tag", i, FALSE)]
           TagNow == {Update("tag", 0, TRUE)}
           TagNext == {Update("tag", i, FALSE) : i \in 1..n}
           a == Cuts(n) \o <<Update("tag", 0, TRUE)>>
           b == a \o T
           d == b \o v
           X == (CutOps \union TagNow) \union TagNext
           Y == X \union (PackOps \union SendOps)
<1>1. /\ \A x \in CutOps, y \in TagOps \union PackOps \union SendOps : Follows(x, y)
      /\ \A x \in TagOps, y \in PackOps \union SendOps : Follows(x, y)
      /\ \A x \in PackOps, y \in SendOps : Follows(x, y)
  BY Lows, Highs, TextsHavePositions DEF Follows
<1>2. TagNow \subseteq TagOps /\ TagNext \subseteq TagOps
  <2>1. /\ \A i \in Nat : Update("tag", i, FALSE) \in TagOps
        /\ Update("tag", 0, TRUE) \in TagOps
    BY Zenon DEF TagOps
  <2>2. \A i \in 1..n : i \in Nat
    OBVIOUS
  <2> QED BY <2>1, <2>2
<1>3. a \in Seq(CutOps \union TagNow) /\ Ordered(a)
  <2>1. <<Update("tag", 0, TRUE)>> \in Seq(TagNow) /\ Ordered(<<Update("tag", 0, TRUE)>>)
    BY SingleOrdered
  <2>2. \A x \in CutOps, y \in TagNow : Follows(x, y)
    BY <1>1, <1>2
  <2> HIDE DEF TagNow
  <2> QED BY <2>1, <2>2, CutsOrdered, Join
<1>4. b \in Seq((CutOps \union TagNow) \union TagNext) /\ Ordered(b)
  <2>1. T \in Seq(TagNext) /\ Ordered(T)
    <3>1. \A i \in 1..n : T[i] \in TagNext
      BY Zenon
    <3>2. T = [i \in 1..n |-> T[i]]
      OBVIOUS
    <3>3. T \in Seq(TagNext)
      <4> HIDE DEF T, TagNext
      <4> QED BY <3>1, <3>2
    <3> QED BY <3>3, TagsOrdered
  <2>2. \A x \in CutOps \union TagNow, y \in TagNext : Follows(x, y)
    BY <1>1, <1>2, TagsOrdered
  <2> HIDE DEF a, T, TagNow, TagNext
  <2> QED BY <1>3, <2>1, <2>2, Join
<1>6. d \in Seq(Y) /\ Ordered(d)
  <2>1. \A x \in X, y \in PackOps \union SendOps : Follows(x, y)
    BY <1>1, <1>2
  <2>2. b \in Seq(X) /\ Ordered(b)
    BY <1>4
  <2> HIDE DEF b, X
  <2> QED BY <2>1, <2>2, DeliveriesOrdered, Join
<1>7. s = d
  BY <1>0
<1>8. Y \subseteq OpSet
  BY <1>2, Blocks
<1>9. \A x \in Texts : Position(x.phase) <= 3 => \A op \in Y : Allows(op, x)
  <2> SUFFICES ASSUME NEW x \in Texts, Position(x.phase) <= 3, NEW op \in Y PROVE Allows(op, x)
    OBVIOUS
  <2>1. Position(x.phase) \in 1..9
    BY TextsHavePositions
  <2>2. Position(x.phase) <= 4 /\ Position(x.phase) <= 5 /\ Position(x.phase) <= 6
    BY <2>1
  <2>3. op \in CutOps \/ op \in TagOps \/ op \in PackOps \/ op \in SendOps
    BY <1>2, Zenon
  <2> QED BY <2>2, <2>3, Highs
<1> HIDE DEF d, Y
<1>10. d \in Seq(OpSet) /\ \A i \in 1..Len(d) : d[i] \in Y
  BY <1>6, <1>8
<1> QED BY <1>6, <1>7, <1>9, <1>10

(* The queue without its k-th update. *)
LEMMA Removal ==
  ASSUME NEW q \in Seq(UpdateSet), NEW r \in Seq(UpdateSet), NEW s \in Texts, Chain(q, s),
         NEW k \in 1..Len(q), Len(r) = Len(q) - 1,
         \A i \in 1..Len(r) : r[i] = q[IF i < k THEN i ELSE i + 1]
  PROVE  /\ Chain(r, s) /\ \A x \in PastOf(r, s) : x \in PastOf(q, s)
         /\ k = 1 => /\ Chain(r, TextOf(q[1])) /\ TextOf(q[1]) \in PastOf(q, s)
                     /\ \A x \in PastOf(r, TextOf(q[1])) : x \in PastOf(q, s)
<1> DEFINE m(i) == IF i < k THEN i ELSE i + 1
<1>1. Len(q) \in Nat /\ Len(r) \in Nat
  OBVIOUS
<1>2. /\ \A i \in 1..Len(r) : m(i) \in 1..Len(q) /\ r[i] = q[m(i)]
      /\ \A i, j \in 1..Len(r) : i <= j => m(i) <= m(j)
      /\ 1 \in 1..Len(q) /\ \A i \in 1..Len(r) : 1 <= m(i)
  BY <1>1
<1> HIDE DEF m
<1>3. Chain(r, s)
  BY <1>2 DEF Chain
<1>4. \A x \in PastOf(r, s) : x \in PastOf(q, s)
  BY <1>2 DEF PastOf
<1>5. Chain(r, TextOf(q[1])) /\ TextOf(q[1]) \in PastOf(q, s)
  BY <1>2 DEF Chain, PastOf
<1>6. \A x \in PastOf(r, TextOf(q[1])) : x \in PastOf(q, s)
  BY <1>2, <1>5 DEF PastOf
<1> QED BY <1>3, <1>4, <1>5, <1>6

(* The queue with one update more. *)
LEMMA Addition ==
  ASSUME NEW q \in Seq(UpdateSet), NEW s \in Texts, NEW u \in UpdateSet, Chain(q, s),
         \A x \in PastOf(q, s) : Before(x, TextOf(u))
  PROVE  /\ Append(q, u) \in Seq(UpdateSet) /\ Chain(Append(q, u), s)
         /\ \A x \in PastOf(Append(q, u), s) : x \in PastOf(q, s) \/ x = TextOf(u)
<1> DEFINE r == Append(q, u)
<1>1. /\ r \in Seq(UpdateSet) /\ Len(r) = Len(q) + 1 /\ Len(q) \in Nat
      /\ \A i \in 1..Len(q) : r[i] = q[i]
      /\ r[Len(q) + 1] = u
  OBVIOUS
<1>2. \A i \in 1..Len(r) : i \in 1..Len(q) \/ i = Len(q) + 1
  BY <1>1
<1>3. TextOf(u) \in Texts
  BY DEF TextOf, Text, Texts, UpdateSet, PhaseSet
<1> HIDE DEF r
<1>4. s \in PastOf(q, s) /\ \A i \in 1..Len(q) : TextOf(q[i]) \in PastOf(q, s)
  BY DEF PastOf
<1>5. \A x \in PastOf(r, s) : x \in PastOf(q, s) \/ x = TextOf(u)
  BY <1>1, <1>2, <1>4 DEF PastOf
<1>6. ASSUME s.phase # "deleted", NEW i \in 1..Len(r) PROVE Before(s, TextOf(r[i]))
  BY <1>1, <1>2, <1>4, <1>6 DEF Chain
<1>7. ASSUME NEW i \in 1..Len(r), NEW j \in 1..Len(r), i <= j
      PROVE  Before(TextOf(r[i]), TextOf(r[j]))
  <2>1. CASE j \in 1..Len(q)
    <3>1. i \in 1..Len(q)
      BY <1>1, <1>7, <2>1
    <3> QED BY <1>1, <1>7, <2>1, <3>1 DEF Chain
  <2>2. CASE j = Len(q) + 1 /\ i \in 1..Len(q)
    BY <1>1, <1>4, <2>2
  <2>3. CASE j = Len(q) + 1 /\ i = Len(q) + 1
    BY <1>1, <1>3, <2>3, BeforeIsAnOrder
  <2> QED BY <1>2, <2>1, <2>2, <2>3
<1>8. Chain(r, s)
  BY <1>6, <1>7 DEF Chain
<1> QED BY <1>1, <1>5, <1>8 DEF r

LEMMA PastTexts == TypedInv => \A x \in Past : x \in Texts
<1> SUFFICES ASSUME TypedInv PROVE \A x \in Past : x \in Texts
  OBVIOUS
<1>1. \A u \in UpdateSet : TextOf(u) \in Texts
  BY DEF TextOf, Text, Texts, UpdateSet, PhaseSet
<1>2. \A i \in 1..Len(queue) : queue[i] \in UpdateSet
  BY DEF TypedInv
<1> QED BY <1>1, <1>2 DEF TypedInv, Past, PastOf

LEMMA TailOps ==
  ASSUME NEW s \in Seq(OpSet), s # <<>>
  PROVE  /\ Tail(s) \in Seq(OpSet) /\ Len(Tail(s)) = Len(s) - 1 /\ Len(s) \in Nat /\ Len(s) > 0
         /\ Head(s) = s[1] /\ s[1] \in OpSet
         /\ \A i \in 1..Len(Tail(s)) : i + 1 \in 1..Len(s) /\ i + 1 # 1 /\ Tail(s)[i] = s[i + 1]
         /\ Ordered(s) => Ordered(Tail(s))
<1>1. /\ Tail(s) \in Seq(OpSet) /\ Len(Tail(s)) = Len(s) - 1 /\ Len(s) \in Nat /\ Len(s) > 0
      /\ Head(s) = s[1] /\ s[1] \in OpSet
      /\ \A i \in 1..(Len(s) - 1) : Tail(s)[i] = s[i + 1]
  OBVIOUS
<1>2. \A i \in 1..Len(Tail(s)) : i + 1 \in 1..Len(s) /\ i + 1 # 1 /\ Tail(s)[i] = s[i + 1]
  BY <1>1
<1>3. ASSUME Ordered(s), NEW i \in 1..Len(Tail(s)), NEW j \in 1..Len(Tail(s)), i < j
      PROVE  Follows(Tail(s)[i], Tail(s)[j])
  <2>1. i + 1 < j + 1
    BY <1>1, <1>3
  <2> QED BY <1>2, <1>3, <2>1 DEF Ordered
<1> QED BY <1>1, <1>2, <1>3 DEF Ordered

LEMMA UpdatesOfOps ==
  ASSUME NEW op \in OpSet, op.do = "update"
  PROVE  op.phase \in JobPhases /\ op.number \in Nat /\ op.mine /\ op \in UpdateSet
<1>1. op \in JobUpdates
  BY DEF OpSet, Run, Stream, Send, Delete
<1>2. op.phase \in JobPhases /\ op.number \in Nat /\ op.mine
  BY <1>1 DEF JobUpdates
<1>3. op \in UpdateSet
  BY <1>1 DEF JobUpdates, UpdateSet
<1> QED BY <1>2, <1>3

LEMMA OrderInit == Init => OrderInv
<1> SUFFICES ASSUME Init PROVE OrderInv
  OBVIOUS
<1>1. script \in Seq(OpSet) /\ Ordered(script)
  BY ScriptsOrdered DEF Init
<1>2. queue = <<>> /\ queue \in Seq(UpdateSet) /\ Len(queue) = 0
  BY DEF Init
<1>3. shown = Text("none", 0) /\ shown \in Texts
  BY DEF Init, Text, Texts, PhaseSet
<1>4. Past = {shown} /\ Chain(queue, shown)
  <2>1. {TextOf(queue[i]) : i \in 1..Len(queue)} = {}
    BY <1>2
  <2> QED BY <1>2, <2>1 DEF Past, PastOf, Chain
<1>5. \A op \in OpSet : Allows(op, shown)
  <2>1. \A p \in JobPhases : Position("none") < Position(p)
    BY Positions DEF JobPhases
  <2>2. Position("none") <= Position("download")
    BY Positions
  <2>3. {"download", "upload"} \subseteq JobPhases
    BY DEF JobPhases
  <2>4. \A op \in OpSet : op.do = "update" => op.phase \in JobPhases
    BY UpdatesOfOps
  <2> QED BY <1>3, <2>1, <2>2, <2>3, <2>4 DEF Allows, Before, TextOf, Text
<1>6. \A i \in 1..Len(script) : script[i] \in OpSet
  BY <1>1
<1>7. main = "ready" /\ \A r \in Readers : reader[r] = "none"
  BY DEF Init, NoReaders
<1>8. TypedInv
  BY <1>1, <1>2, <1>3 DEF Init, TypedInv
<1>9. WorkInv
  BY <1>7 DEF WorkInv, Broken
<1>10. TextInv
  <2>1. Position(shown.phase) <= Position("upload") /\ shown.phase # "deleted"
    BY <1>3, Positions DEF Text
  <2>2. Leads(shown)
    BY <1>5, <1>6, <1>7 DEF Leads
  <2> QED BY <1>1, <1>4, <1>7, <2>1, <2>2 DEF TextInv
<1> QED BY <1>8, <1>9, <1>10 DEF OrderInv

LEMMA BrokenStays ==
  ASSUME ProgramInv, OrderInv, QueueInv, [Next]_vars, Broken
  PROVE  Broken'
<1>1. main # "ready" /\ ~Complete
  BY DEF OrderInv, WorkInv, Broken, Complete
<1>2. CASE reader' = reader
  BY <1>2 DEF Broken
<1>3. ASSUME NEW r \in Readers, EndOfFile(r) \/ LineTooLong(r) PROVE Broken'
  BY <1>3 DEF EndOfFile, LineTooLong, Broken, ProgramInv
<1>4. ASSUME NEW why, StopProgram(why) PROVE Broken'
  BY <1>4 DEF StopProgram, Broken
<1>5. \/ reader' = reader \/ StartProgram \/ ProgramSucceeds
      \/ \E r \in Readers : EndOfFile(r) \/ LineTooLong(r)
      \/ StopProgram("timeout") \/ StopProgram("cancel")
  <2>1. CASE ProgramStep
    BY <2>1 DEF ProgramStep, HelperStarts, HelperEnds, LeaderDies, Reap, LeaderExits, Write, Read
  <2>2. CASE MainStep
    BY <2>2 DEF MainStep, ProgramFails, Waited, StartUpdate, StartSending, Sent, DeleteStatus,
                Raise, FinishStatus, child
  <2>3. CASE Hold \/ Edited \/ Flooded \/ Refused \/ Tick \/ Timeout \/ Cancel \/ UploadProgress
               \/ UNCHANGED vars
    BY <2>3 DEF Hold, Edited, Flooded, Refused, Tick, Timeout, Cancel, UploadProgress, vars, child
  <2> QED BY <2>1, <2>2, <2>3 DEF Next
<1> QED BY <1>1, <1>2, <1>3, <1>4, <1>5 DEF StartProgram, ProgramSucceeds

(* The holder leaves the lock. *)
LEMMA OrderLeave ==
  ASSUME OrderInv, QueueInv, queue # <<>>, Leave, UNCHANGED <<reports, pipe, reader>>,
         shown' = shown \/ (shown' = TextOf(Head(queue)) /\ shown.phase # "deleted")
  PROVE  OrderInv'
<1> USE DEF OrderInv, TypedInv
<1>1. /\ queue' \in Seq(UpdateSet) /\ Len(queue') = Len(queue) - 1 /\ Len(queue) \in Nat
      /\ Len(queue) > 0 /\ Head(queue) = queue[1] /\ queue[1] \in UpdateSet
      /\ \A i \in 1..Len(queue') : queue'[i] = queue[i + 1]
  BY Served DEF Leave
<1>2. 1 \in 1..Len(queue) /\ \A i \in 1..Len(queue') : (IF i < 1 THEN i ELSE i + 1) = i + 1
  BY <1>1
<1>3. shown' \in Texts /\ (shown'.phase = "deleted" => shown' = shown)
  BY <1>1 DEF TextOf, Text, Texts, UpdateSet, PhaseSet, JobPhases
<1>4. ASSUME Chain(queue, shown)
      PROVE  Chain(queue, shown)' /\ \A x \in Past' : x \in Past
  <2>1. /\ Chain(queue', shown) /\ \A x \in PastOf(queue', shown) : x \in PastOf(queue, shown)
        /\ Chain(queue', TextOf(queue[1]))
        /\ \A x \in PastOf(queue', TextOf(queue[1])) : x \in PastOf(queue, shown)
    BY <1>1, <1>2, <1>4, Removal
  <2> QED BY <1>1, <2>1 DEF Past
<1>5. \/ UNCHANGED <<script, main>>
      \/ main = "failing" /\ main' = "failed" /\ UNCHANGED script
      \/ main = "updating" /\ main' = "ready" /\ script' = Tail(script)
  BY <1>1, <1>2 DEF Leave, QueueInv
<1>6. CASE UNCHANGED <<script, main>>
  <2>1. \A x : Leads(x)' <=> Leads(x)
    BY <1>6 DEF Leads
  <2> QED BY <1>1, <1>3, <1>4, <1>6, <2>1 DEF WorkInv, TextInv, Broken
<1>7. CASE main = "failing" /\ main' = "failed" /\ UNCHANGED script
  BY <1>1, <1>3, <1>4, <1>7 DEF WorkInv, TextInv, Broken, Stopped
<1>8. CASE main = "updating" /\ main' = "ready" /\ script' = Tail(script)
  <2>1. script # <<>> /\ ~Broken
    BY <1>8 DEF WorkInv
  <2>2. /\ script' \in Seq(OpSet)
        /\ Ordered(script) => Ordered(script')
        /\ \A i \in 1..Len(script') : i + 1 \in 1..Len(script) /\ i + 1 # 1
                                      /\ script'[i] = script[i + 1]
    BY <1>8, <2>1, TailOps
  <2>3. ASSUME NEW x, Leads(x) PROVE Leads(x)'
    BY <1>8, <2>2, <2>3 DEF Leads
  <2>4. WorkInv'
    BY <1>8, <2>1 DEF WorkInv, Broken
  <2>5. TextInv'
    BY <1>3, <1>4, <1>8, <2>1, <2>2, <2>3 DEF TextInv, Stopped
  <2>6. TypedInv'
    <3>1. script' \in Seq(OpSet) /\ queue' \in Seq(UpdateSet) /\ shown' \in Texts
      BY <1>1, <1>3, <2>2
    <3> QED BY <3>1
  <2> QED BY <2>4, <2>5, <2>6
<1> QED BY <1>5, <1>6, <1>7, <1>8

(* A job that is cancelled while it holds the lock or waits for it. *)
LEMMA OrderLeaveLock ==
  ASSUME OrderInv, QueueInv, LeaveLock, main \in {"updating", "failing"}, main' = "cancelled",
         UNCHANGED <<script, reports, pipe, reader>>
  PROVE  OrderInv'
<1> USE DEF OrderInv, TypedInv
<1>1. PICK k \in 1..Len(queue) : queue[k].mine /\ queue' = RemoveAt(queue, k)
  BY DEF LeaveLock
<1>2. /\ queue' \in Seq(UpdateSet) /\ Len(queue') = Len(queue) - 1 /\ Len(queue) \in Nat
      /\ \A i \in 1..Len(queue') : queue'[i] = queue[IF i < k THEN i ELSE i + 1]
  <2>1. /\ RemoveAt(queue, k) \in Seq(UpdateSet) /\ Len(RemoveAt(queue, k)) = Len(queue) - 1
        /\ \A i \in 1..(Len(queue) - 1) :
             RemoveAt(queue, k)[i] = queue[IF i < k THEN i ELSE i + 1]
    BY Removed, Zenon
  <2> QED BY <1>1, <2>1
<1>3. 1 \in 1..Len(queue) /\ Head(queue) = queue[1] /\ queue[1] \in UpdateSet
  BY <1>2
<1>4. shown' = shown \/ (k = 1 /\ shown' = TextOf(queue[1]))
  BY <1>1, <1>3 DEF LeaveLock, QueueInv, TextOf
<1>5. shown' \in Texts /\ (shown'.phase = "deleted" => shown' = shown)
  BY <1>3, <1>4 DEF TextOf, Text, Texts, UpdateSet, PhaseSet, JobPhases
<1>6. ASSUME Chain(queue, shown) PROVE Chain(queue, shown)'
  <2>1. /\ Chain(queue', shown)
        /\ k = 1 => Chain(queue', TextOf(queue[1]))
    BY <1>2, <1>6, Removal
  <2> QED BY <1>4, <2>1
<1>7. WorkInv'
  BY DEF WorkInv, Broken
<1>8. TextInv'
  BY <1>5, <1>6 DEF TextInv, Stopped, Broken
<1> QED BY <1>2, <1>5, <1>7, <1>8

(* An update of the job or of a progress line enters the queue. *)
LEMMA Entering ==
  ASSUME OrderInv, ~Broken, NEW u \in UpdateSet, Enter(u), shown' = shown,
         \A x \in Past : Before(x, TextOf(u))
  PROVE  /\ queue' \in Seq(UpdateSet) /\ Chain(queue, shown)'
         /\ \A x \in Past' : x \in Past \/ x = TextOf(u)
BY Addition DEF OrderInv, TypedInv, TextInv, Enter, Past

(* A step that leaves the queue, the message and the script alone. *)
LEMMA OrderStill ==
  ASSUME OrderInv, UNCHANGED <<queue, shown, script, reports, pipe>>, WorkInv',
         main' = main \/ (main \notin Stopped /\ main' \in Stopped \union {"finishing", "killing"}),
         Broken => Broken'
  PROVE  OrderInv'
<1>1. TypedInv'
  BY DEF OrderInv, TypedInv
<1>2. CASE main' = main
  <2>1. \A x : Leads(x)' <=> Leads(x)
    BY <1>2 DEF Leads
  <2> QED BY <1>1, <1>2, <2>1 DEF OrderInv, TextInv, Past
<1>3. CASE main' # main
  <2>1. shown.phase = "deleted" => Broken
    BY <1>3 DEF OrderInv, TextInv, Stopped
  <2> QED BY <1>1, <1>3, <2>1 DEF OrderInv, TextInv, Past, Stopped
<1> QED BY <1>2, <1>3

LEMMA OrderProgram ==
  ASSUME OrderInv, QueueInv, ProgramInv, ProgramStep
  PROVE  OrderInv'
<1> USE DEF Readers
<1>1. Broken => Broken'
  BY BrokenStays DEF Next
<1>2. CASE HelperStarts \/ HelperEnds \/ LeaderDies \/ Reap \/ \E ok \in BOOLEAN : LeaderExits(ok)
  <2>1. UNCHANGED <<main, queue, shown, script, reports, pipe, reader>>
    BY <1>2 DEF HelperStarts, HelperEnds, LeaderDies, Reap, LeaderExits, job, status
  <2>2. WorkInv'
    BY <2>1 DEF OrderInv, WorkInv, Broken
  <2> QED BY <1>1, <2>1, <2>2, OrderStill
<1>3. ASSUME NEW r \in Readers, EndOfFile(r) \/ LineTooLong(r) PROVE OrderInv'
  <2>1. /\ UNCHANGED <<main, queue, shown, script, reports, pipe>> /\ reader[r] = "reading"
        /\ \A q \in Readers : reader'[q] = "reading" => reader[q] = "reading"
    BY <1>3 DEF EndOfFile, LineTooLong, job, status, ProgramInv
  <2>2. Broken' => main = "child" \/ Broken
    BY <2>1 DEF OrderInv, WorkInv
  <2>3. WorkInv'
    BY <1>1, <2>1, <2>2 DEF OrderInv, WorkInv
  <2> QED BY <1>1, <2>1, <2>3, OrderStill
<1>4. ASSUME NEW r \in Readers, Write(r) PROVE OrderInv'
  <2>1. /\ UNCHANGED <<main, queue, shown, script, reports, reader>>
        /\ script # <<>> /\ Head(script) = Stream /\ pipe' = [pipe EXCEPT ![r] = @ + 1]
    BY <1>4 DEF Write, Streaming, job, status
  <2>2. TypedInv'
    BY <2>1 DEF OrderInv, TypedInv
  <2>3. script[1].do = "stream"
    BY <2>1, TailOps DEF OrderInv, TypedInv, Stream
  <2>4. WorkInv'
    BY <2>1, <2>3 DEF OrderInv, WorkInv, Broken
  <2>5. TextInv'
    <3>1. \A x : Leads(x)' <=> Leads(x)
      BY <2>1 DEF Leads
    <3> QED BY <2>1, <3>1 DEF OrderInv, TextInv, Past, Broken
  <2> QED BY <2>2, <2>4, <2>5 DEF OrderInv
<1>5. ASSUME NEW r \in Readers, Read(r) PROVE OrderInv'
  <2>1. /\ UNCHANGED <<main, shown, script, reader>> /\ reader[r] = "reading" /\ pipe[r] > 0
        /\ pipe' = [pipe EXCEPT ![r] = @ - 1]
    BY <1>5 DEF Read, job, status
  <2>2. /\ WorkInv'
        /\ \A q \in Readers : pipe'[q] \in Int
    BY <2>1 DEF OrderInv, TypedInv, WorkInv, Broken
  <2>3. CASE UNCHANGED <<reports, queue>>
    <3>1. TypedInv'
      BY <2>1, <2>3 DEF OrderInv, TypedInv
    <3>2. \A x : Leads(x)' <=> Leads(x)
      BY <2>1, <2>3 DEF Leads
    <3>3. TextInv'
      BY <2>1, <2>3, <3>2 DEF OrderInv, TextInv, Past, Broken
    <3> QED BY <2>2, <3>1, <3>3 DEF OrderInv
  <2>4. CASE reports' = reports + 1 /\ Enter(Report("download", reports'))
    <3> DEFINE u == Report("download", reports')
    <3>1. reports \in Nat /\ reports' \in Nat /\ reports <= reports'
      BY <2>4 DEF OrderInv, TypedInv
    <3>2. u \in UpdateSet /\ TextOf(u) = Text("download", reports')
      BY <3>1 DEF Report, Update, UpdateSet, JobPhases, TextOf
    <3>3. queue' \in Seq(UpdateSet)
      BY <2>4, <3>2 DEF Enter, OrderInv, TypedInv
    <3>4. TypedInv'
      BY <2>1, <3>1, <3>3 DEF OrderInv, TypedInv
    <3>5. ASSUME ~Broken PROVE TextInv'
      <4>1. main = "child" /\ script # <<>> /\ script[1].do = "stream"
        BY <2>1, <3>5 DEF OrderInv, WorkInv
      <4>2. /\ Ordered(script) /\ 1 \in 1..Len(script) /\ script \in Seq(OpSet)
            /\ \A x \in Past : Leads(x) /\ x \in Texts
        BY <3>5, <4>1, PastTexts DEF OrderInv, TextInv, TypedInv
      <4>3. \A x \in Past : Before(x, Text("download", reports))
        BY <4>1, <4>2 DEF Leads
      <4>4. \A x \in Texts : Before(x, Text("download", reports)) => Before(x, Text("download", reports'))
        BY <3>1 DEF Before, Text, Texts
      <4>5. /\ Chain(queue, shown)' /\ \A x \in Past' : x \in Past \/ x = Text("download", reports')
        BY <2>1, <2>4, <3>2, <3>5, <4>2, <4>3, <4>4, Entering
      <4>6. Text("download", reports') \in Texts
        BY <3>1 DEF Text, Texts, PhaseSet, JobPhases
      <4>7. ASSUME NEW x \in Past' PROVE Leads(x)'
        <5>1. Before(x, Text("download", reports'))
          BY <4>2, <4>3, <4>4, <4>5, <4>6, BeforeIsAnOrder
        <5>2. ASSUME NEW i \in 1..Len(script), i # 1 PROVE Allows(script[i], x)
          <6>1. Follows(script[1], script[i])
            BY <4>2, <5>2 DEF Ordered
          <6>2. Brings(script[1], Text("download", reports'))
            BY <4>1 DEF Brings, Text
          <6>3. Allows(script[i], Text("download", reports'))
            BY <4>6, <6>1, <6>2 DEF Follows
          <6>4. \A y \in Past : Allows(script[i], y)
            BY <4>1, <4>2, <5>2 DEF Leads
          <6> QED BY <4>5, <6>3, <6>4
        <5> QED BY <2>1, <4>1, <5>1, <5>2 DEF Leads
      <4>8. \A x \in Past' : Position(x.phase) <= Position("upload")
        <5>1. Position("download") <= Position("upload")
          BY Positions
        <5>2. \A x \in Past : Position(x.phase) <= Position("upload")
          BY <3>5, <4>1 DEF OrderInv, TextInv, Stopped
        <5> QED BY <4>5, <5>1, <5>2 DEF Text
      <4>9. shown'.phase # "deleted"
        BY <2>1, <3>5, <4>1 DEF OrderInv, TextInv
      <4> QED BY <2>1, <4>2, <4>5, <4>7, <4>8, <4>9 DEF TextInv
    <3>6. Broken => TextInv'
      BY <1>1 DEF TextInv
    <3> QED BY <2>2, <3>4, <3>5, <3>6 DEF OrderInv
  <2> QED BY <1>5, <2>3, <2>4 DEF Read
<1> QED BY <1>2, <1>3, <1>4, <1>5 DEF ProgramStep

(* A step of the script that is done: an external program, or the sending. *)
LEMMA OrderAdvance ==
  ASSUME OrderInv, ~Broken, main \in {"child", "sending"}, main' = "ready", script' = Tail(script),
         UNCHANGED <<queue, shown, reports, pipe>>, \A r \in Readers : reader'[r] \notin {"reading", "broken"}
  PROVE  OrderInv'
<1> USE DEF OrderInv, TypedInv
<1>1. script # <<>>
  BY DEF WorkInv
<1>2. /\ script' \in Seq(OpSet)
      /\ Ordered(script) => Ordered(script')
      /\ \A i \in 1..Len(script') : i + 1 \in 1..Len(script) /\ i + 1 # 1
                                    /\ script'[i] = script[i + 1]
  BY <1>1, TailOps
<1>3. ASSUME NEW x, Leads(x) PROVE Leads(x)'
  BY <1>2, <1>3 DEF Leads
<1>4. TypedInv'
  BY <1>2
<1>5. WorkInv'
  BY DEF WorkInv, Broken
<1>6. TextInv'
  BY <1>2, <1>3 DEF TextInv, Stopped, Past
<1> QED BY <1>4, <1>5, <1>6

LEMMA OrderSucceeds == OrderInv /\ ProgramSucceeds => OrderInv'
<1> SUFFICES ASSUME OrderInv, ProgramSucceeds PROVE OrderInv'
  OBVIOUS
<1>1. /\ main = "child" /\ main' = "ready" /\ Complete /\ UNCHANGED <<queue, shown, reports, pipe>>
      /\ reader' = NoReaders
  BY DEF ProgramSucceeds, status
<1>2. ~Broken /\ \A r \in Readers : reader'[r] \notin {"reading", "broken"}
  BY <1>1 DEF Complete, Broken, NoReaders
<1>3. CASE script' = Tail(script)
  BY <1>1, <1>2, <1>3, OrderAdvance
<1>4. CASE Head(script) = Run("probe") /\ script' # Tail(script)
  <2>1. PICK chapters \in ChapterLists, duration \in Durations :
          script' \in AfterProbe(Len(ChaptersFromInfo(chapters, duration)))
    BY <1>4 DEF ProgramSucceeds
  <2> DEFINE n == Len(ChaptersFromInfo(chapters, duration))
  <2>2. n \in Nat
    BY SiteAssumption, TracksAreRight DEF ChapterSet
  <2> HIDE DEF n
  <2>3. /\ script' \in Seq(OpSet) /\ Ordered(script')
        /\ \A x \in Texts : Position(x.phase) <= 3 =>
             \A i \in 1..Len(script') : Allows(script'[i], x)
    BY <2>1, <2>2, AfterProbeOrdered DEF n
  <2>4. script # <<>> /\ script[1] = Run("probe") /\ 1 \in 1..Len(script)
    <3>1. script # <<>> /\ script \in Seq(OpSet)
      BY <1>1 DEF OrderInv, WorkInv, TypedInv
    <3> QED BY <1>4, <3>1, TailOps
  <2>5. \A x \in Past : x \in Texts /\ Leads(x)
    BY <1>1, <1>2, PastTexts DEF OrderInv, TextInv
  <2>6. \A x \in Past : Position(x.phase) <= 3
    BY <1>1, <2>4, <2>5, Positions DEF Leads, Allows, Run
  <2>7. \A x \in Past : Leads(x)'
    BY <1>1, <2>3, <2>5, <2>6 DEF Leads
  <2>8. TypedInv'
    BY <1>1, <2>3 DEF OrderInv, TypedInv
  <2>9. WorkInv'
    BY <1>1, <1>2 DEF WorkInv, Broken
  <2>10. TextInv'
    BY <1>1, <1>2, <2>3, <2>7 DEF OrderInv, TextInv, Past, Stopped
  <2> QED BY <2>8, <2>9, <2>10 DEF OrderInv
<1> QED BY <1>3, <1>4 DEF ProgramSucceeds

LEMMA OrderStarts == OrderInv /\ StartProgram => OrderInv'
<1> SUFFICES ASSUME OrderInv, StartProgram PROVE OrderInv'
  OBVIOUS
<1>1. /\ main = "ready" /\ main' = "child" /\ script # <<>> /\ Head(script).do \in {"run", "stream"}
      /\ reports' = 0 /\ UNCHANGED <<queue, shown, script>>
      /\ reader' = [r \in Readers |-> "reading"] /\ pipe' = [r \in Readers |-> 0]
  BY DEF StartProgram, status
<1>2. Head(script) = script[1] /\ ~Broken /\ ~Broken'
  BY <1>1, TailOps DEF OrderInv, TypedInv, WorkInv, Broken
<1>3. TypedInv'
  BY <1>1 DEF OrderInv, TypedInv
<1>4. WorkInv'
  BY <1>1, <1>2 DEF WorkInv
<1>5. ASSUME NEW x, Leads(x) PROVE Leads(x)'
  BY <1>1, <1>5 DEF Leads, Allows
<1>6. TextInv'
  BY <1>1, <1>2, <1>5 DEF OrderInv, TextInv, Past, Stopped
<1> QED BY <1>3, <1>4, <1>6 DEF OrderInv

LEMMA OrderSending == OrderInv /\ StartSending => OrderInv'
<1> SUFFICES ASSUME OrderInv, StartSending PROVE OrderInv'
  OBVIOUS
<1>1. /\ main = "ready" /\ main' = "sending" /\ script # <<>> /\ Head(script) = Send
      /\ reports' = 0 /\ UNCHANGED <<queue, shown, script, reader, pipe>>
  BY DEF StartSending, status, child
<1>2. script[1].do = "send" /\ ~Broken
  BY <1>1, TailOps DEF OrderInv, TypedInv, WorkInv, Send
<1>3. TypedInv'
  BY <1>1 DEF OrderInv, TypedInv
<1>4. WorkInv'
  BY <1>1, <1>2 DEF OrderInv, WorkInv, Broken
<1>5. ASSUME NEW x, Leads(x) PROVE Leads(x)'
  BY <1>1, <1>2, <1>5 DEF Leads, Allows
<1>6. TextInv'
  BY <1>1, <1>2, <1>5 DEF OrderInv, TextInv, Past, Stopped
<1> QED BY <1>3, <1>4, <1>6 DEF OrderInv

LEMMA OrderUpload == OrderInv /\ UploadProgress => OrderInv'
<1> SUFFICES ASSUME OrderInv, UploadProgress PROVE OrderInv'
  OBVIOUS
<1> DEFINE u == Report("upload", reports')
<1>1. /\ main = "sending" /\ reports' = reports + 1 /\ Enter(u)
      /\ UNCHANGED <<main, script, shown, reader, pipe>>
  BY DEF UploadProgress, status, child, job
<1>2. reports \in Nat /\ reports' \in Nat /\ reports <= reports'
  BY <1>1 DEF OrderInv, TypedInv
<1>3. u \in UpdateSet /\ TextOf(u) = Text("upload", reports')
  BY <1>2 DEF Report, Update, UpdateSet, JobPhases, TextOf
<1>4. /\ ~Broken /\ script # <<>> /\ script[1].do = "send"
      /\ Ordered(script) /\ 1 \in 1..Len(script)
      /\ \A x \in Past : Leads(x) /\ x \in Texts
  BY <1>1, PastTexts DEF OrderInv, WorkInv, TextInv, TypedInv
<1>5. \A x \in Past : Before(x, Text("upload", reports))
  BY <1>1, <1>4 DEF Leads
<1>6. \A x \in Texts : Before(x, Text("upload", reports)) => Before(x, Text("upload", reports'))
  BY <1>2 DEF Before, Text, Texts
<1>7. /\ queue' \in Seq(UpdateSet) /\ Chain(queue, shown)'
      /\ \A x \in Past' : x \in Past \/ x = Text("upload", reports')
  BY <1>1, <1>3, <1>4, <1>5, <1>6, Entering
<1>8. Text("upload", reports') \in Texts
  BY <1>2 DEF Text, Texts, PhaseSet, JobPhases
<1>9. ASSUME NEW x \in Past' PROVE Leads(x)'
  <2>1. Before(x, Text("upload", reports'))
    BY <1>4, <1>5, <1>6, <1>7, <1>8, BeforeIsAnOrder
  <2>2. ASSUME NEW i \in 1..Len(script), i # 1 PROVE Allows(script[i], x)
    <3>1. Follows(script[1], script[i]) /\ Brings(script[1], Text("upload", reports'))
      BY <1>4, <2>2 DEF Ordered, Brings, Text
    <3>2. Allows(script[i], Text("upload", reports'))
      BY <1>8, <3>1 DEF Follows
    <3>3. \A y \in Past : Allows(script[i], y)
      BY <1>1, <1>4, <2>2 DEF Leads
    <3> QED BY <1>7, <3>2, <3>3
  <2> QED BY <1>1, <2>1, <2>2 DEF Leads
<1>10. \A x \in Past' : Position(x.phase) <= Position("upload")
  <2>1. \A x \in Past : Position(x.phase) <= Position("upload")
    BY <1>1, <1>4 DEF OrderInv, TextInv, Stopped
  <2> QED BY <1>7, <2>1, Positions DEF Text
<1>11. TypedInv'
  BY <1>1, <1>2, <1>7 DEF OrderInv, TypedInv
<1>12. WorkInv'
  BY <1>1 DEF OrderInv, WorkInv, Broken
<1>13. TextInv'
  <2>1. shown'.phase # "deleted"
    BY <1>1, <1>4 DEF OrderInv, TextInv
  <2> QED BY <1>1, <1>4, <1>7, <1>9, <1>10, <2>1 DEF TextInv
<1> QED BY <1>11, <1>12, <1>13 DEF OrderInv

LEMMA OrderUpdate == OrderInv /\ StartUpdate => OrderInv'
<1> SUFFICES ASSUME OrderInv, StartUpdate PROVE OrderInv'
  OBVIOUS
<1> DEFINE u == script[1]
<1>1. /\ main = "ready" /\ main' = "updating" /\ script # <<>> /\ Head(script) = u
      /\ u.do = "update" /\ Enter(u) /\ u \in OpSet
      /\ UNCHANGED <<reports, script, shown, reader, pipe>>
  BY TailOps DEF StartUpdate, status, child, OrderInv, TypedInv
<1>2. u.phase \in JobPhases /\ u.number \in Nat /\ u \in UpdateSet
  BY <1>1, UpdatesOfOps
<1>3. u \in UpdateSet /\ TextOf(u) \in Texts /\ Position(u.phase) <= Position("upload")
  <2>1. TextOf(u) \in Texts
    BY <1>2 DEF TextOf, Text, Texts, PhaseSet
  <2>2. Position(u.phase) <= Position("upload")
    BY <1>2, Positions DEF JobPhases
  <2> QED BY <1>2, <2>1, <2>2
<1>4. /\ ~Broken /\ Ordered(script) /\ 1 \in 1..Len(script)
      /\ \A x \in Past : Leads(x)
  BY <1>1 DEF OrderInv, WorkInv, TextInv, TypedInv
<1>5. \A x \in Past : \A i \in 1..Len(script) : Allows(script[i], x)
  BY <1>1, <1>4 DEF Leads
<1>6. \A x \in Past : Before(x, TextOf(u))
  BY <1>1, <1>4, <1>5 DEF Allows
<1>7. /\ queue' \in Seq(UpdateSet) /\ Chain(queue, shown)'
      /\ \A x \in Past' : x \in Past \/ x = TextOf(u)
  BY <1>1, <1>3, <1>4, <1>6, Entering
<1>8. ASSUME NEW i \in 1..Len(script) PROVE Allows(script[i], TextOf(u))
  <2>1. CASE i = 1
    BY <1>1, <1>3, <2>1, BeforeIsAnOrder DEF Allows
  <2>2. CASE i # 1
    <3>1. Follows(u, script[i]) /\ Brings(u, TextOf(u))
      BY <1>1, <1>4, <2>2 DEF Ordered, Brings
    <3> QED BY <1>3, <3>1 DEF Follows
  <2> QED BY <2>1, <2>2
<1>9. \A x \in Past' : Leads(x)'
  BY <1>1, <1>5, <1>7, <1>8 DEF Leads
<1>10. \A x \in Past' : Position(x.phase) <= Position("upload")
  <2>1. \A x \in Past : Position(x.phase) <= Position("upload")
    BY <1>1, <1>4 DEF OrderInv, TextInv, Stopped
  <2> QED BY <1>3, <1>7, <2>1 DEF Text, TextOf
<1>11. TypedInv'
  BY <1>1, <1>7 DEF OrderInv, TypedInv
<1>12. WorkInv'
  BY <1>1, <1>4 DEF OrderInv, WorkInv, Broken
<1>13. TextInv'
  <2>1. shown'.phase # "deleted"
    BY <1>1, <1>4 DEF OrderInv, TextInv
  <2> QED BY <1>1, <1>4, <1>7, <1>9, <1>10, <2>1 DEF TextInv
<1> QED BY <1>11, <1>12, <1>13 DEF OrderInv

LEMMA OrderFinish == OrderInv /\ FinishStatus => OrderInv'
<1> SUFFICES ASSUME OrderInv, FinishStatus PROVE OrderInv'
  OBVIOUS
<1>1. /\ main = "finishing" /\ main' = "failing" /\ Enter(Final)
      /\ UNCHANGED <<reports, script, shown, reader, pipe>>
  BY DEF FinishStatus, status, child
<1>2. Final \in UpdateSet /\ TextOf(Final) = Text("failed", 0)
  BY DEF Final, Update, UpdateSet, TextOf
<1>3. TypedInv'
  BY <1>1, <1>2 DEF OrderInv, TypedInv, Enter
<1>4. WorkInv'
  BY <1>1 DEF OrderInv, WorkInv, Broken
<1>5. ASSUME ~Broken PROVE Chain(queue, shown)' /\ shown'.phase # "deleted"
  <2>1. \A x \in Past : Position(x.phase) <= Position("upload") /\ x \in Texts
    BY <1>1, <1>5, PastTexts DEF OrderInv, TextInv, Stopped
  <2>2. \A x \in Past : Before(x, TextOf(Final))
    BY <1>2, <2>1, Positions, TextsHavePositions DEF Before, Text
  <2> QED BY <1>1, <1>2, <1>5, <2>2, Entering DEF OrderInv, TextInv
<1>6. TextInv'
  BY <1>1, <1>5 DEF TextInv, Stopped, Broken
<1> QED BY <1>3, <1>4, <1>6 DEF OrderInv

LEMMA OrderDelete == OrderInv /\ DeleteStatus => OrderInv'
<1> SUFFICES ASSUME OrderInv, DeleteStatus PROVE OrderInv'
  OBVIOUS
<1>1. /\ main = "ready" /\ main' = "done" /\ script' = <<>> /\ script' \in Seq(OpSet)
      /\ shown' \in {shown, Text("deleted", 0)} /\ UNCHANGED <<reports, queue, reader, pipe>>
  BY DEF DeleteStatus, child
<1>2. TypedInv'
  BY <1>1 DEF OrderInv, TypedInv, Text, Texts, PhaseSet
<1>3. WorkInv'
  BY <1>1 DEF OrderInv, WorkInv, Broken
<1>4. TextInv'
  BY <1>1 DEF OrderInv, TextInv, Chain, Stopped, Broken, Text
<1> QED BY <1>2, <1>3, <1>4 DEF OrderInv

LEMMA OrderStops ==
  ASSUME OrderInv, NEW why, StopProgram(why)
  PROVE  OrderInv'
<1>1. /\ main = "child" /\ main' = "killing" /\ UNCHANGED <<script, pipe, reports, queue, shown>>
      /\ reader' = [r \in Readers |-> IF reader[r] = "reading" THEN "none" ELSE reader[r]]
  BY DEF StopProgram, status
<1>2. WorkInv' /\ (Broken => Broken')
  BY <1>1 DEF WorkInv, Broken
<1> QED BY <1>1, <1>2, OrderStill DEF Stopped

LEMMA OrderMain ==
  ASSUME OrderInv, QueueInv, MainStep
  PROVE  OrderInv'
<1>1. CASE ProgramFails \/ Waited \/ Raise
  <2>1. /\ UNCHANGED <<script, pipe, reports, queue, shown, reader>> /\ main \notin Stopped
        /\ main' \in {"finishing", "cancelled"}
    BY <1>1 DEF ProgramFails, Waited, Raise, status, child, Stopped
  <2>2. main = "child" => Broken \/ \A r \in Readers : reader[r] # "reading"
    BY <1>1 DEF ProgramFails, Waited, Raise, Complete, Broken
  <2>3. WorkInv' /\ (Broken => Broken')
    BY <2>1, <2>2 DEF OrderInv, WorkInv, Broken
  <2> QED BY <2>1, <2>3, OrderStill DEF Stopped
<1>2. CASE Sent
  <2>1. /\ main = "sending" /\ main' = "ready" /\ script' = Tail(script)
        /\ UNCHANGED <<queue, shown, reports, pipe, reader>>
    BY <1>2 DEF Sent, status, child
  <2>2. ~Broken /\ \A r \in Readers : reader'[r] \notin {"reading", "broken"}
    BY <2>1 DEF OrderInv, WorkInv, Broken
  <2> QED BY <2>1, <2>2, OrderAdvance
<1> QED BY <1>1, <1>2, OrderStarts, OrderSucceeds, OrderUpdate, OrderSending, OrderDelete, OrderFinish
        DEF MainStep

LEMMA OrderNext == OrderInv /\ QueueInv /\ ProgramInv /\ [Next]_vars => OrderInv'
<1> SUFFICES ASSUME OrderInv, QueueInv, ProgramInv, [Next]_vars PROVE OrderInv'
  OBVIOUS
<1>1. CASE Hold
  <2>1. CASE UNCHANGED <<queue, job>>
    <3>1. UNCHANGED <<main, queue, shown, script, reports, pipe, reader>>
      BY <1>1, <2>1 DEF Hold, job, child
    <3>2. WorkInv' /\ (Broken => Broken')
      BY <3>1 DEF OrderInv, WorkInv, Broken
    <3> QED BY <3>1, <3>2, OrderStill
  <2>2. CASE Leave
    <3>1. queue # <<>> /\ UNCHANGED <<reports, pipe, reader, shown>>
      BY <1>1 DEF Hold, child
    <3> QED BY <2>2, <3>1, OrderLeave
  <2> QED BY <1>1, <2>1, <2>2 DEF Hold
<1>2. CASE Edited \/ Flooded \/ Refused
  <2>1. queue # <<>> /\ Leave /\ UNCHANGED <<reports, pipe, reader>>
    BY <1>2 DEF Edited, Flooded, Refused, Answered, QueueInv, child
  <2>2. shown' = shown \/ (shown' = TextOf(Head(queue)) /\ shown.phase # "deleted")
    BY <1>2 DEF Edited, Flooded, Refused, TextOf
  <2> QED BY <2>1, <2>2, OrderLeave
<1>3. CASE Tick \/ UNCHANGED vars
  <2>1. UNCHANGED <<main, queue, shown, script, reports, pipe, reader>>
    BY <1>3 DEF Tick, vars, job, child, status
  <2>2. WorkInv' /\ (Broken => Broken')
    BY <2>1 DEF OrderInv, WorkInv, Broken
  <2> QED BY <2>1, <2>2, OrderStill
<1>4. CASE Cancel
  <2>1. CASE StopProgram("cancel")
    BY <2>1, OrderStops
  <2>2. CASE LeaveLock /\ main \in {"updating", "failing"} /\ main' = "cancelled"
             /\ UNCHANGED <<script, child, reports>>
    BY <2>2, OrderLeaveLock DEF child
  <2>3. CASE /\ main \in {"ready", "killing", "sending", "finishing"} /\ main' = "cancelled"
             /\ UNCHANGED <<script, child, reports, queue, status>>
    <3>1. UNCHANGED <<queue, shown, script, reports, pipe, reader>>
      BY <2>3 DEF child, status
    <3>2. WorkInv' /\ (Broken => Broken')
      BY <2>3, <3>1 DEF OrderInv, WorkInv, Broken
    <3> QED BY <2>3, <3>1, <3>2, OrderStill DEF Stopped
  <2> QED BY <1>4, <2>1, <2>2, <2>3 DEF Cancel
<1> QED BY <1>1, <1>2, <1>3, <1>4, OrderProgram, OrderMain, OrderUpload, OrderStops DEF Next, Timeout

(* The message shows the reports in the order in which they were made, never an    *)
(* earlier phase or an earlier report of the phase again, although every report    *)
(* has a task of its own that may still wait for the lock when the job has gone    *)
(* on, failed or been cancelled (bot/progress.py update, finish, delete;           *)
(* pipeline/runner.py _ProgressBridge).                                            *)
THEOREM TheMessageKeepsTheOrderOfTheReports == Spec => ShownInOrder
<1>1. OrderInv /\ QueueInv /\ [Next]_vars => [~Broken => Before(shown, shown')]_vars
  <2> SUFFICES ASSUME OrderInv, QueueInv, Next, ~Broken PROVE Before(shown, shown')
    OBVIOUS
  <2>1. shown \in Texts /\ Before(shown, shown)
    BY BeforeIsAnOrder DEF OrderInv, TypedInv
  <2>2. queue # <<>> /\ shown.phase # "deleted" => Before(shown, TextOf(Head(queue)))
    <3> SUFFICES ASSUME queue # <<>>, shown.phase # "deleted"
                 PROVE  Before(shown, TextOf(Head(queue)))
      OBVIOUS
    <3>1. 1 \in 1..Len(queue) /\ Head(queue) = queue[1]
      BY DEF OrderInv, TypedInv
    <3> QED BY <3>1 DEF OrderInv, TextInv, Chain
  <2>3. CASE Edited \/ Refused
    <3>1. shown' = shown \/ (shown' = TextOf(Head(queue)) /\ shown.phase # "deleted")
      BY <2>3 DEF Edited, Refused, TextOf
    <3>2. queue # <<>>
      BY <2>3 DEF Edited, Refused, Answered, QueueInv
    <3> QED BY <2>1, <2>2, <3>1, <3>2
  <2>4. CASE DeleteStatus
    <3>1. Position(shown.phase) <= Position("upload") /\ Position(shown.phase) \in 1..9
      BY <2>1, <2>4, TextsHavePositions DEF DeleteStatus, OrderInv, TextInv, Stopped, Past, PastOf
    <3>2. Before(shown, Text("deleted", 0))
      BY <3>1, Positions DEF Before, Text
    <3> QED BY <2>1, <2>4, <3>2 DEF DeleteStatus
  <2>5. CASE Cancel
    <3>1. shown' = shown \/ (/\ main \in {"updating", "failing"} /\ queue # <<>>
                             /\ shown' = TextOf(Head(queue)))
      BY <2>5 DEF Cancel, StopProgram, LeaveLock, TextOf, status, QueueInv
    <3>2. main \in {"updating", "failing"} => shown.phase # "deleted"
      BY DEF OrderInv, TextInv
    <3> QED BY <2>1, <2>2, <3>1, <3>2
  <2>6. CASE ProgramStep
    BY <2>1, <2>6 DEF ProgramStep, HelperStarts, HelperEnds, LeaderDies, Reap, LeaderExits, Write,
                      Read, EndOfFile, LineTooLong, status
  <2>7. CASE MainStep /\ ~DeleteStatus
    BY <2>1, <2>7 DEF MainStep, StartProgram, ProgramSucceeds, ProgramFails, Waited, StartUpdate,
                      StartSending, Sent, Raise, FinishStatus, status
  <2>8. CASE Hold \/ Flooded \/ Tick \/ UploadProgress \/ Timeout
    BY <2>1, <2>8 DEF Hold, Flooded, Tick, UploadProgress, Timeout, StopProgram, status
  <2> QED BY <2>3, <2>4, <2>5, <2>6, <2>7, <2>8 DEF Next
<1> QED BY <1>1, OrderInit, OrderNext, QueueHolds, ProgramInit, ProgramNext, PTL
        DEF Spec, ShownInOrder

-----------------------------------------------------------------------------
(* Types. *)

(* A job that waits for its update has it in the queue. *)
RangeInv ==
  /\ main \in {"ready", "updating", "child", "killing", "sending", "finishing", "failing"}
                \union Ended
  /\ program.lines \in 0..MaxLines
  /\ pipe \in [Readers -> 0..PipeSize]
  /\ wait <= MinInterval + RetryAfter /\ flood <= RetryAfter
  /\ main \in {"updating", "failing"} => \E i \in 1..Len(queue) : queue[i].mine

LEMMA RangeInit == Init => RangeInv
BY ProgressAssumption DEF Init, RangeInv, NoProgram

LEMMA RangeProgram ==
  ASSUME RangeInv, ProgramInv, OrderInv, ProgramStep
  PROVE  RangeInv'
<1> USE ProgressAssumption
<1>1. CASE HelperStarts \/ HelperEnds \/ LeaderDies \/ Reap \/ \E ok \in BOOLEAN : LeaderExits(ok)
  <2>1. UNCHANGED <<main, queue, pipe, wait, flood>>
    BY <1>1 DEF HelperStarts, HelperEnds, LeaderDies, Reap, LeaderExits, job, status
  <2>2. program'.lines = program.lines
    <3> USE DEF ProgramInv, ProgramSet
    <3>1. CASE HelperStarts
      BY <3>1 DEF HelperStarts
    <3>2. CASE HelperEnds
      BY <3>2 DEF HelperEnds
    <3>3. CASE LeaderDies \/ Reap
      BY <3>3 DEF LeaderDies, Reap
    <3>4. ASSUME NEW ok \in BOOLEAN, LeaderExits(ok) PROVE program'.lines = program.lines
      BY <3>4 DEF LeaderExits
    <3> QED BY <1>1, <3>1, <3>2, <3>3, <3>4
  <2> QED BY <2>1, <2>2 DEF RangeInv
<1>2. ASSUME NEW r \in Readers, Write(r) PROVE RangeInv'
  <2>1. /\ UNCHANGED <<main, queue, wait, flood>> /\ program.lines < MaxLines
        /\ program'.lines = program.lines + 1
        /\ pipe[r] < PipeSize /\ pipe' = [pipe EXCEPT ![r] = @ + 1]
    BY <1>2 DEF Write, job, status, ProgramInv, ProgramSet
  <2>2. pipe' \in [Readers -> 0..PipeSize]
    BY <2>1 DEF RangeInv
  <2> QED BY <2>1, <2>2 DEF RangeInv
<1>3. ASSUME NEW r \in Readers, EndOfFile(r) \/ LineTooLong(r) PROVE RangeInv'
  BY <1>3 DEF EndOfFile, LineTooLong, job, status, RangeInv
<1>4. ASSUME NEW r \in Readers, Read(r) PROVE RangeInv'
  <2>1. /\ UNCHANGED <<main, program, wait, flood>>
        /\ pipe[r] > 0 /\ pipe' = [pipe EXCEPT ![r] = @ - 1]
    BY <1>4 DEF Read, job, status
  <2>2. pipe' \in [Readers -> 0..PipeSize]
    BY <2>1 DEF RangeInv
  <2>3. queue' = queue \/ queue' = Append(queue, Report("download", reports'))
    BY <1>4 DEF Read, Enter
  <2>4. \A i \in 1..Len(queue) : i \in 1..Len(queue') /\ queue'[i] = queue[i]
    BY <2>3, Appended DEF OrderInv, TypedInv
  <2> QED BY <2>1, <2>2, <2>4 DEF RangeInv
<1> QED BY <1>1, <1>2, <1>3, <1>4 DEF ProgramStep

LEMMA RangeLeave ==
  ASSUME RangeInv, OrderInv, queue # <<>>, Leave
  PROVE  /\ main' = main \/ main' \in {"ready", "failed"}
         /\ main' \in {"updating", "failing"} => \E i \in 1..Len(queue') : queue'[i].mine
<1>1. /\ Len(queue') = Len(queue) - 1 /\ Len(queue) \in Nat /\ Head(queue) = queue[1]
      /\ \A i \in 1..Len(queue') : queue'[i] = queue[i + 1]
  BY Served DEF Leave, OrderInv, TypedInv
<1>2. main' = main \/ main' \in {"ready", "failed"}
  BY DEF Leave
<1>3. ASSUME main' \in {"updating", "failing"} PROVE \E i \in 1..Len(queue') : queue'[i].mine
  <2>1. main' = main /\ ~queue[1].mine
    BY <1>1, <1>3 DEF Leave
  <2>2. PICK i \in 1..Len(queue) : queue[i].mine
    BY <1>3, <2>1 DEF RangeInv
  <2>3. i - 1 \in 1..Len(queue') /\ (i - 1) + 1 = i
    BY <1>1, <2>1, <2>2
  <2> QED BY <1>1, <2>2, <2>3
<1> QED BY <1>2, <1>3

LEMMA RangeNext == RangeInv /\ OrderInv /\ QueueInv /\ ProgramInv /\ SpacingInv /\ [Next]_vars => RangeInv'
<1> SUFFICES ASSUME RangeInv, OrderInv, QueueInv, ProgramInv, SpacingInv, [Next]_vars PROVE RangeInv'
  OBVIOUS
<1> USE ProgressAssumption DEF Ended
<1>1. CASE Hold
  <2>1. UNCHANGED <<program, pipe, wait, flood>> /\ queue # <<>>
    BY <1>1 DEF Hold, child
  <2>2. CASE UNCHANGED <<queue, job>>
    BY <2>1, <2>2 DEF RangeInv, job
  <2>3. CASE Leave
    BY <2>1, <2>3, RangeLeave DEF RangeInv
  <2> QED BY <1>1, <2>2, <2>3 DEF Hold
<1>2. CASE Edited \/ Flooded \/ Refused
  <2>1. /\ queue # <<>> /\ Leave /\ UNCHANGED <<program, pipe>>
        /\ wait' <= MinInterval + RetryAfter /\ flood' <= RetryAfter
    BY <1>2 DEF Edited, Flooded, Refused, Answered, QueueInv, child
  <2> QED BY <2>1, RangeLeave DEF RangeInv
<1>3. CASE Tick
  <2>1. /\ wait' = IF wait - 1 >= 0 THEN wait - 1 ELSE 0
        /\ flood' = IF flood - 1 >= 0 THEN flood - 1 ELSE 0
    BY <1>3, MaxOfTwo DEF Tick, SpacingInv
  <2>2. UNCHANGED <<main, queue, program, pipe>>
    BY <1>3 DEF Tick, job, child
  <2> QED BY <2>1, <2>2 DEF RangeInv, SpacingInv
<1>4. CASE ProgramStep
  BY <1>4, RangeProgram
<1>5. CASE StartProgram \/ ProgramSucceeds
  <2>1. /\ main' \in {"child", "ready"} /\ program'.lines = 0 /\ UNCHANGED <<wait, flood>>
        /\ pipe' = pipe \/ pipe' = [r \in Readers |-> 0]
    BY <1>5 DEF StartProgram, ProgramSucceeds, status, NoProgram
  <2> QED BY <2>1 DEF RangeInv
<1>6. CASE ProgramFails \/ Waited \/ Sent \/ Raise \/ StartSending \/ DeleteStatus
  <2>1. /\ main' \in {"finishing", "cancelled", "ready", "sending", "done"}
        /\ UNCHANGED <<program, pipe, wait, flood>>
    BY <1>6 DEF ProgramFails, Waited, Sent, Raise, StartSending, DeleteStatus, child, status
  <2> QED BY <2>1 DEF RangeInv
<1>7. CASE StartUpdate \/ FinishStatus
  <2>1. PICK u : /\ Enter(u) /\ u.mine /\ main' \in {"updating", "failing"}
                 /\ UNCHANGED <<program, pipe, wait, flood>>
    <3>1. CASE FinishStatus
      BY <3>1 DEF FinishStatus, child, status, Final, Update
    <3>2. CASE StartUpdate
      <4>1. script # <<>> /\ Head(script).do = "update" /\ Head(script) \in OpSet
        BY <3>2, TailOps DEF StartUpdate, OrderInv, TypedInv
      <4>2. Head(script).mine
        BY <4>1, UpdatesOfOps
      <4> QED BY <3>2, <4>2 DEF StartUpdate, child, status
    <3> QED BY <1>7, <3>1, <3>2
  <2>2. \E i \in 1..Len(queue') : queue'[i].mine
    <3>1. /\ Len(queue') = Len(queue) + 1 /\ Len(queue) \in Nat
          /\ queue'[Len(queue) + 1] = u
      BY <2>1, Appended DEF Enter, OrderInv, TypedInv
    <3> QED BY <2>1, <3>1
  <2> QED BY <2>1, <2>2 DEF RangeInv
<1>8. CASE UploadProgress
  <2>1. main' = "sending" /\ UNCHANGED <<program, pipe, wait, flood>>
    BY <1>8 DEF UploadProgress, job, child, status
  <2> QED BY <2>1 DEF RangeInv
<1>9. CASE Timeout \/ Cancel
  <2>1. main' \in {"killing", "cancelled"} /\ UNCHANGED <<pipe, wait, flood>>
    BY <1>9 DEF Timeout, Cancel, StopProgram, child, status
  <2>2. program' = program \/ KillTree
    BY <1>9 DEF Timeout, Cancel, StopProgram, child
  <2>3. program'.lines = program.lines
    <3>1. [program EXCEPT !.leader = "exited", !.ok = FALSE, !.helper = FALSE].lines = program.lines
      BY DEF ProgramInv, ProgramSet
    <3>2. \/ program' = program
          \/ program' = [program EXCEPT !.leader = "exited", !.ok = FALSE, !.helper = FALSE]
      BY <2>2, Zenon DEF KillTree
    <3> QED BY <3>1, <3>2, Zenon
  <2> QED BY <2>1, <2>3 DEF RangeInv
<1>10. CASE UNCHANGED vars
  BY <1>10 DEF vars, job, child, status, RangeInv
<1> QED BY <1>1, <1>2, <1>3, <1>4, <1>5, <1>6, <1>7, <1>8, <1>9, <1>10 DEF Next, MainStep

(* Type correctness; in particular the job waits for the lock exactly when one update *)
(* of its own is in the queue (bot/progress.py: async with self._lock).               *)
THEOREM ProgressTypeCorrect == Spec => []TypeOK
<1>1. RangeInv /\ OrderInv /\ QueueInv /\ ProgramInv /\ SpacingInv => TypeOK
  <2> SUFFICES ASSUME RangeInv, OrderInv, QueueInv, ProgramInv, SpacingInv PROVE TypeOK
    OBVIOUS
  <2>1. program \in [leader : {"none", "running", "exited"}, ok : BOOLEAN, reaped : BOOLEAN,
                     helper : BOOLEAN, lines : 0..MaxLines]
    BY DEF ProgramInv, ProgramSet, RangeInv
  <2>2. DOMAIN queue = 1..Len(queue)
    BY DEF OrderInv, TypedInv
  <2>3. \A i \in DOMAIN queue : queue[i].phase \in Range(Phases)
    <3>1. JobPhases \union {"failed"} \subseteq Range(Phases)
      <4>1. DOMAIN Phases = 1..9
        BY DEF Phases
      <4>2. \A i \in 1..9 : Phases[i] \in Range(Phases)
        BY <4>1 DEF Range
      <4>3. /\ Phases[2] = "fetch" /\ Phases[3] = "download" /\ Phases[4] = "split"
            /\ Phases[5] = "tag" /\ Phases[6] = "package" /\ Phases[7] = "upload"
            /\ Phases[8] = "failed"
        BY DEF Phases
      <4> HIDE DEF Phases
      <4>4. {2, 3, 4, 5, 6, 7, 8} \subseteq 1..9
        OBVIOUS
      <4> QED BY <4>2, <4>3, <4>4 DEF JobPhases
    <3>2. \A i \in 1..Len(queue) : queue[i] \in UpdateSet
      BY DEF OrderInv, TypedInv
    <3>3. \A u \in UpdateSet : u.phase \in JobPhases \union {"failed"}
      BY DEF UpdateSet
    <3> QED BY <2>2, <3>1, <3>2, <3>3
  <2>4. Cardinality({i \in DOMAIN queue : queue[i].mine}) =
          IF main \in {"updating", "failing"} THEN 1 ELSE 0
    <3>1. CASE main \in {"updating", "failing"}
      <4>1. PICK k \in 1..Len(queue) : queue[k].mine
        BY <3>1 DEF RangeInv
      <4>2. {i \in DOMAIN queue : queue[i].mine} = {k}
        BY <2>2, <4>1 DEF QueueInv
      <4> QED BY <3>1, <4>2, FS_Singleton
    <3>2. CASE main \notin {"updating", "failing"}
      <4>1. {i \in DOMAIN queue : queue[i].mine} = {}
        BY <2>2, <3>2 DEF QueueInv
      <4> QED BY <3>2, <4>1, FS_EmptySet
    <3> QED BY <3>1, <3>2
  <2>5. wait \in 0..(MinInterval + RetryAfter) /\ flood \in 0..RetryAfter /\ quiet \in 0..MinInterval
    BY ProgressAssumption DEF SpacingInv, RangeInv
  <2> QED BY <2>1, <2>3, <2>4, <2>5 DEF TypeOK, RangeInv, QueueInv, ProgramInv
<1> QED BY <1>1, RangeInit, RangeNext, OrderInit, OrderNext, QueueHolds, ProgramInit, ProgramNext,
           SpacingInit, SpacingNext, PTL DEF Spec

=============================================================================
