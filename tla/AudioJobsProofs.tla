--------------------------- MODULE AudioJobsProofs ---------------------------
(***************************************************************************)
(* Proofs about AudioJobs, for any set of media, any number of tracks of   *)
(* any sizes, any budget and any number of jobs, purges and crashes.       *)
(***************************************************************************)
EXTENDS AudioJobs, DataInduction

(* The part of TypeOK that the arguments about the entries need. *)
Shape ==
  /\ up \in BOOLEAN
  /\ disk \in [Places -> Dir]
  /\ removing \subseteq Places
  /\ pc \in WorkerPc /\ key \in Keys
  /\ jobs \in Nat /\ gone \in BOOLEAN
  /\ broken \subseteq Keys
  /\ ~up => pc = "idle"
  /\ pc # "idle" => jobs > 0

(* Where a commit has a staging directory of its own. *)
Staged == {"write", "torn", "clear"}

(* While the loop is inside commit nothing is being removed but an older staging *)
(* directory or the old entry, and the staging directory has what the commit has *)
(* come to.                                                                      *)
CommitInv ==
  /\ pc = "stage" => removing \subseteq {Staging(key)}
  /\ pc \in {"write", "torn"} => removing = {}
  /\ pc = "clear" => removing \subseteq {Final(key)}
  /\ pc \in Staged => disk[Staging(key)].files = [t \in Tracks |-> jobs]
  /\ pc = "write" => disk[Staging(key)].manifest = 0
  /\ pc = "torn" => disk[Staging(key)].manifest = Torn
  /\ pc = "clear" => disk[Staging(key)].manifest = jobs

(* A manifest that can be read vouches for the files of its own build, in a *)
(* staging directory too: that is what commit is about to publish.          *)
WholeInv ==
  \A p \in Places : Valid(disk[p]) =>
    /\ \A t \in Tracks : disk[p].files[t] = disk[p].manifest
    /\ disk[p].manifest <= jobs

(* What is neither empty nor a whole entry is being removed or committed, or is what *)
(* a failed commit has left.                                                         *)
SweptInv ==
  up => \A p \in Places :
    \/ disk[p] = Empty
    \/ p \in removing
    \/ p[1] = "final" /\ Valid(disk[p])
    \/ pc \in Staged /\ p = Staging(key)
    \/ p[1] = "staging" /\ p[2] \in broken
-----------------------------------------------------------------------------
LEMMA EmptyIsDir == Empty \in Dir /\ ~Valid(Empty)
BY DEF Empty, Dir, Valid, Builds

LEMMA WithoutIsDir ==
  ASSUME NEW d \in Dir, NEW f \in Pieces(d)
  PROVE  Without(d, f) \in Dir /\ ~Valid(Without(d, f))
<1>0. AlbumAssumption
  BY AlbumAssumption
<1>1. CASE f = 0
  BY <1>1 DEF Without, Dir, Valid, Builds
<1>2. CASE f # 0
  <2>1. f \in Tracks
    BY <1>2 DEF Pieces, TracksOf
  <2>2. Without(d, f) = [d EXCEPT !.files[f] = 0]
    BY <1>2 DEF Without
  <2> QED BY <2>1, <2>2 DEF Dir, Valid
<1> QED BY <1>1, <1>2

LEMMA NoPieces ==
  ASSUME NEW d \in Dir, Pieces(d) = {}
  PROVE  d = Empty
<1>1. d.manifest = 0
  BY DEF Pieces
<1>2. \A t \in Tracks : d.files[t] = 0
  BY DEF Pieces, TracksOf
<1>3. d.files = [t \in Tracks |-> 0]
  BY <1>2 DEF Dir
<1> QED BY <1>1, <1>3 DEF Dir, Empty

(* What a purge does, whichever command asks for it. *)
Purging(S) == Purge(S, {}) \/ Purge(S, Leftovers)

LEMMA PurgesAre ==
  PurgeAll \/ (\E k \in Keys : PurgeNamed(k)) => \E S \in SUBSET Keys : Purging(S)
<1>1. Cached \subseteq Keys
  BY DEF Cached
<1> QED BY <1>1 DEF PurgeAll, PurgeNamed, Purging

LEMMA PlacesOf == \A k \in Keys : Final(k) \in Places /\ Staging(k) \in Places
BY DEF Final, Staging, Places

LEMMA ShapeNext == Shape /\ [Next]_vars => Shape'
<1> SUFFICES ASSUME Shape, [Next]_vars PROVE Shape'
  OBVIOUS
<1> USE PlacesOf DEF Shape
<1>1. ASSUME NEW k \in Keys, StartJob(k) PROVE Shape'
  <2>1. /\ pc' \in WorkerPc /\ up' = up /\ up /\ jobs' = jobs + 1 /\ gone' = FALSE
        /\ broken' = broken
    BY <1>1 DEF StartJob, Goto, LoopFree, WorkerPc
  <2>2. disk' = disk /\ removing' = removing /\ key' = k
    BY <1>1 DEF StartJob
  <2>3. jobs' \in Nat /\ jobs' > 0
    BY <2>1
  <2>4. disk' \in [Places -> Dir] /\ removing' \subseteq Places /\ key' \in Keys
    BY <2>2
  <2> QED BY <2>1, <2>3, <2>4
<1>2. CASE Lookup
  BY <1>2 DEF Lookup, Get, Present, Goto, LoopFree, WorkerPc, job, history
<1>3. ASSUME NEW k \in Keys, Resolve(k) PROVE Shape'
  BY <1>3 DEF Resolve, Get, Present, Goto, LoopFree, WorkerPc, history
<1>3a. CASE BeginCommit
  BY <1>3a DEF BeginCommit, StillBroken, Present, Goto, LoopFree, WorkerPc, job
<1>3b. CASE CommitRaises
  BY <1>3b DEF CommitRaises, Fail, Goto, WorkerPc, job
<1>4. CASE Stage
  <2>1. Cut(jobs) \in Dir
    BY DEF Cut, Dir
  <2> QED BY <1>4, <2>1 DEF Stage, Goto, WorkerPc, job, history
<1>5. CASE WriteManifest
  <2>1. jobs \in Builds
    BY <1>5 DEF WriteManifest, Builds
  <2> DEFINE s == Staging(key)
  <2>2. \A m \in Builds \union {0, Torn} : [disk EXCEPT ![s].manifest = m] \in [Places -> Dir]
    BY DEF Dir
  <2> QED BY <1>5, <2>1, <2>2 DEF WriteManifest, Present, Goto, WorkerPc, job, history
<1>6. CASE Publish
  BY <1>6, EmptyIsDir DEF Publish, Goto, WorkerPc, history
<1>7. CASE PackNext
  BY <1>7 DEF PackNext, history
<1>8. CASE EndPackage
  BY <1>8 DEF EndPackage, Goto, LoopFree, WorkerPc, history
<1>9. CASE SendArchive
  BY <1>9 DEF SendArchive, TooLarge, Deliver, Fail, Goto, LoopFree, WorkerPc
<1>10. CASE SendTrack
  BY <1>10 DEF SendTrack, TooLarge, Deliver, Fail, Goto, LoopFree, WorkerPc
<1>11. CASE SendLink
  BY <1>11 DEF SendLink, Deliver, Fail, Goto, LoopFree, WorkerPc
<1>12. CASE Raise
  BY <1>12 DEF Raise, Fail, Goto, LoopFree, WorkerPc
<1>13. CASE Record
  BY <1>13 DEF Record, Goto, LoopFree, WorkerPc, job
<1>14. CASE ReadTotal
  BY <1>14 DEF ReadTotal, Goto, LoopFree, WorkerPc, job, history
<1>15. CASE ReadOrder
  BY <1>15 DEF ReadOrder, Goto, LoopFree, WorkerPc, history
<1>16. CASE Evict
  <2>1. removing' \subseteq Places
    BY <1>16 DEF Evict, Delete, Present, Walked
  <2>2. broken' \subseteq Keys /\ pc' = "forget" /\ pc # "idle"
    BY <1>16 DEF Evict, StillBroken, Goto
  <2> QED BY <1>16, <2>1, <2>2 DEF Evict, LoopFree, WorkerPc
<1>17. CASE Forget
  BY <1>17 DEF Forget, Goto, LoopFree, WorkerPc, history
<1>18. ASSUME NEW p \in Places, RemoveFile(p) PROVE Shape'
  <2>1. PICK f \in Pieces(disk[p]) : disk' = [disk EXCEPT ![p] = Without(disk[p], f)]
    BY <1>18 DEF RemoveFile
  <2>2. disk' \in [Places -> Dir]
    BY <2>1, WithoutIsDir
  <2>3. removing' \subseteq Places
    BY <1>18 DEF RemoveFile
  <2> QED BY <1>18, <2>2, <2>3 DEF RemoveFile, job, history
<1>19. ASSUME NEW S \in SUBSET Keys, Purging(S) PROVE Shape'
  <2>1. removing' \subseteq Places /\ broken' \subseteq Keys
    BY <1>19 DEF Purging, Purge, Delete, Present, Leftovers, StillBroken
  <2> QED BY <1>19, <2>1 DEF Purging, Purge, LoopFree, InUse, job
<1>20. CASE PurgeForget
  BY <1>20 DEF PurgeForget, job, history
<1>21. CASE Crash
  BY <1>21 DEF Crash, WorkerPc, history
<1>22. CASE Restart
  BY <1>22 DEF Restart, Leftovers, Present, job, history
<1>23. CASE UNCHANGED vars
  BY <1>23 DEF vars, job, history
<1> QED
  <2> HIDE DEF Shape
  <2> QED BY PurgesAre, <1>1, <1>2, <1>3, <1>3a, <1>3b, <1>4, <1>5, <1>6, <1>7, <1>8, <1>9, <1>10, <1>11, <1>12, <1>13,
       <1>14, <1>15, <1>16, <1>17, <1>18, <1>19, <1>20, <1>21, <1>22, <1>23
   DEF Next, WorkerStep

LEMMA ShapeInit == Init => Shape
<1> SUFFICES ASSUME Init PROVE Shape
  OBVIOUS
<1>1. disk \in [Places -> Dir]
  BY EmptyIsDir DEF Init
<1>2. pc = "idle" /\ pc \in WorkerPc /\ jobs = 0 /\ removing = {} /\ key \in Keys
  BY DEF Init, WorkerPc
<1>3. up = TRUE /\ gone = FALSE /\ broken = {}
  BY DEF Init
<1> QED BY <1>1, <1>2, <1>3 DEF Shape

LEMMA CommitNext == Shape /\ CommitInv /\ [Next]_vars => CommitInv'
<1> SUFFICES ASSUME Shape, CommitInv, [Next]_vars PROVE CommitInv'
  OBVIOUS
<1>s. Shape'
  BY ShapeNext
<1> USE PlacesOf DEF CommitInv, Staged
<1>1. CASE Stage
  <2>1. disk'[Staging(key)] = Cut(jobs) /\ removing = {} /\ pc' = "write"
    BY <1>1 DEF Stage, Goto, Shape
  <2> QED BY <1>1, <2>1 DEF Stage, Cut, job
<1>1a. CASE BeginCommit
  BY <1>1a DEF BeginCommit, Goto, Present, job
<1>2. CASE WriteManifest
  <2>1. CASE pc = "write"
    <3>1. disk' = [disk EXCEPT ![Staging(key)].manifest = Torn] /\ pc' = "torn"
      BY <1>2, <2>1 DEF WriteManifest, Goto
    <3>2. /\ disk'[Staging(key)].manifest = Torn
          /\ disk'[Staging(key)].files = disk[Staging(key)].files
      BY <3>1 DEF Shape, Dir
    <3> QED BY <1>2, <2>1, <3>1, <3>2 DEF WriteManifest, job
  <2>2. CASE pc = "torn"
    <3>1. /\ disk' = [disk EXCEPT ![Staging(key)].manifest = jobs] /\ pc' = "clear"
          /\ removing' \subseteq {Final(key)}
      BY <1>2, <2>2 DEF WriteManifest, Goto, Present
    <3>2. /\ disk'[Staging(key)].manifest = jobs
          /\ disk'[Staging(key)].files = disk[Staging(key)].files
      BY <3>1 DEF Shape, Dir
    <3> QED BY <1>2, <2>2, <3>1, <3>2 DEF WriteManifest, job
  <2> QED BY <1>2, <2>1, <2>2 DEF WriteManifest
<1>3. ASSUME NEW p \in Places, RemoveFile(p) PROVE CommitInv'
  <2>1. pc' = pc /\ key' = key /\ jobs' = jobs /\ removing' \subseteq removing /\ p \in removing
    BY <1>3 DEF RemoveFile, job
  <2>2. pc \in Staged => p # Staging(key)
    BY <2>1 DEF Final, Staging
  <2>3. pc \in Staged => disk'[Staging(key)] = disk[Staging(key)]
    BY <1>3, <2>2 DEF RemoveFile, Shape
  <2> QED BY <2>1, <2>3
<1>4. ASSUME pc' \notin Holding PROVE CommitInv'
  BY <1>4 DEF Holding
<1>5. ASSUME UNCHANGED <<disk, removing, pc, key, jobs>> PROVE CommitInv'
  BY <1>5
<1>6. CASE \/ \E k \in Keys : StartJob(k) \/ Resolve(k)
           \/ Lookup \/ Publish \/ PackNext \/ EndPackage
  <2>1. pc' \notin Holding \/ UNCHANGED <<disk, removing, pc, key, jobs>>
    BY <1>6 DEF StartJob, Resolve, Lookup, Get, Publish, PackNext, EndPackage, Goto, Holding
  <2> QED BY <2>1, <1>4, <1>5
<1>7. CASE SendArchive \/ SendTrack \/ SendLink \/ Raise \/ CommitRaises
  <2>1. pc' \notin Holding \/ UNCHANGED <<disk, removing, pc, key, jobs>>
    BY <1>7 DEF SendArchive, SendTrack, SendLink, TooLarge, Deliver, Fail, Raise, CommitRaises,
                Goto, Holding
  <2> QED BY <2>1, <1>4, <1>5
<1>8. CASE Record \/ ReadTotal \/ ReadOrder \/ Evict \/ Forget
  <2>1. pc' \notin Holding
    BY <1>8 DEF Record, ReadTotal, ReadOrder, Evict, Forget, Goto, Holding
  <2> QED BY <2>1, <1>4
<1>9. CASE (\E S \in SUBSET Keys : Purging(S)) \/ PurgeForget \/ Crash \/ Restart
  <2>1. pc' \notin Holding
    BY <1>9 DEF Purging, Purge, PurgeForget, Crash, Restart, Shape, LoopFree, Holding
  <2> QED BY <2>1, <1>4
<1>10. CASE UNCHANGED vars
  BY <1>10, <1>5 DEF vars, job
<1> QED BY PurgesAre, <1>1, <1>1a, <1>2, <1>3, <1>6, <1>7, <1>8, <1>9, <1>10
    DEF Next, WorkerStep

LEMMA WholeNext == Shape /\ CommitInv /\ WholeInv /\ [Next]_vars => WholeInv'
<1> SUFFICES ASSUME Shape, CommitInv, WholeInv, [Next]_vars PROVE WholeInv'
  OBVIOUS
<1> USE PlacesOf
<1>1. CASE Stage
  <2>1. disk' = [disk EXCEPT ![Staging(key)] = Cut(jobs)] /\ jobs' = jobs
    BY <1>1 DEF Stage, job
  <2>2. ~Valid(Cut(jobs))
    BY DEF Cut, Valid, Builds
  <2> QED BY <2>1, <2>2 DEF WholeInv, Shape
<1>2. CASE WriteManifest
  <2> DEFINE d == disk'[Staging(key)]
  <2>1. CASE pc = "write"
    <3>1. disk' = [disk EXCEPT ![Staging(key)].manifest = Torn] /\ jobs' = jobs
      BY <1>2, <2>1 DEF WriteManifest, job
    <3>2. d.manifest = Torn
      BY <3>1 DEF Shape, Dir
    <3>3. ~Valid(d)
      BY <3>2 DEF Valid, Builds, Torn
    <3> QED BY <3>1, <3>3 DEF WholeInv, Shape
  <2>2. CASE pc = "torn"
    <3>1. disk' = [disk EXCEPT ![Staging(key)].manifest = jobs] /\ jobs' = jobs
      BY <1>2, <2>2 DEF WriteManifest, job
    <3>2. d.manifest = jobs /\ d.files = [t \in Tracks |-> jobs]
      BY <3>1, <2>2 DEF Shape, Dir, CommitInv, Staged
    <3>3. (\A t \in Tracks : d.files[t] = d.manifest) /\ d.manifest <= jobs
      BY <3>2 DEF Shape
    <3> QED BY <3>1, <3>3 DEF WholeInv, Shape
  <2> QED BY <1>2, <2>1, <2>2 DEF WriteManifest
<1>3. CASE Publish
  <2>1. disk' = [disk EXCEPT ![Final(key)] = disk[Staging(key)], ![Staging(key)] = Empty]
    BY <1>3 DEF Publish
  <2>2. \A p \in Places : disk'[p] \in {disk[p], disk[Staging(key)], Empty}
    BY <2>1 DEF Shape
  <2>3. jobs' = jobs /\ ~Valid(Empty)
    BY <1>3, EmptyIsDir DEF Publish
  <2> QED BY <2>2, <2>3 DEF WholeInv, Shape
<1>4. ASSUME NEW p \in Places, RemoveFile(p) PROVE WholeInv'
  <2>1. PICK f \in Pieces(disk[p]) : disk' = [disk EXCEPT ![p] = Without(disk[p], f)]
    BY <1>4 DEF RemoveFile
  <2>2. ~Valid(disk'[p])
    BY <2>1, WithoutIsDir DEF Shape
  <2>3. jobs' = jobs /\ \A q \in Places \ {p} : disk'[q] = disk[q]
    BY <1>4, <2>1 DEF RemoveFile, job, Shape
  <2> QED BY <2>2, <2>3 DEF WholeInv
<1>5. ASSUME disk' = disk, jobs' \in Nat, jobs' >= jobs PROVE WholeInv'
  <2>1. \A p \in Places : Valid(disk[p]) => disk[p].manifest \in Nat
    BY DEF Valid, Builds
  <2>2. \A p \in Places : Valid(disk[p]) => disk[p].manifest <= jobs'
    BY <1>5, <2>1 DEF WholeInv, Shape
  <2> QED BY <1>5, <2>2 DEF WholeInv
<1>6. \/ disk' = disk /\ jobs' \in Nat /\ jobs' >= jobs
      \/ Stage \/ WriteManifest \/ Publish \/ \E p \in Places : RemoveFile(p)
  <2>1. CASE \E k \in Keys : StartJob(k)
    BY <2>1 DEF StartJob, Shape
  <2>2. CASE disk' = disk /\ jobs' = jobs
    BY <2>2 DEF Shape
  <2>3. \/ \E k \in Keys : StartJob(k)
        \/ disk' = disk /\ jobs' = jobs
        \/ Stage \/ WriteManifest \/ Publish \/ \E p \in Places : RemoveFile(p)
    BY PurgesAre
       DEF Next, Purging,
           WorkerStep, vars, job, Lookup, Resolve, BeginCommit, CommitRaises, PackNext, EndPackage,
           SendArchive, SendTrack, SendLink, Raise, Record, ReadTotal, ReadOrder, Evict, Forget,
           Purge, PurgeForget, Crash, Restart
  <2> QED BY <2>1, <2>2, <2>3
<1> QED BY <1>1, <1>2, <1>3, <1>4, <1>5, <1>6

LEMMA SweptNext ==
  Shape /\ CommitInv /\ SweptInv /\ [Next]_vars => SweptInv'
<1> SUFFICES ASSUME Shape, CommitInv, SweptInv, [Next]_vars PROVE SweptInv'
  OBVIOUS
<1> USE PlacesOf
<1>1. CASE Stage
  <2>1. /\ disk' = [disk EXCEPT ![Staging(key)] = Cut(jobs)] /\ key' = key
        /\ pc' = "write" /\ removing' = removing /\ pc \notin Staged /\ up /\ broken' = broken
    BY <1>1 DEF Stage, Goto, job, history, Staged
  <2> QED BY <2>1 DEF SweptInv, Shape, Staged
<1>1a. CASE BeginCommit
  <2>1. /\ removing = {} /\ pc \notin Staged /\ up /\ disk' = disk
        /\ removing' = Present({Staging(key)}) /\ broken' = {k \in broken : Staging(k) \notin removing'}
    BY <1>1a DEF BeginCommit, StillBroken, LoopFree, Holding, Staged
  <2> QED BY <2>1 DEF SweptInv, Places, Staging
<1>1b. CASE CommitRaises
  <2>1. /\ pc \in Holding /\ key \in Keys /\ UNCHANGED <<disk, removing, up>>
        /\ broken' = IF pc = "stage" THEN broken ELSE broken \union {key}
    BY <1>1b DEF CommitRaises, Shape
  <2> QED BY <2>1 DEF SweptInv, Holding, Staged, Staging
<1>2. CASE WriteManifest
  <2>1. /\ key' = key /\ pc \in Staged /\ pc' \in Staged /\ removing = {} /\ up
        /\ broken' = broken
        /\ \A p \in Places : p # Staging(key) => disk'[p] = disk[p]
    BY <1>2 DEF WriteManifest, Goto, job, history, Staged, CommitInv, Shape
  <2> QED BY <2>1 DEF SweptInv
<1>3. CASE Publish
  <2>1. /\ disk' = [disk EXCEPT ![Final(key)] = disk[Staging(key)], ![Staging(key)] = Empty]
        /\ pc = "clear" /\ removing = {} /\ up /\ broken' = broken
    BY <1>3 DEF Publish, history
  <2>2. disk[Staging(key)].manifest = jobs /\ disk[Staging(key)].files = [t \in Tracks |-> jobs]
    BY <2>1 DEF CommitInv, Staged
  <2>3. Valid(disk[Staging(key)])
    BY <2>1, <2>2 DEF Valid, Builds, Shape
  <2>4. Final(key)[1] = "final" /\ Final(key) # Staging(key)
    BY DEF Final, Staging
  <2>5. /\ disk'[Staging(key)] = Empty
        /\ disk'[Final(key)] = disk[Staging(key)]
        /\ \A p \in Places \ {Staging(key), Final(key)} : disk'[p] = disk[p]
    BY <2>1, <2>4 DEF Shape
  <2> QED BY <2>1, <2>3, <2>4, <2>5 DEF SweptInv
<1>4. ASSUME NEW p \in Places, RemoveFile(p) PROVE SweptInv'
  <2>1. PICK f \in Pieces(disk[p]) :
          LET left == Without(disk[p], f)
          IN  /\ disk' = [disk EXCEPT ![p] = left]
              /\ removing' = IF Pieces(left) = {} THEN removing \ {p} ELSE removing
    BY <1>4 DEF RemoveFile
  <2>2. pc' = pc /\ key' = key /\ up' = up /\ broken' = broken
    BY <1>4 DEF RemoveFile, job, history
  <2>3. p \in removing' \/ disk'[p] = Empty
    <3>1. Without(disk[p], f) \in Dir /\ disk'[p] = Without(disk[p], f)
      BY <2>1, WithoutIsDir DEF Shape
    <3> QED BY <1>4, <2>1, <3>1, NoPieces DEF RemoveFile
  <2>4. \A q \in Places \ {p} : disk'[q] = disk[q] /\ (q \in removing => q \in removing')
    BY <2>1 DEF Shape
  <2> QED BY <2>2, <2>3, <2>4 DEF SweptInv
<1>5. CASE Restart
  BY <1>5 DEF Restart, Leftovers, Present, SweptInv, Places
<1>6. CASE ~up'
  BY <1>6 DEF SweptInv
<1>7. ASSUME disk' = disk, removing \subseteq removing', up' = up, broken' = broken,
             pc' \notin Staged, pc \notin Staged
      PROVE  SweptInv'
  BY <1>7 DEF SweptInv
<1>8. ASSUME UNCHANGED <<disk, removing, up, pc, key, broken>> PROVE SweptInv'
  BY <1>8 DEF SweptInv
<1> USE DEF Holding, Staged, history
<1>9. CASE \/ \E k \in Keys : StartJob(k) \/ Resolve(k)
           \/ Lookup \/ PackNext \/ EndPackage
  <2>1. \/ disk' = disk /\ removing \subseteq removing' /\ up' = up /\ broken' = broken
           /\ pc' \notin Staged /\ pc \notin Staged
        \/ UNCHANGED <<disk, removing, up, pc, key, broken>>
    BY <1>9 DEF StartJob, Resolve, Lookup, Get, LoopFree, PackNext, EndPackage, Goto
  <2> QED BY <2>1, <1>7, <1>8
<1>10. CASE SendArchive \/ SendTrack \/ SendLink \/ Raise
  <2>1. /\ disk' = disk /\ removing' = removing /\ up' = up /\ broken' = broken
        /\ pc' \notin Staged /\ pc \notin Staged
    BY <1>10 DEF SendArchive, SendTrack, SendLink, TooLarge, Deliver, Fail, Raise, Goto,
              LoopFree
  <2> QED BY <2>1, <1>7
<1>11. CASE Record \/ ReadTotal \/ ReadOrder \/ Forget \/ PurgeForget
  <2>1. /\ disk' = disk /\ removing \subseteq removing' /\ up' = up /\ broken' = broken
        /\ pc' \notin Staged /\ pc \notin Staged
    BY <1>11 DEF Record, ReadTotal, ReadOrder, Forget, PurgeForget, Goto, LoopFree
  <2> QED BY <2>1, <1>7
<1>12. CASE Evict \/ \E S \in SUBSET Keys : Purging(S)
  <2>1. /\ disk' = disk /\ removing = {} /\ up' = up /\ broken' = StillBroken
        /\ pc' \notin Staged /\ pc \notin Staged
    BY <1>12 DEF Evict, Purging, Purge, Goto, LoopFree
  <2> QED BY <2>1 DEF SweptInv, StillBroken, Places, Staging
<1>13. CASE Crash
  BY <1>13, <1>6 DEF Crash
<1>14. CASE UNCHANGED vars
  BY <1>14, <1>8 DEF vars, job
<1> QED BY PurgesAre, <1>1, <1>1a, <1>1b, <1>2, <1>3, <1>4, <1>5, <1>9, <1>10, <1>11, <1>12,
           <1>13, <1>14
        DEF Next, WorkerStep

LEMMA CacheCorrect == Spec => [](Shape /\ CommitInv /\ WholeInv /\ SweptInv)
<1>1. Init => CommitInv /\ WholeInv /\ SweptInv
  <2> SUFFICES ASSUME Init PROVE CommitInv /\ WholeInv /\ SweptInv
    OBVIOUS
  <2>1. pc = "idle" /\ removing = {} /\ \A p \in Places : disk[p] = Empty
    BY DEF Init
  <2> QED BY <2>1, EmptyIsDir DEF CommitInv, WholeInv, SweptInv, Staged
<1> QED BY <1>1, ShapeInit, ShapeNext, CommitNext, WholeNext, SweptNext, PTL DEF Spec

(* A directory that the cache would serve holds every track, all of one build, at *)
(* every system call of commit and of rmtree and after a crash at any of them     *)
(* (cache/store.py commit, get, remove and sweep).                                *)
THEOREM CacheServesWholeEntries == Spec => []EntriesAreWhole
<1>1. Shape /\ WholeInv => EntriesAreWhole
  BY PlacesOf DEF EntriesAreWhole, WholeInv, Entry
<1> QED BY <1>1, CacheCorrect, PTL

(* Whenever a handler may look at the cache, it holds whole entries and, of the   *)
(* commits that failed since the start, staging directories: the start-up sweep,  *)
(* the removals and the next commit of a key leave no remains of a crash, and no  *)
(* final directory is ever half made (cache/store.py commit, delete and sweep).   *)
THEOREM NothingHalfMadeIsSeen == Spec => []NothingHalfMade
<1>1. Shape /\ SweptInv => NothingHalfMade
  BY DEF NothingHalfMade, SweptInv, LoopFree, Holding, Staged
<1> QED BY <1>1, CacheCorrect, PTL

-----------------------------------------------------------------------------
(***************************************************************************)
(* A delivery is complete.  Without an archive the file server is given    *)
(* the first track only (RefusedIsLinked), so that album tracks are sent   *)
(* one by one is excluded.                                                 *)
(***************************************************************************)
Early == {"lookup", "fetch", "download", "stage", "write", "torn", "clear"}

Album(b) == Tracks \X {b}
UpTo(n, b) == {t \in Tracks : t < n} \X {b}
Packed(b) == IF Zipped THEN Album(b) ELSE {}

(* What the archive and the chat hold so far, when the entry is of build b. *)
Progress(b) ==
  /\ pc = "package" => sent = {} /\ archive = IF Zipped THEN UpTo(next, b) ELSE {}
  /\ pc = "package" /\ ~Zipped => next = 1
  /\ pc \in {"send", "tracks", "link"} => archive = Packed(b)
  /\ pc = "send" => sent = {}
  /\ pc = "tracks" => sent = Packed(b) \union UpTo(next, b)
  /\ pc = "link" => sent \subseteq Album(b)

NextTrack == (pc = "send" => next = 1) /\ (pc = "tracks" => next \in Tracks)

DeliveryInv ==
  /\ next \in 1..(NTracks + 1)
  /\ NextTrack
  /\ pc \in Early => archive = {} /\ sent = {} /\ next = 1 /\ ~gone
  /\ InUse /\ ~gone => /\ Valid(Entry(key)) /\ Final(key) \notin removing
                       /\ Progress(Entry(key).manifest)
  /\ DeliveredWhole

LEMMA UpToAll ==
  ASSUME NEW b
  PROVE  UpTo(1, b) = {} /\ UpTo(NTracks + 1, b) = Album(b)
<1>1. {t \in Tracks : t < 1} = {} /\ {t \in Tracks : t < NTracks + 1} = Tracks
  BY AlbumAssumption DEF Tracks
<1> QED BY <1>1 DEF UpTo, Album

LEMMA UpToNext ==
  ASSUME NEW b, NEW n \in Tracks
  PROVE  UpTo(n + 1, b) = UpTo(n, b) \union {<<n, b>>}
<1>1. {t \in Tracks : t < n + 1} = {t \in Tracks : t < n} \union {n}
  BY AlbumAssumption DEF Tracks
<1> QED BY <1>1 DEF UpTo

(* A hit, or a new entry: the job starts on an entry that is whole. *)
LEMMA StartsOnEntry ==
  ASSUME pc' = "package", Valid(Entry(key)'), removing' = {}, ~gone',
         sent' = {}, archive' = {}, next' = 1
  PROVE  DeliveryInv'
<1>1. archive' = (IF Zipped THEN UpTo(next, Entry(key).manifest) ELSE {})'
  BY UpToAll
<1> QED BY <1>1, AlbumAssumption DEF DeliveryInv, NextTrack, Progress, DeliveredWhole, InUse, Early

(* What stays true when the worker's step only concerns the transfer. *)
TransferFrame ==
  /\ UNCHANGED <<disk, removing, key, jobs, gone>>
  /\ next' \in 1..(NTracks + 1) /\ NextTrack'

LEMMA TransferStep ==
  ASSUME Shape, WholeInv, DeliveryInv, TransferFrame, InUse,
         pc' \in {"package", "send", "tracks", "link", "delivered", "idle"},
         ~gone => /\ pc' # "delivered" => Progress(Entry(key).manifest)'
                  /\ pc' = "delivered" => sent' = Album(Entry(key).manifest)
  PROVE  DeliveryInv'
<1>1. pc' \notin Early
  BY DEF Early
<1>2. InUse' /\ ~gone' =>
        Valid(Entry(key))' /\ (Final(key) \notin removing)' /\ Progress(Entry(key).manifest)'
  BY DEF TransferFrame, DeliveryInv, InUse, Entry
<1>3. DeliveredWhole'
  <2> SUFFICES ASSUME pc' = "delivered", ~gone PROVE \E b \in 1..jobs : sent' = Tracks \X {b}
    BY DEF DeliveredWhole, TransferFrame
  <2>1. Valid(Entry(key))
    BY DEF DeliveryInv
  <2>2. Entry(key).manifest \in 1..jobs
    BY <2>1, PlacesOf DEF Valid, Builds, WholeInv, Entry, Shape
  <2> QED BY <2>2 DEF Album
<1> QED BY <1>1, <1>2, <1>3 DEF DeliveryInv, TransferFrame

(* Of the whole entries a purge removes those of its keys only. *)
LEMMA PurgedIs ==
  ASSUME NEW S \in SUBSET Keys, Purging(S)
  PROVE  \A k \in Keys : Final(k) \in removing' /\ Valid(Entry(k)) => k \in S
<1>1. \A k \in Keys : Final(k) \in Leftovers => ~Valid(Entry(k))
  BY DEF Leftovers, Final, Entry
<1>2. \A k \in Keys : Final(k) \in Delete(S) => k \in S
  BY DEF Delete, Present, Final, Staging
<1> QED BY <1>1, <1>2 DEF Purging, Purge

LEMMA DeliveryNext ==
  ASSUME NTracks = 1 \/ MultiDelivery # "individual"
  PROVE  Shape /\ CommitInv /\ WholeInv /\ DeliveryInv /\ [Next]_vars => DeliveryInv'
<1> SUFFICES ASSUME Shape, CommitInv, WholeInv, DeliveryInv, [Next]_vars PROVE DeliveryInv'
  OBVIOUS
<1> USE PlacesOf
<1> DEFINE m == Entry(key).manifest
<1>e. InUse /\ ~gone =>
        /\ Progress(m) /\ m # 0
        /\ \A t \in Tracks : Entry(key).files[t] = m
  BY DEF DeliveryInv, Valid, WholeInv, Entry, Builds, Shape
<1>z. Zipped \/ NTracks = 1
  BY AlbumAssumption, JobsAssumption DEF Zipped
<1>1. CASE Lookup
  <2>1. CASE pc' = "package"
    BY <1>1, <2>1, StartsOnEntry
       DEF Lookup, Get, Goto, LoopFree, DeliveryInv, Early, job, history, Entry
  <2>2. CASE pc' # "package"
    BY <1>1, <2>2
       DEF Lookup, Get, Goto, DeliveryInv, NextTrack, Early, job, history, InUse,
           DeliveredWhole
  <2> QED BY <2>1, <2>2
<1>2. ASSUME NEW k \in Keys, Resolve(k) PROVE DeliveryInv'
  <2>1. CASE pc' = "package"
    BY <1>2, <2>1, StartsOnEntry
       DEF Resolve, Get, Goto, LoopFree, DeliveryInv, Early, history, Entry
  <2>2. CASE pc' # "package"
    BY <1>2, <2>2
       DEF Resolve, Get, Goto, DeliveryInv, NextTrack, Early, history, InUse, DeliveredWhole
  <2> QED BY <2>1, <2>2
<1>3. CASE Publish
  <2>1. /\ disk' = [disk EXCEPT ![Final(key)] = disk[Staging(key)], ![Staging(key)] = Empty]
        /\ pc = "clear" /\ removing' = {} /\ pc' = "package" /\ key' = key
        /\ UNCHANGED <<sent, archive, next, gone>>
    BY <1>3 DEF Publish, Goto, history
  <2>2. disk[Staging(key)].manifest = jobs /\ disk[Staging(key)].files = [t \in Tracks |-> jobs]
    BY <2>1 DEF CommitInv, Staged
  <2>3. Valid(disk[Staging(key)])
    BY <2>1, <2>2 DEF Valid, Builds, Shape
  <2>4. Entry(key)' = disk[Staging(key)]
    BY <2>1 DEF Entry, Final, Staging, Shape
  <2> QED BY <2>1, <2>3, <2>4, StartsOnEntry DEF DeliveryInv, Early
<1>4. CASE PackNext
  <2>1. TransferFrame /\ InUse /\ pc = "package" /\ pc' = "package" /\ sent' = sent
    BY <1>4, AlbumAssumption
       DEF PackNext, TransferFrame, InUse, DeliveryInv, NextTrack, history, Tracks
  <2>2. ASSUME ~gone PROVE Progress(m)'
    <3>1. archive' = archive \union {<<next, m>>} /\ next' = next + 1 /\ next \in Tracks /\ Zipped
      BY <1>4, <1>e, <2>1, <2>2 DEF PackNext
    <3>2. archive = UpTo(next, m) /\ sent = {}
      BY <1>e, <2>1, <2>2, <3>1 DEF Progress
    <3>3. archive' = UpTo(next', m)
      BY <3>1, <3>2, UpToNext
    <3>4. m' = m
      BY <2>1 DEF TransferFrame, Entry
    <3> QED BY <2>1, <3>1, <3>2, <3>3, <3>4 DEF Progress
  <2> QED BY <2>1, <2>2, TransferStep
<1>5. CASE EndPackage
  <2>1. /\ TransferFrame /\ InUse /\ pc = "package" /\ sent' = sent /\ archive' = archive
        /\ next' = 1 /\ pc' \in {"link", "send"} /\ (Zipped => next = NTracks + 1)
    BY <1>5, AlbumAssumption
       DEF EndPackage, TransferFrame, NextTrack, InUse, DeliveryInv, Goto, history
  <2>2. ASSUME ~gone PROVE Progress(m)'
    <3>1. archive = Packed(m) /\ sent = {}
      BY <1>e, <2>1, <2>2, UpToAll DEF Progress, Packed
    <3>2. m' = m
      BY <2>1 DEF TransferFrame, Entry
    <3> QED BY <2>1, <3>1, <3>2 DEF Progress, Packed
  <2> QED BY <2>1, <2>2, TransferStep
<1>6. CASE SendArchive
  <2>1. /\ InUse /\ pc = "send" /\ UNCHANGED <<disk, removing, key, jobs, gone, archive, next>>
        /\ next = 1
        /\ \/ pc' = "idle"
           \/ pc' = "tracks" /\ ~Zipped /\ sent' = sent
           \/ pc' = "link" /\ sent' = sent
           \/ pc' \in {"tracks", "delivered"} /\ Zipped /\ sent' = sent \union archive
    BY <1>6 DEF SendArchive, InUse, DeliveryInv, NextTrack, Goto, TooLarge, Deliver, Fail, Receive
  <2>2. TransferFrame
    BY <2>1, AlbumAssumption DEF TransferFrame, NextTrack, Tracks
  <2>3. ASSUME ~gone PROVE /\ pc' # "delivered" => Progress(m)'
                           /\ pc' = "delivered" => sent' = Album(m)
    <3>1. archive = Packed(m) /\ sent = {}
      BY <1>e, <2>1, <2>3 DEF Progress
    <3>2. m' = m
      BY <2>1 DEF Entry
    <3>3. pc' = "tracks" => sent' = Packed(m) \union UpTo(next', m)
      BY <2>1, <3>1, UpToAll DEF Packed
    <3> QED BY <2>1, <3>1, <3>2, <3>3 DEF Progress, Packed
  <2> QED BY <2>1, <2>2, <2>3, TransferStep
<1>7. CASE SendTrack
  <2>1. /\ InUse /\ pc = "tracks" /\ UNCHANGED <<disk, removing, key, jobs, gone, archive>>
        /\ next \in Tracks
        /\ \/ pc' = "idle" /\ next' = next
           \/ pc' = "link" /\ sent' = sent /\ next' = next
           \/ /\ sent' = sent \union {<<next, Entry(key).files[next]>>} /\ next' = next + 1
              /\ pc' = IF next = NTracks THEN "delivered" ELSE "tracks"
    BY <1>7 DEF SendTrack, InUse, DeliveryInv, NextTrack, Goto, TooLarge, Deliver, Fail, Receive
  <2>2. TransferFrame
    BY <2>1, AlbumAssumption DEF TransferFrame, NextTrack, Tracks
  <2>3. ASSUME ~gone PROVE /\ pc' # "delivered" => Progress(m)'
                           /\ pc' = "delivered" => sent' = Album(m)
    <3>1. archive = Packed(m) /\ sent = Packed(m) \union UpTo(next, m)
      BY <1>e, <2>1, <2>3 DEF Progress
    <3>2. Entry(key).files[next] = m /\ m' = m
      BY <1>e, <2>1, <2>3 DEF Entry
    <3>3. UpTo(next + 1, m) = UpTo(next, m) \union {<<next, m>>}
      BY <2>1, UpToNext
    <3>4. UpTo(next, m) \subseteq Album(m) /\ Packed(m) \subseteq Album(m)
      BY DEF UpTo, Album, Packed
    <3>5. CASE pc' \in {"idle", "link"}
      BY <2>1, <3>1, <3>2, <3>4, <3>5 DEF Progress, Packed
    <3>6. CASE pc' = "tracks"
      BY <2>1, <3>1, <3>2, <3>3, <3>6 DEF Progress, Packed
    <3>7. CASE pc' = "delivered"
      <4>1. next = NTracks /\ sent' = Packed(m) \union UpTo(NTracks + 1, m)
        BY <2>1, <3>1, <3>2, <3>3, <3>7
      <4> QED BY <4>1, <3>4, <3>7, UpToAll
    <3> QED BY <2>1, <3>5, <3>6, <3>7
  <2> QED BY <2>1, <2>2, <2>3, TransferStep
<1>8. CASE SendLink
  <2>1. /\ InUse /\ pc = "link" /\ UNCHANGED <<disk, removing, key, jobs, gone, archive, next>>
        /\ \/ pc' = "idle"
           \/ pc' = "delivered" /\ sent' = sent \union Outgoing
    BY <1>8 DEF SendLink, InUse, Goto, Deliver, Fail, Receive
  <2>2. TransferFrame
    BY <2>1 DEF TransferFrame, NextTrack, DeliveryInv
  <2>3. ASSUME ~gone PROVE /\ pc' # "delivered" => Progress(m)'
                           /\ pc' = "delivered" => sent' = Album(m)
    <3>1. archive = Packed(m) /\ sent \subseteq Album(m)
      BY <1>e, <2>1, <2>3 DEF Progress
    <3>2. Outgoing = Album(m)
      <4>1. CASE Zipped
        BY <3>1, <4>1 DEF Outgoing, Packed
      <4>2. CASE ~Zipped
        <5>1. Tracks = {1}
          BY <1>z, <4>2 DEF Tracks
        <5>2. Entry(key).files[1] = m /\ m # 0
          BY <1>e, <2>1, <2>3, <5>1
        <5> QED BY <4>2, <5>1, <5>2 DEF Outgoing, Album
      <4> QED BY <4>1, <4>2
    <3> QED BY <2>1, <3>1, <3>2 DEF Progress
  <2> QED BY <2>1, <2>2, <2>3, TransferStep
<1>9. ASSUME NEW p \in Places, RemoveFile(p) PROVE DeliveryInv'
  <2>1. /\ UNCHANGED <<pc, key, next, archive, sent, gone, jobs>>
        /\ removing' \subseteq removing /\ p \in removing
        /\ \A q \in Places \ {p} : disk'[q] = disk[q]
    BY <1>9 DEF RemoveFile, job, history, Shape
  <2>2. InUse /\ ~gone => Entry(key)' = Entry(key) /\ (Final(key) \notin removing)'
    BY <2>1 DEF DeliveryInv, Entry, Shape
  <2> QED BY <2>1, <2>2 DEF DeliveryInv, NextTrack, Progress, DeliveredWhole, InUse
<1>10. ASSUME NEW S \in SUBSET Keys, Purging(S) PROVE DeliveryInv'
  <2>1. /\ UNCHANGED <<disk, pc, key, next, archive, sent, jobs>>
        /\ \A k \in Keys : Final(k) \in removing' /\ Valid(Entry(k)) => k \in S
        /\ gone' = (gone \/ (InUse /\ key \in S))
    BY <1>10, PurgedIs DEF Purging, Purge, job
  <2>2. InUse /\ ~gone' => ~gone /\ (Final(key) \notin removing)'
    BY <2>1 DEF Shape, DeliveryInv
  <2>3. ~gone' => ~gone /\ (pc \in Early => ~gone')
    BY <2>1 DEF InUse, Early
  <2>4. pc \in Early => ~gone'
    BY <2>1 DEF InUse, Early, DeliveryInv
  <2> QED BY <2>1, <2>2, <2>3, <2>4
          DEF DeliveryInv, NextTrack, Progress, DeliveredWhole, InUse, Entry
<1>11. ASSUME NEW k \in Keys, StartJob(k) PROVE DeliveryInv'
  BY <1>11, AlbumAssumption
     DEF StartJob, Goto, DeliveryInv, NextTrack, DeliveredWhole, InUse, Early
<1>12. CASE BeginCommit \/ Stage \/ WriteManifest
  <2>1. /\ pc \in Early /\ pc' \in Early
        /\ UNCHANGED <<next, archive, sent, gone>>
    BY <1>12 DEF BeginCommit, Stage, WriteManifest, Goto, Early, job, history
  <2> QED BY <2>1 DEF DeliveryInv, NextTrack, DeliveredWhole, InUse, Early
<1>13. ASSUME pc' \in {"idle", "recorded", "settled", "over", "ordered", "forget"}, next' = next
       PROVE  DeliveryInv'
  BY <1>13 DEF DeliveryInv, NextTrack, DeliveredWhole, InUse, Early
<1>14. ASSUME UNCHANGED <<disk, removing, pc, key, next, archive, sent, gone, jobs>>
       PROVE  DeliveryInv'
  BY <1>14 DEF DeliveryInv, NextTrack, Progress, DeliveredWhole, InUse, Early, Entry
<1>15. CASE Restart
  <2>1. pc = "idle" /\ pc' = "idle" /\ next' = next
    BY <1>15 DEF Restart, Shape, job
  <2> QED BY <2>1, <1>13
<1>16. \/ pc' \in {"idle", "recorded", "settled", "over", "ordered", "forget"} /\ next' = next
       \/ UNCHANGED <<disk, removing, pc, key, next, archive, sent, gone, jobs>>
       \/ Lookup \/ BeginCommit \/ Stage \/ WriteManifest \/ Publish \/ PackNext \/ EndPackage
       \/ SendArchive \/ SendTrack \/ SendLink \/ Restart
       \/ \E k \in Keys : StartJob(k) \/ Resolve(k)
       \/ \E p \in Places : RemoveFile(p)
       \/ \E S \in SUBSET Keys : Purging(S)
  BY PurgesAre
  DEF Next, WorkerStep, vars, job, history, Raise, CommitRaises, Fail, Record, ReadTotal,
      ReadOrder, Evict, Forget, PurgeForget, Crash, Goto
<1> QED BY <1>1, <1>2, <1>3, <1>4, <1>5, <1>6, <1>7, <1>8, <1>9, <1>10, <1>11, <1>12, <1>13,
           <1>14, <1>15, <1>16

(* An album that is delivered is complete and of one build, whatever the purges, *)
(* evictions, crashes and failures in between, unless its own entry was purged   *)
(* under it (queue/worker.py _deliver, pipeline/package.py, bot/deliver.py).     *)
THEOREM DeliveriesAreWhole ==
  ASSUME NTracks = 1 \/ MultiDelivery # "individual"
  PROVE  Spec => []DeliveredWhole
<1>1. Init => DeliveryInv
  BY AlbumAssumption DEF Init, DeliveryInv, NextTrack, DeliveredWhole, InUse, Early
<1>2. Shape /\ CommitInv /\ WholeInv /\ DeliveryInv /\ [Next]_vars => DeliveryInv'
  BY DeliveryNext
<1>3. DeliveryInv => DeliveredWhole
  BY DEF DeliveryInv
<1> QED BY <1>1, <1>2, <1>3, CacheCorrect, PTL DEF Spec

-----------------------------------------------------------------------------
(***************************************************************************)
(* Audio jobs implement the abstract cache of AlbumCache.                  *)
(***************************************************************************)

Fetching == {"fetch", "download", "stage", "write", "torn", "clear"}

(* The entry of a job that serves from it stays, unless it is purged.      *)
UseInv ==
  /\ InUse /\ ~gone => Valid(Entry(key)) /\ Final(key) \notin removing
  /\ pc \in Early => ~gone

(* Rows are forgotten only after an eviction or a purge.                   *)
RowsInv ==
  /\ pc # "forget" => victims = {}
  /\ admin = "idle" => doomed = {}
  /\ victims \subseteq Keys /\ doomed \subseteq Keys

(* No two media share a build, and the next build is a new one.            *)
BuildsInv ==
  /\ \A j, k \in Keys :
       j # k /\ Valid(Entry(j)) /\ Valid(Entry(k)) => Entry(j).manifest # Entry(k).manifest
  /\ pc \in Early => \A k \in Keys : Valid(Entry(k)) => Entry(k).manifest < jobs

(* A job fetches what it has looked up and not found; a whole entry is     *)
(* removed only if it is condemned, or known by an alias.                  *)
FetchInv ==
  /\ pc \in Fetching /\ key \in Canonical => ~Valid(Entry(key))
  /\ pc = "clear" => Final(key) \in removing \/ Entry(key) = Empty
  /\ \A k \in Canonical :
       Final(k) \in removing /\ Valid(Entry(k)) => k \in victims \union doomed

KeepInv == UseInv /\ RowsInv /\ BuildsInv /\ FetchInv

-----------------------------------------------------------------------------
(* The steps of AudioJobs, seen from the entries: each kind says what the   *)
(* arguments below need of its actions.                                     *)
Kept == <<disk, gone, jobs, admin, doomed>>
Closing == {"idle", "recorded", "settled", "over", "ordered", "forget"}

Begins(k) ==
  /\ pc \in {"idle", "settled"} /\ ~gone' /\ jobs' = jobs + 1 /\ key' = k
  /\ pc' = IF k \in Canonical THEN "lookup" ELSE "fetch"
  /\ UNCHANGED <<disk, removing, victims, admin, doomed>>

Looks(k) ==
  /\ pc \in {"lookup", "fetch"} /\ key' = k /\ removing = {}
  /\ \/ Valid(Entry(k)) /\ pc' = "package" /\ removing' = {}
     \/ ~Valid(Entry(k)) /\ pc' \in {"fetch", "download"} /\ removing' = Present({Final(k)})
     \/ k = key /\ pc = "fetch" /\ pc' = "download" /\ removing' = {}
  /\ UNCHANGED <<Kept, victims>>

Commits ==
  /\ pc \in {"download", "stage", "write", "torn"} /\ removing = {}
  /\ \/ pc' \in {"stage", "write", "torn"} /\ \A k \in Keys : Final(k) \notin removing'
     \/ pc' = "clear" /\ removing' = Present({Final(key)})
  /\ disk' \in [Places -> Dir]
  /\ \A k \in Keys : disk'[Final(k)] = disk[Final(k)]
  /\ UNCHANGED <<key, gone, jobs, victims, admin, doomed>>

Serves ==
  /\ InUse /\ pc' \in {"package", "send", "tracks", "link", "delivered", "idle"}
  /\ UNCHANGED <<Kept, removing, key, victims>>

Ends ==
  /\ pc' \in Closing /\ removing = {}
  /\ victims' \subseteq victims
  /\ pc' = "forget" \/ victims' = {}
  /\ UNCHANGED <<Kept, removing, key>>

Evicts ==
  /\ pc = "ordered" /\ pc' = "forget" /\ removing = {}
  /\ victims' \subseteq Keys /\ \A k \in Keys : Final(k) \in removing' => k \in victims'
  /\ UNCHANGED <<Kept, key>>

Purges(S) ==
  /\ admin = "idle" /\ doomed' = S /\ removing = {}
  /\ \A k \in Keys : Final(k) \in removing' /\ Valid(Entry(k)) => k \in S
  /\ gone' = (gone \/ (InUse /\ key \in S))
  /\ UNCHANGED <<disk, pc, key, jobs, victims>>

Forgets ==
  /\ removing = {} /\ doomed' \subseteq doomed /\ (doomed' = {} \/ admin' = admin)
  /\ UNCHANGED <<disk, removing, pc, key, gone, jobs, victims>>

Removes(p) ==
  /\ p \in removing /\ removing' \subseteq removing
  /\ disk' \in [Places -> Dir] /\ ~Valid(disk'[p])
  /\ p \in removing' \/ disk'[p] = Empty
  /\ \A q \in Places \ {p} : disk'[q] = disk[q] /\ (q \in removing => q \in removing')
  /\ UNCHANGED <<pc, key, gone, jobs, victims, admin, doomed>>

Restarts ==
  /\ pc = "idle" /\ pc' = "idle" /\ removing' = Leftovers
  /\ UNCHANGED <<Kept, key, victims>>

Dies ==
  /\ pc' = "idle" /\ removing' = {} /\ victims' = {} /\ doomed' = {}
  /\ UNCHANGED <<disk, key, gone, jobs>>

Idles == UNCHANGED <<Kept, removing, pc, key, victims>>

AnyKind ==
  \/ \E k \in Keys : Begins(k) \/ Looks(k)
  \/ Commits \/ Publish \/ Serves \/ Ends \/ Evicts \/ Forgets \/ Dies \/ Restarts \/ Idles
  \/ \E S \in SUBSET Keys : Purges(S)
  \/ \E p \in Places : Removes(p)

LEMMA RemoveKind ==
  ASSUME Shape, NEW p \in Places, RemoveFile(p)
  PROVE  Removes(p)
<1>1. PICK f \in Pieces(disk[p]) :
        /\ disk' = [disk EXCEPT ![p] = Without(disk[p], f)]
        /\ removing' = IF Pieces(Without(disk[p], f)) = {} THEN removing \ {p} ELSE removing
  BY DEF RemoveFile
<1>2. disk[p] \in Dir
  BY DEF Shape
<1>3. Without(disk[p], f) \in Dir /\ ~Valid(Without(disk[p], f))
  BY <1>2, WithoutIsDir
<1>4. Pieces(Without(disk[p], f)) = {} => Without(disk[p], f) = Empty
  BY <1>3, NoPieces
<1>5. disk'[p] = Without(disk[p], f) /\ disk' \in [Places -> Dir]
  BY <1>1, <1>3 DEF Shape
<1>6. p \in removing /\ UNCHANGED <<pc, key, gone, jobs, victims, admin, doomed>>
  BY DEF RemoveFile, job, purger, history
<1> QED BY <1>1, <1>3, <1>4, <1>5, <1>6 DEF Removes, Shape

(* An eviction removes the entries of its victims, and staging directories. *)
LEMMA EvictedIs ==
  ASSUME Evict
  PROVE  /\ victims' \subseteq Keys
         /\ \A k \in Keys : Final(k) \in removing' <=> k \in victims'
<1> DEFINE W == Walked(Usage(disk), disk, order)
<1>1. W \subseteq Keys
  BY DEF Walked
<1>2. victims' = {k \in W : disk[Final(k)] # Empty} /\ removing' = Delete(W)
  BY DEF Evict, Victims, Final
<1> HIDE DEF W
<1>3. \A k \in Keys : Final(k) \in Delete(W) <=> k \in W /\ disk[Final(k)] # Empty
  BY DEF Delete, Present, Final, Staging
<1> QED BY <1>1, <1>2, <1>3

LEMMA Kinds == Shape /\ CommitInv /\ RowsInv /\ [Next]_vars => AnyKind
<1> SUFFICES ASSUME Shape, CommitInv, RowsInv, [Next]_vars PROVE AnyKind
  OBVIOUS
<1> USE DEF Goto, job, purger, history, rows
<1>1. CASE \E k \in Keys : StartJob(k)
  <2>1. PICK k \in Keys : StartJob(k)
    BY <1>1
  <2>2. Begins(k)
    BY <2>1 DEF StartJob, Begins
  <2> QED BY <2>2 DEF AnyKind
<1>2. CASE Lookup
  <2>1. Looks(key)
    BY <1>2 DEF Lookup, Get, LoopFree, Looks, Kept
  <2> QED BY <2>1 DEF AnyKind, Shape
<1>3. CASE \E k \in Keys : Resolve(k)
  <2>1. PICK k \in Keys : Resolve(k)
    BY <1>3
  <2>2. Looks(k)
    BY <2>1 DEF Resolve, Get, LoopFree, Looks, Kept
  <2> QED BY <2>2 DEF AnyKind
<1>3a. CASE BeginCommit
  <2>1. \A k \in Keys : Final(k) \notin Present({Staging(key)})
    BY DEF Present, Final, Staging
  <2> QED BY <1>3a, <2>1 DEF BeginCommit, LoopFree, Shape, AnyKind, Commits
<1>3b. CASE CommitRaises
  <2>1. victims = {}
    BY <1>3b DEF CommitRaises, Holding, RowsInv
  <2> QED BY <1>3b, <2>1 DEF CommitRaises, Fail, AnyKind, Ends, Closing, Kept
<1>4. CASE Stage
  <2>1. disk' = [disk EXCEPT ![Staging(key)] = Cut(jobs)] /\ Cut(jobs) \in Dir
    BY <1>4 DEF Stage, Shape, Cut, Dir
  <2>2. disk' \in [Places -> Dir] /\ \A k \in Keys : disk'[Final(k)] = disk[Final(k)]
    BY <2>1 DEF Shape, Final, Staging, Places
  <2> QED BY <1>4, <2>2 DEF Stage, AnyKind, Commits
<1>5. CASE WriteManifest
  <2>1. PICK m \in {Torn, jobs} : disk' = [disk EXCEPT ![Staging(key)].manifest = m]
    BY <1>5 DEF WriteManifest
  <2>2. m \in Builds \union {0, Torn}
    BY <1>5 DEF WriteManifest, Shape, Builds
  <2>3. disk' \in [Places -> Dir] /\ \A k \in Keys : disk'[Final(k)] = disk[Final(k)]
    BY <2>1, <2>2 DEF Shape, Final, Staging, Places, Dir
  <2>4. removing = {}
    BY <1>5 DEF WriteManifest, CommitInv
  <2> QED BY <1>5, <2>3, <2>4 DEF WriteManifest, AnyKind, Commits
<1>6. CASE PackNext \/ EndPackage
  BY <1>6 DEF PackNext, EndPackage, AnyKind, Serves, InUse, Kept
<1>7. CASE SendArchive \/ SendTrack \/ SendLink
  <2>1. InUse /\ UNCHANGED <<Kept, removing, key, victims>>
    BY <1>7 DEF SendArchive, SendTrack, SendLink, InUse, Kept
  <2>2. pc' \in {"package", "send", "tracks", "link", "delivered", "idle"}
    BY <1>7 DEF SendArchive, SendTrack, SendLink, TooLarge, Deliver, Fail
  <2> QED BY <2>1, <2>2 DEF AnyKind, Serves
<1>8. CASE Raise \/ Record \/ ReadTotal \/ ReadOrder
  <2>1. /\ pc' \in Closing /\ removing = {} /\ pc' # "forget"
        /\ UNCHANGED <<Kept, removing, key>>
    BY <1>8 DEF Raise, Fail, Record, ReadTotal, ReadOrder, LoopFree, Closing, Kept
  <2>2. victims' = {}
    BY <1>8 DEF Raise, Record, ReadTotal, ReadOrder, RowsInv
  <2> QED BY <2>1, <2>2 DEF AnyKind, Ends
<1>9. CASE Forget
  BY <1>9 DEF Forget, LoopFree, AnyKind, Ends, Closing, Kept
<1>10. CASE Evict
  <2>1. victims' \subseteq Keys /\ \A k \in Keys : Final(k) \in removing' => k \in victims'
    BY <1>10, EvictedIs
  <2> QED BY <1>10, <2>1 DEF Evict, LoopFree, AnyKind, Evicts, Kept
<1>11. CASE \E S \in SUBSET Keys : Purging(S)
  <2>1. PICK S \in SUBSET Keys : Purging(S)
    BY <1>11
  <2>2. Purges(S)
    BY <2>1, PurgedIs DEF Purging, Purge, LoopFree, Purges
  <2> QED BY <2>2 DEF AnyKind
<1>12. CASE PurgeForget
  BY <1>12 DEF PurgeForget, LoopFree, AnyKind, Forgets
<1>13. CASE \E p \in Places : RemoveFile(p)
  BY <1>13, RemoveKind DEF AnyKind
<1>14. CASE Crash
  BY <1>14 DEF Crash, AnyKind, Dies
<1>15. CASE Restart
  BY <1>15 DEF Restart, AnyKind, Restarts, Kept, Shape
<1>16. CASE UNCHANGED vars
  BY <1>16 DEF vars, AnyKind, Idles, Kept
<1>17. CASE Publish
  BY <1>17 DEF AnyKind
<1> QED BY PurgesAre, <1>1, <1>2, <1>3, <1>3a, <1>3b, <1>4, <1>5, <1>6, <1>7, <1>8, <1>9, <1>10,
           <1>11, <1>12, <1>13, <1>14, <1>15, <1>16, <1>17 DEF Next, WorkerStep
-----------------------------------------------------------------------------
LEMMA UseNext ==
  Shape /\ CommitInv /\ SweptInv /\ UseInv /\ RowsInv /\ [Next]_vars => UseInv'
<1> SUFFICES ASSUME Shape, CommitInv, SweptInv, UseInv, RowsInv, [Next]_vars PROVE UseInv'
  OBVIOUS
<1> USE DEF UseInv, InUse, Early
<1>1. ASSUME NEW k \in Keys, Begins(k) PROVE UseInv'
  BY <1>1 DEF Begins
<1>2. ASSUME NEW k \in Keys, Looks(k) PROVE UseInv'
  BY <1>2 DEF Looks, Kept, Entry
<1>3. CASE Commits
  BY <1>3 DEF Commits
<1>4. CASE Publish
  <2>1. removing' = {} /\ pc' = "package"
    BY <1>4 DEF Publish, Goto
  <2>2. key' = key /\ disk'[Final(key)] = disk[Staging(key)]
    BY <1>4, PlacesOf DEF Publish, Shape, Final, Staging
  <2>3. Valid(disk[Staging(key)])
    BY <1>4 DEF Publish, CommitInv, Staged, Shape, Valid, Builds
  <2> QED BY <2>1, <2>2, <2>3 DEF Entry
<1>5. CASE Serves
  BY <1>5 DEF Serves, Kept, Entry
<1>6. CASE Ends \/ Evicts \/ Dies \/ Restarts
  BY <1>6 DEF Ends, Evicts, Dies, Restarts, Closing
<1>7. CASE Forgets \/ Idles
  BY <1>7 DEF Forgets, Idles, Kept, Entry
<1>8. ASSUME NEW S \in SUBSET Keys, Purges(S) PROVE UseInv'
  <2>1. InUse /\ ~gone' => key \notin S
    BY <1>8 DEF Purges
  <2>2. Valid(Entry(key)) /\ key \notin S => Final(key) \notin removing'
    BY <1>8 DEF Purges, Shape
  <2>3. InUse /\ ~gone' => ~gone
    BY <1>8 DEF Purges, Shape
  <2>4. pc \in Early => ~gone'
    BY <1>8 DEF Purges
  <2> QED BY <1>8, <2>1, <2>2, <2>3, <2>4 DEF Purges, Entry
<1>9. ASSUME NEW p \in Places, Removes(p) PROVE UseInv'
  BY <1>9, PlacesOf DEF Removes, Shape, Entry
<1> QED BY Kinds, <1>1, <1>2, <1>3, <1>4, <1>5, <1>6, <1>7, <1>8, <1>9 DEF AnyKind

LEMMA RowsNext == RowsInv /\ [Next]_vars => RowsInv'
<1> SUFFICES ASSUME RowsInv, [Next]_vars PROVE RowsInv'
  OBVIOUS
<1> USE DEF RowsInv, Goto, job, purger
<1>1. CASE \E k \in Keys : StartJob(k) \/ Resolve(k)
  BY <1>1 DEF StartJob, Resolve, Get
<1>2. CASE Lookup \/ BeginCommit \/ Stage \/ WriteManifest \/ Publish
  BY <1>2 DEF Lookup, Get, BeginCommit, Stage, WriteManifest, Publish
<1>3. CASE PackNext \/ EndPackage
  BY <1>3 DEF PackNext, EndPackage
<1>4. CASE SendArchive \/ SendTrack \/ SendLink
  BY <1>4 DEF SendArchive, SendTrack, SendLink, TooLarge, Deliver, Fail
<1>5. CASE Raise \/ CommitRaises \/ Record \/ ReadTotal \/ ReadOrder
  BY <1>5 DEF Raise, CommitRaises, Holding, Fail, Record, ReadTotal, ReadOrder
<1>6. CASE Evict
  BY <1>6, EvictedIs DEF Evict
<1>7. CASE Forget
  BY <1>7 DEF Forget
<1>8. CASE \E S \in SUBSET Keys : Purging(S)
  BY <1>8 DEF Purging, Purge
<1>9. CASE PurgeForget
  BY <1>9 DEF PurgeForget
<1>10. CASE Crash \/ Restart
  BY <1>10 DEF Crash, Restart
<1>11. CASE \E p \in Places : RemoveFile(p)
  BY <1>11 DEF RemoveFile
<1> QED BY PurgesAre, <1>1, <1>2, <1>3, <1>4, <1>5, <1>6, <1>7, <1>8, <1>9, <1>10, <1>11
        DEF Next, WorkerStep, vars

LEMMA BuildsNext ==
  /\ Shape /\ CommitInv /\ SweptInv /\ WholeInv /\ RowsInv /\ BuildsInv /\ [Next]_vars
  => BuildsInv'
<1> SUFFICES ASSUME Shape, CommitInv, SweptInv, WholeInv, RowsInv, BuildsInv, [Next]_vars
             PROVE  BuildsInv'
  OBVIOUS
<1> USE DEF BuildsInv
<1>1. ASSUME NEW k \in Keys, Begins(k) PROVE BuildsInv'
  <2>1. \A j \in Keys : Valid(Entry(j)) => Entry(j).manifest < jobs + 1
    BY PlacesOf DEF WholeInv, Entry, Shape, Valid, Builds
  <2> QED BY <1>1, <2>1 DEF Begins, Entry
<1>2. ASSUME NEW k \in Keys, Looks(k) PROVE BuildsInv'
  BY <1>2 DEF Looks, Kept, Entry, Early
<1>3. CASE Commits
  BY <1>3 DEF Commits, Entry, Early
<1>4. CASE Publish
  <2>1. pc' \notin Early /\ pc \in Early
    BY <1>4 DEF Publish, Goto, Early
  <2>2. disk'[Final(key)] = disk[Staging(key)]
        /\ \A k \in Keys \ {key} : disk'[Final(k)] = disk[Final(k)]
    BY <1>4, PlacesOf DEF Publish, Shape, Final, Staging, Places
  <2>3. disk[Staging(key)].manifest = jobs
    BY <1>4 DEF Publish, CommitInv
  <2>4. \A k \in Keys \ {key} : Valid(Entry(k)) => Entry(k).manifest # jobs
    BY <2>1, PlacesOf DEF Shape, Entry, Valid, Builds
  <2> QED BY <2>1, <2>2, <2>3, <2>4 DEF Entry
<1>5. CASE Serves \/ Ends \/ Evicts \/ Dies \/ Restarts
  BY <1>5 DEF Serves, Ends, Evicts, Dies, Restarts, Kept, Closing, Entry, Early
<1>6. CASE Forgets \/ Idles
  BY <1>6 DEF Forgets, Idles, Kept, Entry
<1>7. ASSUME NEW S \in SUBSET Keys, Purges(S) PROVE BuildsInv'
  BY <1>7 DEF Purges, Entry
<1>8. ASSUME NEW p \in Places, Removes(p) PROVE BuildsInv'
  <2>1. \A k \in Keys : Valid(Entry(k)') => Entry(k)' = Entry(k)
    BY <1>8, PlacesOf DEF Removes, Entry
  <2>2. UNCHANGED <<pc, jobs>>
    BY <1>8 DEF Removes
  <2> QED BY <2>1, <2>2
<1> QED BY Kinds, <1>1, <1>2, <1>3, <1>4, <1>5, <1>6, <1>7, <1>8 DEF AnyKind

LEMMA FetchNext ==
  /\ Shape /\ CommitInv /\ SweptInv /\ UseInv /\ RowsInv /\ FetchInv /\ [Next]_vars
  => FetchInv'
<1> SUFFICES ASSUME Shape, CommitInv, SweptInv, UseInv, RowsInv, FetchInv, [Next]_vars
             PROVE  FetchInv'
  OBVIOUS
<1> USE DEF FetchInv, Fetching
<1>0. Canonical \subseteq Keys
  BY JobsAssumption
<1>1. ASSUME NEW k \in Keys, Begins(k) PROVE FetchInv'
  BY <1>1 DEF Begins, Entry
<1>2. ASSUME NEW k \in Keys, Looks(k) PROVE FetchInv'
  <2>1. \A j \in Canonical : Final(j) \in removing' => ~Valid(Entry(j))
    BY <1>2 DEF Looks, Present, Final
  <2> QED BY <1>2, <2>1 DEF Looks, Kept, Entry
<1>3. CASE Commits
  <2>1. \A j \in Keys : Entry(j)' = Entry(j)
    BY <1>3 DEF Commits, Entry
  <2>2. pc \in Fetching
    BY <1>3 DEF Commits
  <2>3. \A j \in Canonical : Final(j) \in removing' => ~Valid(Entry(j))
    BY <1>3, <1>0, <2>2 DEF Commits, Present, Final
  <2>4. pc' = "clear" => Final(key) \in removing' \/ Entry(key) = Empty
    BY <1>3 DEF Commits, Present, Entry
  <2> QED BY <1>3, <1>0, <2>1, <2>2, <2>3, <2>4, PlacesOf DEF Commits, Shape
<1>4. CASE Publish
  BY <1>4 DEF Publish, Goto
<1>5. CASE Serves
  BY <1>5 DEF Serves, Kept, Entry
<1>6. CASE Ends \/ Dies
  BY <1>6 DEF Ends, Dies, Closing
<1>7. CASE Evicts
  BY <1>0, <1>7 DEF Evicts
<1>8. CASE Restarts
  BY <1>8 DEF Restarts, Leftovers, Present, Kept, Entry, Final
<1>9. CASE Forgets \/ Idles
  BY <1>9 DEF Forgets, Idles, Kept, Entry
<1>10. ASSUME NEW S \in SUBSET Keys, Purges(S) PROVE FetchInv'
  <2>1. pc = "clear" => Entry(key) = Empty
    BY <1>10 DEF Purges
  <2> QED BY <1>0, <1>10, <2>1 DEF Purges, Entry
<1>11. ASSUME NEW p \in Places, Removes(p) PROVE FetchInv'
  <2>1. UNCHANGED <<pc, key, victims, doomed>> /\ removing' \subseteq removing
    BY <1>11 DEF Removes
  <2>2. \A k \in Keys : Valid(Entry(k)') => Entry(k)' = Entry(k)
    BY <1>11, PlacesOf DEF Removes, Entry
  <2>3. pc = "clear" => Final(key) \in removing' \/ Entry(key)' = Empty
    <3>1. CASE p = Final(key)
      BY <1>11, <3>1 DEF Removes, Entry
    <3>2. CASE p # Final(key)
      BY <1>11, <3>2, PlacesOf DEF Removes, Entry, Shape
    <3> QED BY <3>1, <3>2
  <2> QED BY <1>0, <2>1, <2>2, <2>3 DEF Shape
<1> QED BY Kinds, <1>1, <1>2, <1>3, <1>4, <1>5, <1>6, <1>7, <1>8, <1>9, <1>10, <1>11 DEF AnyKind

LEMMA KeepCorrect ==
  Spec => [](Shape /\ CommitInv /\ WholeInv /\ SweptInv /\ KeepInv)
<1>1. Init => KeepInv
  <2> SUFFICES ASSUME Init PROVE KeepInv
    OBVIOUS
  <2>1. pc = "idle" /\ removing = {} /\ victims = {} /\ doomed = {}
    BY DEF Init
  <2>2. \A k \in Keys : ~Valid(Entry(k))
    BY EmptyIsDir, PlacesOf DEF Init, Entry
  <2> QED BY <2>1, <2>2
          DEF KeepInv, UseInv, RowsInv, BuildsInv, FetchInv, InUse, Early, Fetching
<1>2. Shape /\ CommitInv /\ WholeInv /\ SweptInv /\ KeepInv /\ [Next]_vars => KeepInv'
  BY UseNext, RowsNext, BuildsNext, FetchNext DEF KeepInv
<1> QED BY <1>1, <1>2, CacheCorrect, PTL DEF Spec
-----------------------------------------------------------------------------
(* Steps that leave the entries and the work of the job as they are. *)
LEMMA AlbumsKept == UNCHANGED disk => Albums' = Albums
BY DEF Albums, Entry

LEMMA AlbumsOf ==
  ASSUME Shape, NEW k \in Keys
  PROVE  /\ Valid(Entry(k)) => Albums[k] = Entry(k).manifest /\ Albums[k] \in Nat \ {0}
         /\ ~Valid(Entry(k)) => Albums[k] = 0
BY PlacesOf DEF Albums, Shape, Entry, Valid, Builds

(* No two media show the same album, and a job that works from one shows it. *)
LEMMA WorkingIs ==
  ASSUME Shape, UseInv, BuildsInv, NEW k \in Keys, Albums[k] # 0
  PROVE  Albums[k] = Working <=> InUse /\ ~gone /\ k = key
<1>1. Valid(Entry(k)) /\ Albums[k] = Entry(k).manifest
  BY AlbumsOf
<1>2. key \in Keys
  BY DEF Shape
<1>3. InUse /\ ~gone => Valid(Entry(key)) /\ Working = Entry(key).manifest
  BY <1>2, AlbumsOf DEF UseInv, Working
<1>4. ~(InUse /\ ~gone) => Working = 0
  BY DEF Working
<1> QED BY <1>1, <1>2, <1>3, <1>4 DEF BuildsInv

Mapped == <<Albums, Working, Condemned>>

LEMMA StepKeepsAlbums ==
  /\ Shape /\ CommitInv /\ KeepInv /\ KeepInv' /\ [Next]_vars
  => Cache!Next \/ UNCHANGED Mapped
<1> SUFFICES ASSUME Shape, CommitInv, KeepInv, KeepInv', [Next]_vars
             PROVE  Cache!Next \/ UNCHANGED Mapped
  OBVIOUS
<1>0. UseInv /\ RowsInv /\ BuildsInv /\ FetchInv /\ UseInv'
  BY DEF KeepInv
<1>a. Shape'
  BY ShapeNext
<1> USE DEF Mapped
<1>1. ASSUME NEW k \in Keys, Begins(k) PROVE UNCHANGED Mapped
  BY <1>1, AlbumsKept DEF Begins, Working, InUse, Condemned
<1>2. ASSUME NEW k \in Keys, Looks(k) PROVE Cache!Next \/ UNCHANGED Mapped
  <2>1. Albums' = Albums /\ Condemned' = Condemned /\ Working = 0 /\ key' = k
    BY <1>2, AlbumsKept DEF Looks, Kept, Working, InUse, Condemned
  <2>2. ~gone'
    BY <1>0, <1>2 DEF Looks, Kept, UseInv, Early
  <2>3. CASE pc' = "package" /\ Valid(Entry(k))
    <3>1. Working' = Albums[k]
      BY <2>1, <2>2, <2>3 DEF Working, InUse
    <3>2. Cache!Hit(k)
      BY <2>1, <2>3, <3>1, AlbumsOf DEF Cache!Hit
    <3> QED BY <3>2 DEF Cache!Next
  <2>4. CASE pc' \in {"fetch", "download"}
    BY <2>1, <2>4 DEF Working, InUse
  <2> QED BY <1>2, <2>3, <2>4 DEF Looks
<1>3. CASE Commits
  <2>1. Albums' = Albums
    BY <1>3 DEF Commits, Albums, Entry
  <2> QED BY <1>3, <2>1 DEF Commits, Working, InUse, Condemned
<1>4. CASE Publish
  <2>1. key \in Keys /\ key' = key /\ pc' = "package" /\ Condemned' = Condemned /\ ~gone'
    BY <1>0, <1>4 DEF Publish, Shape, Goto, Condemned, UseInv, Early, purger, history
  <2>2. disk'[Final(key)] = disk[Staging(key)]
        /\ \A k \in Keys \ {key} : disk'[Final(k)] = disk[Final(k)]
    BY <1>4, PlacesOf DEF Publish, Shape, Final, Staging, Places
  <2>3. Valid(disk[Staging(key)]) /\ disk[Staging(key)].manifest = jobs /\ jobs \in Nat \ {0}
    BY <1>4 DEF Publish, CommitInv, Staged, Shape, Valid, Builds
  <2>4. Albums' = [Albums EXCEPT ![key] = jobs]
    BY <2>1, <2>2, <2>3 DEF Albums, Entry
  <2>5. Working' = jobs
    BY <2>1, <2>4 DEF Working, InUse, Albums
  <2>6. ~Valid(Entry(key))
    <3>1. Final(key) \notin removing /\ pc = "clear"
      BY <1>4 DEF Publish
    <3> QED BY <1>0, <2>1, <3>1, EmptyIsDir DEF FetchInv
  <2>7. ASSUME NEW j \in Keys PROVE Albums[j] # jobs
    <3>1. pc \in Early
      BY <1>4 DEF Publish, Early
    <3>2. Valid(Entry(j)) => Entry(j).manifest < jobs
      BY <1>0, <3>1 DEF BuildsInv
    <3>3. jobs # 0
      BY <2>3
    <3> QED BY <3>2, <3>3, AlbumsOf, <2>3
  <2>8. Cache!Fetch(key)
    BY <2>1, <2>3, <2>4, <2>5, <2>6, <2>7, AlbumsOf DEF Cache!Fetch
  <2> QED BY <2>1, <2>8 DEF Cache!Next
<1>5. CASE Serves
  <2>1. Albums' = Albums /\ Condemned' = Condemned
    BY <1>5, AlbumsKept DEF Serves, Kept, Condemned
  <2>2. Working' = Working \/ Working' = 0
    BY <1>5, <2>1 DEF Serves, Kept, Working
  <2> QED BY <2>1, <2>2 DEF Cache!Next, Cache!Release
<1>6. CASE Ends
  <2>1. Albums' = Albums /\ Working' = 0 /\ doomed' = doomed
    BY <1>6, AlbumsKept DEF Ends, Kept, Working, InUse, Closing
  <2>2. CASE pc = "forget"
    <3>1. Working = 0
      BY <2>2 DEF Working, InUse
    <3>2. Condemned' = Condemned \ (victims \ (victims' \union doomed))
      BY <1>6, <2>1 DEF Ends, Condemned
    <3>3. victims \ (victims' \union doomed) \in SUBSET Keys
      BY <1>0 DEF RowsInv
    <3>4. Cache!Forget(victims \ (victims' \union doomed))
      BY <2>1, <3>1, <3>2 DEF Cache!Forget
    <3> QED BY <3>3, <3>4 DEF Cache!Next
  <2>3. CASE pc # "forget"
    <3>1. Condemned' = Condemned
      BY <1>0, <1>6, <2>1, <2>3 DEF Ends, RowsInv, Condemned
    <3> QED BY <2>1, <3>1 DEF Cache!Next, Cache!Release
  <2> QED BY <2>2, <2>3
<1>7. CASE Evicts
  <2>1. Albums' = Albums /\ Working = 0 /\ Working' = 0
    BY <1>7, AlbumsKept DEF Evicts, Kept, Working, InUse
  <2>2. Condemned' = Condemned \union victims' /\ victims' \in SUBSET Keys
    BY <1>0, <1>7 DEF Evicts, Kept, RowsInv, Condemned
  <2>3. Cache!Condemn(victims')
    BY <2>1, <2>2 DEF Cache!Condemn
  <2> QED BY <2>2, <2>3 DEF Cache!Next
<1>8. ASSUME NEW S \in SUBSET Keys, Purges(S) PROVE Cache!Next
  <2>1. Albums' = Albums /\ Condemned' = Condemned \union S
    BY <1>0, <1>8, AlbumsKept DEF Purges, RowsInv, Condemned
  <2>2. Working' = IF InUse /\ ~gone /\ key \notin S THEN Albums[key] ELSE 0
    BY <1>8, <2>1 DEF Purges, Working, InUse
  <2>3. CASE Working = 0
    <3>1. Working' = 0
      BY <2>2, <2>3 DEF Working
    <3> QED BY <2>1, <2>3, <3>1 DEF Cache!Condemn, Cache!Next
  <2>4. CASE Working # 0
    <3>1. InUse /\ ~gone /\ Working = Albums[key] /\ key \in Keys
      BY <2>4 DEF Working, Shape
    <3>2. (\E k \in S : Albums[k] = Working) <=> key \in S
      BY <1>0, <2>4, <3>1, WorkingIs
    <3>3. Cache!Condemn(S)
      BY <2>1, <2>2, <3>1, <3>2 DEF Cache!Condemn
    <3> QED BY <3>3 DEF Cache!Next
  <2> QED BY <2>3, <2>4
<1>9. CASE Forgets
  <2>1. Albums' = Albums /\ Working' = Working
    BY <1>9, AlbumsKept DEF Forgets, Working, InUse
  <2>2. Condemned' = Condemned \ (doomed \ (doomed' \union victims))
    BY <1>9 DEF Forgets, Condemned
  <2>3. doomed \ (doomed' \union victims) \in SUBSET Keys
    BY <1>0 DEF RowsInv
  <2> QED BY <2>1, <2>2, <2>3 DEF Cache!Forget, Cache!Next
<1>10. CASE Dies
  BY <1>10, AlbumsKept DEF Dies, Working, InUse, Condemned, Cache!Crash, Cache!Next
<1>11. CASE Restarts \/ Idles
  BY <1>11, AlbumsKept DEF Restarts, Idles, Kept, Working, InUse, Condemned
<1>12. ASSUME NEW p \in Places, Removes(p) PROVE Cache!Next \/ UNCHANGED Mapped
  <2>1. UNCHANGED <<pc, key, gone, victims, doomed>> /\ Condemned' = Condemned
    BY <1>12 DEF Removes, Condemned
  <2>2. CASE \A k \in Keys : p # Final(k)
    <3>1. Albums' = Albums
      BY <1>12, <2>2, PlacesOf DEF Removes, Albums, Entry
    <3> QED BY <2>1, <3>1 DEF Working, InUse
  <2>3. ASSUME NEW k \in Keys, p = Final(k) PROVE Cache!Next \/ UNCHANGED Mapped
    <3>1. \A j \in Keys \ {k} : disk'[Final(j)] = disk[Final(j)]
      BY <1>12, <2>3, PlacesOf DEF Removes, Final
    <3>2. ~Valid(disk'[Final(k)])
      BY <1>12, <2>3 DEF Removes
    <3>3. Albums' = [Albums EXCEPT ![k] = 0]
      <4>1. \A j \in Keys \ {k} : Albums'[j] = Albums[j]
        BY <3>1 DEF Albums, Entry
      <4>2. Albums'[k] = 0
        BY <3>2 DEF Albums, Entry
      <4>3. Albums' = [j \in Keys |-> Albums'[j]] /\ Albums = [j \in Keys |-> Albums[j]]
        BY DEF Albums
      <4> HIDE DEF Albums
      <4> QED BY <4>1, <4>2, <4>3
    <3>4. k = key => ~(InUse /\ ~gone)
      BY <1>0, <1>12, <2>3 DEF UseInv, Removes
    <3>5. Working' = Working
      <4>1. InUse /\ ~gone => Albums'[key] = Albums[key]
        BY <3>3, <3>4 DEF Shape, Albums
      <4> QED BY <2>1, <4>1 DEF Working, InUse
    <3>6. CASE Albums[k] = 0
      BY <2>1, <3>3, <3>5, <3>6 DEF Albums
    <3>7. CASE Albums[k] # 0
      <4>1. Albums[k] # Working
        BY <1>0, <3>4, <3>7, WorkingIs
      <4>2. Valid(Entry(k)) /\ Final(k) \in removing
        BY <1>12, <2>3, <3>7, AlbumsOf DEF Removes
      <4>3. k \in Condemned \/ k \notin Canonical
        BY <1>0, <4>2 DEF FetchInv, Condemned
      <4> QED BY <2>1, <3>3, <3>5, <4>1, <4>3 DEF Cache!Drop, Cache!Next
    <3> QED BY <3>6, <3>7
  <2> QED BY <2>2, <2>3
<1> QED BY Kinds, <1>0, <1>1, <1>2, <1>3, <1>4, <1>5, <1>6, <1>7, <1>8, <1>9, <1>10, <1>11, <1>12
        DEF AnyKind

(* Audio jobs implement the abstract cache: an album is fetched only when it is not *)
(* there, goes only when an eviction or a purge has condemned it (or when it is     *)
(* known by an alias), and never under the job that works from it.                  *)
THEOREM JobsKeepAlbums == Spec => KeepsAlbums
<1>1. Init => Cache!Init
  <2> SUFFICES ASSUME Init PROVE Cache!Init
    OBVIOUS
  <2>1. \A k \in Keys : ~Valid(Entry(k))
    BY EmptyIsDir, PlacesOf DEF Init, Entry
  <2> QED BY <2>1 DEF Init, Cache!Init, Albums, Working, InUse, Condemned
<1>2. Shape /\ CommitInv /\ KeepInv /\ KeepInv' /\ [Next]_vars => [Cache!Next]_(Cache!vars)
  BY StepKeepsAlbums DEF Mapped, Cache!vars
<1> QED BY <1>1, <1>2, KeepCorrect, PTL DEF Spec, KeepsAlbums, Cache!Spec

-----------------------------------------------------------------------------
(***************************************************************************)
(* Types, and eviction.                                                    *)
(***************************************************************************)
LEMMA FiniteSums ==
  /\ IsFiniteSet(Tracks) /\ IsFiniteSet(Places)
  /\ \A t \in Tracks : TrackBytes[t] \in Nat
<1>1. IsFiniteSet(Tracks)
  BY AlbumAssumption, FS_Interval DEF Tracks
<1>2. IsFiniteSet({"staging", "final"})
  <2>1. IsFiniteSet({"staging"}) /\ {"staging", "final"} = {"staging"} \cup {"final"}
    BY FS_Singleton
  <2> QED BY <2>1, FS_AddElement
<1>3. IsFiniteSet(Places)
  BY <1>2, KeysAssumption, FS_Product DEF Places
<1> QED BY <1>1, <1>3, AlbumAssumption

LEMMA SizesAreNat == \A d : TrackSize(d) \in Nat /\ SizeOf(d) \in Nat /\ TrackSize(d) <= SizeOf(d)
<1> SUFFICES ASSUME NEW d
             PROVE  TrackSize(d) \in Nat /\ SizeOf(d) \in Nat /\ TrackSize(d) <= SizeOf(d)
  OBVIOUS
<1> DEFINE S == TracksOf(d)
<1>1. IsFiniteSet(S) /\ \A t \in S : TrackBytes[t] \in Nat
  BY FiniteSums, FS_Subset DEF TracksOf
<1> HIDE DEF S
<1>2. SumFunctionOnSet(TrackBytes, S) \in Nat
  BY <1>1, SumIsNat
<1>3. TrackSize(d) \in Nat
  BY <1>2 DEF TrackSize, TracksBytes, S
<1> HIDE DEF S
<1> QED BY <1>3, AlbumAssumption DEF SizeOf

(* The counters, the rows and the marks of an eviction and of a purge. *)
LedgerType ==
  /\ stamp \in [Keys -> Nat] /\ bytes \in [Keys -> Nat] /\ now \in Nat
  /\ order \in [Keys -> Nat] /\ served \in [Keys -> Nat] /\ missed \subseteq Keys
  /\ victims \subseteq Keys /\ doomed \subseteq Keys /\ admin \in {"idle", "forgetting"}
  /\ purges \in Nat /\ crashes \in Nat

(* What a job carries through its delivery. *)
TransferType ==
  /\ next \in 1..(NTracks + 1) /\ NextTrack
  /\ archive \subseteq Contents /\ sent \subseteq Contents
  /\ dest \in {"telegram", "server"} /\ fresh \in BOOLEAN

LEMMA LedgerNext == Shape /\ LedgerType /\ [Next]_vars => LedgerType'
<1> SUFFICES ASSUME Shape, LedgerType, [Next]_vars PROVE LedgerType'
  OBVIOUS
<1> USE DEF LedgerType
<1>1. CASE Record
  <2>1. key \in Keys /\ TrackSize(Entry(key)) \in Nat
    BY SizesAreNat DEF Shape
  <2>2. now' \in Nat /\ stamp' \in [Keys -> Nat] /\ bytes' \in [Keys -> Nat]
    BY <1>1, <2>1 DEF Record
  <2> QED BY <1>1, <2>2 DEF Record, job, purger
<1>2. CASE Deliver /\ UNCHANGED <<rows, order, victims, purger, crashes>>
  BY <1>2 DEF Deliver, rows, purger, Shape
<1>3. CASE ReadOrder
  BY <1>3 DEF ReadOrder, rows, purger, history
<1>4. CASE Evict
  BY <1>4, EvictedIs DEF Evict, rows, purger
<1>5. CASE Forget
  BY <1>5 DEF Forget, ForgetRow, rows, purger, history
<1>6. CASE PurgeForget
  BY <1>6 DEF PurgeForget, ForgetRow, job, history
<1>7. ASSUME NEW S \in SUBSET Keys, Purging(S) PROVE LedgerType'
  BY <1>7 DEF Purging, Purge, rows, job
<1>8. CASE Crash
  BY <1>8 DEF Crash, rows
<1>9. CASE Raise \/ CommitRaises
  BY <1>9 DEF Raise, CommitRaises, Fail, rows, job, purger
<1>10. ASSUME UNCHANGED <<rows, order, victims, purger, crashes, served, missed>>
       PROVE  LedgerType'
  BY <1>10 DEF rows, purger
<1>11. CASE (\E k \in Keys : StartJob(k) \/ Resolve(k)) \/ Lookup \/ BeginCommit \/ Stage
             \/ WriteManifest \/ Publish \/ PackNext \/ EndPackage \/ ReadTotal \/ Restart
             \/ (\E p \in Places : RemoveFile(p)) \/ UNCHANGED vars
  <2>1. UNCHANGED <<rows, order, victims, purger, crashes, served, missed>>
    BY <1>11 DEF StartJob, Resolve, Lookup, BeginCommit, Stage, WriteManifest, Publish, PackNext, EndPackage,
                 ReadTotal, Restart, RemoveFile, vars, job, history
  <2> QED BY <2>1, <1>10
<1>12. CASE SendArchive \/ SendTrack \/ SendLink
  <2>1. /\ UNCHANGED <<rows, order, victims, purger, crashes>>
        /\ Deliver \/ UNCHANGED <<served, missed>>
    BY <1>12 DEF SendArchive, SendTrack, SendLink, TooLarge, Fail
  <2> QED BY <2>1, <1>2, <1>10
<1> HIDE DEF LedgerType
<1> QED BY PurgesAre, <1>1, <1>3, <1>4, <1>5, <1>6, <1>7, <1>8, <1>9, <1>11, <1>12
        DEF Next, WorkerStep

LEMMA TransferNext == Shape /\ TransferType /\ [Next]_vars => TransferType'
<1> SUFFICES ASSUME Shape, TransferType, [Next]_vars PROVE TransferType'
  OBVIOUS
<1> USE AlbumAssumption DEF TransferType, NextTrack
<1>0. \A k \in Keys, t \in Tracks : Entry(k).files[t] \in Nat
  BY PlacesOf DEF Shape, Entry, Dir
<1>1. ASSUME NEW k \in Keys, StartJob(k) PROVE TransferType'
  <2>1. next' = 1 /\ archive' = {} /\ sent' = {} /\ fresh' = FALSE
    BY <1>1 DEF StartJob
  <2>2. dest' \in {"telegram", "server"} /\ pc' \in {"lookup", "fetch"}
    BY <1>1 DEF StartJob, Goto
  <2>3. next' \in 1..(NTracks + 1)
    BY <2>1
  <2> QED BY <2>1, <2>2, <2>3
<1>2. CASE Publish
  BY <1>2 DEF Publish, Goto
<1>3. CASE PackNext
  <2>1. archive' \subseteq Contents
    BY <1>0, <1>3 DEF PackNext, Contents, Builds, Shape
  <2>2. next' \in 1..(NTracks + 1) /\ pc' = "package"
    BY <1>3 DEF PackNext, Tracks
  <2> QED BY <1>3, <2>1, <2>2 DEF PackNext
<1>4. CASE EndPackage
  BY <1>4 DEF EndPackage, Goto
<1>5. CASE SendArchive
  <2>1. next = 1 /\ 1 \in Tracks
    BY <1>5 DEF SendArchive, Tracks
  <2>2. sent' \subseteq Contents
    BY <1>5 DEF SendArchive, Receive
  <2>3. pc' \in {"tracks", "link", "idle", "delivered"}
    BY <1>5 DEF SendArchive, TooLarge, Fail, Deliver, Goto
  <2> QED BY <1>5, <2>1, <2>2, <2>3 DEF SendArchive
<1>6. CASE SendTrack
  <2>1. next \in Tracks /\ Entry(key).files[next] \in Nat
    BY <1>0, <1>6 DEF SendTrack, Shape
  <2>2. \/ pc' \in {"link", "idle"} /\ UNCHANGED <<sent, next>>
        \/ /\ sent' = sent \union {<<next, Entry(key).files[next]>>} /\ next' = next + 1
           /\ Entry(key).files[next] # 0
           /\ pc' = IF next = NTracks THEN "delivered" ELSE "tracks"
    BY <1>6 DEF SendTrack, TooLarge, Fail, Deliver, Goto, Receive
  <2>3. sent' \subseteq Contents
    BY <2>1, <2>2 DEF Contents, Builds
  <2>4. next' \in 1..(NTracks + 1) /\ (pc' = "tracks" => next' \in Tracks) /\ pc' # "send"
    BY <2>1, <2>2 DEF Tracks
  <2> QED BY <1>6, <2>3, <2>4 DEF SendTrack
<1>7. CASE SendLink
  <2>1. Outgoing \subseteq Contents
    <3>1. 1 \in Tracks /\ Entry(key).files[1] \in Nat
      BY <1>0 DEF Tracks, Shape
    <3> QED BY <3>1 DEF Outgoing, Contents, Builds
  <2>2. sent' \subseteq Contents /\ pc' \in {"idle", "delivered"}
    BY <1>7, <2>1 DEF SendLink, Fail, Deliver, Receive, Goto
  <2> QED BY <1>7, <2>2 DEF SendLink
<1>8. ASSUME UNCHANGED <<next, archive, sent, dest, fresh>>, pc' \in {"send", "tracks"} => pc' = pc
      PROVE  TransferType'
  BY <1>8
<1>9. CASE (\E k \in Keys : Resolve(k)) \/ Lookup \/ BeginCommit \/ Stage \/ WriteManifest
  <2>1. UNCHANGED <<next, archive, sent, dest, fresh>> /\ pc' \notin {"send", "tracks"}
    BY <1>9 DEF Resolve, Lookup, Get, BeginCommit, Stage, WriteManifest, Goto, job
  <2> QED BY <2>1, <1>8
<1>10. CASE Raise \/ CommitRaises \/ Record \/ ReadTotal \/ ReadOrder \/ Evict \/ Forget
             \/ Crash
  <2>1. UNCHANGED <<next, archive, sent, dest, fresh>>
        /\ (pc' \in {"send", "tracks"} => pc' = pc)
    BY <1>10 DEF Raise, CommitRaises, Fail, Record, ReadTotal, ReadOrder, Evict, Forget, Crash,
                 Goto, job
  <2> QED BY <2>1, <1>8
<1>11. CASE (\E S \in SUBSET Keys : Purging(S)) \/ PurgeForget \/ Restart
             \/ (\E p \in Places : RemoveFile(p)) \/ UNCHANGED vars
  <2>1. UNCHANGED <<next, archive, sent, dest, fresh, pc>>
    BY <1>11 DEF Purging, Purge, PurgeForget, Restart, RemoveFile, vars, job
  <2> QED BY <2>1, <1>8
<1> HIDE DEF TransferType
<1> QED BY PurgesAre, <1>1, <1>2, <1>3, <1>4, <1>5, <1>6, <1>7, <1>9, <1>10, <1>11
        DEF Next, WorkerStep

LEMMA LedgerInit == Init => LedgerType
<1> SUFFICES ASSUME Init PROVE LedgerType
  OBVIOUS
<1>1. /\ stamp \in [Keys -> Nat] /\ bytes \in [Keys -> Nat] /\ now = 1
      /\ order \in [Keys -> Nat] /\ served \in [Keys -> Nat]
  BY DEF Init
<1>2. missed = {} /\ victims = {} /\ doomed = {} /\ admin = "idle" /\ purges = 0 /\ crashes = 0
  BY DEF Init
<1> QED BY <1>1, <1>2 DEF LedgerType

LEMMA TransferInit == Init => TransferType
<1> SUFFICES ASSUME Init PROVE TransferType
  OBVIOUS
<1>1. next = 1 /\ archive = {} /\ sent = {} /\ dest = "telegram" /\ fresh = FALSE /\ pc = "idle"
  BY DEF Init
<1>2. next \in 1..(NTracks + 1)
  BY <1>1, AlbumAssumption
<1> QED BY <1>1, <1>2 DEF TransferType, NextTrack

(* What the disk, the rows and the job are made of stays what it should be through *)
(* every purge, eviction, failure and crash; the sizes that are summed are sizes.  *)
THEOREM CacheTypeCorrect == Spec => []TypeOK
<1>1. Init => LedgerType /\ TransferType
  BY LedgerInit, TransferInit
<1>2. Shape /\ LedgerType /\ TransferType => TypeOK
  BY DEF Shape, LedgerType, TransferType, TypeOK
<1> QED BY <1>1, <1>2, LedgerNext, TransferNext, CacheCorrect, PTL DEF Spec

LEMMA EmptyWeighsNothing == SizeOf(Empty) = 0
<1>1. TracksOf(Empty) = {} /\ Empty.manifest = 0
  BY DEF Empty, TracksOf
<1>2. SumFunctionOnSet(TrackBytes, {}) = 0
  BY SumStep, FS_EmptySet
<1>3. TrackSize(Empty) = 0
  BY <1>1, <1>2 DEF TrackSize, TracksBytes
<1> QED BY <1>1, <1>3 DEF SizeOf

Emptied(S) == [p \in Places |-> IF p[1] = "final" /\ p[2] \in S THEN Empty ELSE disk[p]]

(* The disk without some entries holds less by just their sizes. *)
LEMMA UsageSplits ==
  ASSUME NEW S \in SUBSET Keys
  PROVE  UsageWithout(S) + SumFunctionOnSet(EntrySizes(disk), S) = Usage(disk)
<1> DEFINE h == EntrySizes(disk)
           Q == {T \in SUBSET Keys : UsageWithout(T) + SumFunctionOnSet(h, T) = Usage(disk)}
<1>1. \A k \in Keys : h[k] \in Nat /\ h[k] = SizeOf(disk[Final(k)])
  BY SizesAreNat DEF EntrySizes, Final
<1>2. ASSUME NEW T \in SUBSET Keys, \A U \in SUBSET T : U # T => U \in Q PROVE T \in Q
  <2> DEFINE f == [p \in Places |-> SizeOf(Emptied(T)[p])]
  <2>1. UsageWithout(T) = SumFunctionOnSet(f, Places)
    BY DEF UsageWithout, Usage, Emptied
  <2>2. \A p \in Places : f[p] \in Nat
    BY SizesAreNat
  <2>3. CASE T = {}
    <3> DEFINE g == [p \in Places |-> SizeOf(disk[p])]
    <3>1. \A p \in Places : f[p] = g[p]
      BY <2>3 DEF Emptied
    <3>2. Usage(disk) = SumFunctionOnSet(g, Places)
      BY DEF Usage
    <3> HIDE DEF f, g, h
    <3>3. UsageWithout(T) = Usage(disk)
      BY <2>1, <3>1, <3>2, SumSame, FiniteSums
    <3>4. SumFunctionOnSet(h, T) = 0
      BY <2>3, SumStep, FS_EmptySet
    <3>5. UsageWithout(T) \in Nat
      BY <2>1, <2>2, SumIsNat, FiniteSums
    <3> QED BY <3>3, <3>4, <3>5
  <2>4. CASE T # {}
    <3>1. PICK y \in T : TRUE
      BY <2>4
    <3> DEFINE U == T \ {y}
               P == Places \ {Final(y)}
               g == [p \in Places |-> SizeOf(Emptied(U)[p])]
    <3>2. UsageWithout(U) + SumFunctionOnSet(h, U) = Usage(disk)
      <4>1. U \in Q
        BY <1>2
      <4> QED BY <4>1
    <3>3. SumFunctionOnSet(h, T) = h[y] + SumFunctionOnSet(h, U)
      <4>1. IsFiniteSet(T) /\ \A x \in T : h[x] \in Nat
        BY <1>1, KeysAssumption, FS_Subset
      <4> HIDE DEF h
      <4> QED BY <4>1, SumTakeOut
    <3>4. Final(y) \in Places /\ IsFiniteSet(P) /\ P \subseteq Places
      BY PlacesOf, FiniteSums, FS_RemoveElement
    <3>5. f[Final(y)] = 0 /\ g[Final(y)] = h[y]
      BY <1>1, <3>4, EmptyWeighsNothing DEF Emptied, Final
    <3>6. \A p \in P : f[p] = g[p]
      <4> SUFFICES ASSUME NEW p \in P PROVE Emptied(T)[p] = Emptied(U)[p]
        OBVIOUS
      <4>1. p[1] = "final" /\ p[2] = y => p = Final(y)
        BY DEF Places, Final
      <4> QED BY <4>1 DEF Emptied
    <3>7. UsageWithout(U) = SumFunctionOnSet(g, Places)
      BY DEF UsageWithout, Usage, Emptied
    <3>8. \A p \in Places : g[p] \in Nat
      BY SizesAreNat
    <3>9. IsFiniteSet(U) /\ U \subseteq Keys
      BY KeysAssumption, FS_Subset
    <3> HIDE DEF f, g, U, h
    <3>10. SumFunctionOnSet(f, P) = SumFunctionOnSet(g, P)
      <4> HIDE DEF P
      <4> QED BY <3>4, <3>6, SumSame
    <3>11. UsageWithout(T) = f[Final(y)] + SumFunctionOnSet(f, P)
      BY <2>1, <2>2, <3>4, FiniteSums, SumTakeOut
    <3>12. UsageWithout(U) = g[Final(y)] + SumFunctionOnSet(g, P)
      BY <3>7, <3>8, <3>4, FiniteSums, SumTakeOut
    <3> HIDE DEF P
    <3>13. SumFunctionOnSet(g, P) \in Nat
      <4>1. \A p \in P : g[p] \in Nat
        BY <3>4, <3>8
      <4> QED BY <3>4, <4>1, SumIsNat
    <3>14. SumFunctionOnSet(h, U) \in Nat /\ h[y] \in Nat
      <4>1. \A k \in U : h[k] \in Nat
        BY <1>1, <3>9
      <4> QED BY <1>1, <3>9, <4>1, SumIsNat
    <3> QED BY <3>2, <3>3, <3>5, <3>10, <3>11, <3>12, <3>13, <3>14
  <2> HIDE DEF f, h
  <2> QED BY <2>3, <2>4
<1>3. SUBSET Keys \subseteq Q
  <2> HIDE DEF Q
  <2> QED BY <1>2, KeysAssumption, SubsetInduction
<1> QED BY <1>3

LEMMA OlderWeigh ==
  ASSUME NEW age \in [Keys -> Nat], NEW k \in Keys, NEW S \in SUBSET Older(age, k)
  PROVE  /\ SumFunctionOnSet(EntrySizes(disk), S)
              <= SumFunctionOnSet(EntrySizes(disk), Older(age, k))
         /\ SumFunctionOnSet(EntrySizes(disk), S) \in Nat
         /\ SumFunctionOnSet(EntrySizes(disk), Older(age, k)) \in Nat
<1> DEFINE h == EntrySizes(disk)
<1>1. \A j \in Keys : h[j] \in Nat
  BY SizesAreNat DEF EntrySizes
<1>2. Older(age, k) \subseteq Keys
  BY DEF Older
<1>3. IsFiniteSet(Older(age, k)) /\ IsFiniteSet(S)
  BY <1>2, KeysAssumption, FS_Subset
<1> HIDE DEF h
<1>4. \A j \in Older(age, k) : h[j] \in Nat
  BY <1>1, <1>2
<1>5. SumFunctionOnSet(h, S) <= SumFunctionOnSet(h, Older(age, k))
  BY <1>3, <1>4, SumGrows
<1>6. SumFunctionOnSet(h, S) \in Nat /\ SumFunctionOnSet(h, Older(age, k)) \in Nat
  BY <1>3, <1>4, SumIsNat
<1> QED BY <1>5, <1>6 DEF h

LEMMA UsagesAreNat ==
  Usage(disk) \in Nat /\ \A S \in SUBSET Keys : UsageWithout(S) \in Nat
<1>1. ASSUME NEW d PROVE Usage(d) \in Nat
  <2> DEFINE f == [p \in Places |-> SizeOf(d[p])]
  <2>1. \A p \in Places : f[p] \in Nat
    BY SizesAreNat
  <2> HIDE DEF f
  <2>2. SumFunctionOnSet(f, Places) \in Nat
    BY <2>1, FiniteSums, SumIsNat
  <2> QED BY <2>2 DEF f, Usage
<1> QED BY <1>1 DEF UsageWithout

LEMMA OnlyEvictEvicts ==
  ASSUME [Next]_vars, pc = "ordered", pc' = "forget"
  PROVE  Evict
BY PurgesAre
   DEF Next, WorkerStep, vars, StartJob, Resolve, Lookup, Get, BeginCommit, Stage, WriteManifest,
       Publish, CommitRaises, PackNext, EndPackage, SendArchive, SendTrack, SendLink, TooLarge,
       Deliver, Raise, Fail, Record, ReadTotal, ReadOrder, Forget, RemoveFile, Purging, Purge,
       PurgeForget, Crash, Restart, Goto

(* An entry goes only if the disk without those that went before it is still over the *)
(* budget, for any media, sizes and budget, whatever the rows have lost or kept       *)
(* (pipeline/runner.py evict_to_fit).                                                 *)
THEOREM EvictionIsNeeded == Spec => EvictsOnlyWhenOver
<1>1. ASSUME LedgerType, [Next]_vars, pc = "ordered", pc' = "forget", NEW k \in victims'
      PROVE  UsageWithout({j \in victims' : order[j] < order[k]}) > CacheMax
  <2>1. victims' = Victims(Usage(disk), disk, order)
    BY <1>1, OnlyEvictEvicts DEF Evict
  <2> DEFINE S == {j \in victims' : order[j] < order[k]}
             sum(T) == SumFunctionOnSet(EntrySizes(disk), T)
  <2>2. k \in Keys /\ Usage(disk) - sum(Older(order, k)) > CacheMax
    BY <2>1 DEF Victims, Walked
  <2>3. S \subseteq Older(order, k) /\ S \subseteq Keys
    BY <2>1 DEF Victims, Walked, Older
  <2> HIDE DEF S
  <2>4. /\ sum(S) <= sum(Older(order, k))
        /\ sum(S) \in Nat /\ sum(Older(order, k)) \in Nat
    BY <1>1, <2>2, <2>3, OlderWeigh DEF LedgerType
  <2>5. UsageWithout(S) + sum(S) = Usage(disk)
    BY <2>3, UsageSplits
  <2>6. Usage(disk) \in Nat /\ UsageWithout(S) \in Nat /\ CacheMax \in Nat
    BY <2>3, UsagesAreNat, AlbumAssumption
  <2> HIDE DEF sum
  <2>7. UsageWithout(S) > CacheMax
    BY <2>2, <2>4, <2>5, <2>6
  <2> QED BY <2>7 DEF S
<1>2. LedgerType /\ [Next]_vars =>
        [pc = "ordered" /\ pc' = "forget" =>
          \A k \in victims' : UsageWithout({j \in victims' : order[j] < order[k]}) > CacheMax]_vars
  BY <1>1
<1>3. Init => LedgerType
  BY LedgerInit
<1> QED BY <1>2, <1>3, LedgerNext, CacheCorrect, PTL DEF Spec, EvictsOnlyWhenOver

(* The row of an entry whose deliveries were all written down tells when the last *)
(* one was.                                                                       *)
StampInv ==
  /\ pc = "delivered" => served[key] = now /\ key \in missed
  /\ \A k \in Keys \ missed : stamp[k] # 0 => stamp[k] = served[k]

(* So does the order that was read, also for rows a purge has deleted since. *)
AgeInv ==
  pc = "ordered" =>
    \A k \in Keys : /\ order[k] # 0 /\ k \notin missed => order[k] = served[k]
                    /\ stamp[k] # 0 => order[k] = stamp[k]

LEMMA AgeNext ==
  Shape /\ LedgerType /\ StampInv /\ AgeInv /\ [Next]_vars => StampInv' /\ AgeInv'
<1> SUFFICES ASSUME Shape, LedgerType, StampInv, AgeInv, [Next]_vars
             PROVE  StampInv' /\ AgeInv'
  OBVIOUS
<1>k. key \in Keys
  BY DEF Shape
<1> USE DEF LedgerType
<1>1. CASE Record
  <2>1. /\ pc = "delivered" /\ pc' = "recorded" /\ missed' = missed \ {key} /\ served' = served
        /\ \/ stamp' = [stamp EXCEPT ![key] = now]
           \/ stamp' = [stamp EXCEPT ![key] = IF @ = 0 THEN 0 ELSE now]
    BY <1>1 DEF Record, Goto
  <2>2. \A k \in Keys \ {key} : stamp'[k] = stamp[k]
    BY <2>1
  <2>3. stamp'[key] # 0 => stamp'[key] = served[key]
    BY <1>k, <2>1 DEF StampInv
  <2> QED BY <2>1, <2>2, <2>3 DEF StampInv, AgeInv
<1>2. ASSUME Deliver, UNCHANGED <<rows, key>> PROVE StampInv' /\ AgeInv'
  <2>1. pc' = "delivered" /\ served' = [served EXCEPT ![key] = now] /\ missed' = missed \union {key}
    BY <1>2 DEF Deliver, Goto
  <2>2. \A k \in Keys \ missed' : served'[k] = served[k]
    BY <1>k, <2>1
  <2> QED BY <1>2, <1>k, <2>1, <2>2 DEF StampInv, AgeInv, rows
<1>3. CASE ReadOrder
  <2>1. order' = stamp /\ UNCHANGED <<stamp, served, missed>> /\ pc' = "ordered"
    BY <1>3 DEF ReadOrder, Goto, rows, history
  <2> QED BY <2>1 DEF StampInv, AgeInv
<1>4. ASSUME NEW k \in Keys, ForgetRow(k), UNCHANGED <<order, key, served, missed>>, pc' = pc
      PROVE  StampInv' /\ AgeInv'
  <2>1. stamp' = [stamp EXCEPT ![k] = 0] /\ now' = now
    BY <1>4 DEF ForgetRow
  <2>2. \A j \in Keys : stamp'[j] # 0 => stamp'[j] = stamp[j]
    BY <2>1
  <2> QED BY <1>4, <2>1, <2>2 DEF StampInv, AgeInv
<1>5. ASSUME UNCHANGED <<rows, served, missed>>, pc' \notin {"delivered", "ordered"}
      PROVE  StampInv' /\ AgeInv'
  BY <1>5 DEF StampInv, AgeInv, rows
<1>6. ASSUME UNCHANGED <<rows, served, missed, order, key, pc>>
      PROVE  StampInv' /\ AgeInv'
  BY <1>6 DEF StampInv, AgeInv, rows
<1>7. CASE (\E k \in Keys : StartJob(k) \/ Resolve(k)) \/ Lookup \/ BeginCommit \/ Stage
             \/ WriteManifest \/ Publish \/ CommitRaises \/ EndPackage \/ ReadTotal \/ Evict
             \/ Raise \/ Crash
  <2>1. UNCHANGED <<rows, served, missed>> /\ pc' \notin {"delivered", "ordered"}
    BY <1>7 DEF StartJob, Resolve, Lookup, Get, BeginCommit, Stage, WriteManifest, Publish,
                CommitRaises, EndPackage, ReadTotal, Evict, Raise, Fail, Crash, Goto, history
  <2> QED BY <2>1, <1>5
<1>8. CASE PackNext \/ Restart \/ (\E p \in Places : RemoveFile(p)) \/ UNCHANGED vars
             \/ \E S \in SUBSET Keys : Purging(S)
  <2>1. UNCHANGED <<rows, served, missed, order, key, pc>>
    BY <1>8 DEF PackNext, Restart, RemoveFile, vars, Purging, Purge, job, history
  <2> QED BY <2>1, <1>6
<1>9. CASE SendArchive \/ SendTrack \/ SendLink
  <2>1. /\ UNCHANGED <<rows, key>>
        /\ \/ Deliver
           \/ UNCHANGED <<served, missed>> /\ pc' \notin {"delivered", "ordered"}
    BY <1>9 DEF SendArchive, SendTrack, SendLink, TooLarge, Fail, Goto
  <2> QED BY <2>1, <1>2, <1>5
<1>10. CASE Forget
  <2>1. UNCHANGED <<order, key, served, missed>>
    BY <1>10 DEF Forget, history
  <2>2. CASE UNCHANGED rows /\ pc' = "settled"
    BY <2>1, <2>2, <1>5
  <2>3. ASSUME NEW k \in victims, ForgetRow(k), pc' = pc PROVE StampInv' /\ AgeInv'
    BY <2>1, <2>3, <1>4
  <2> QED BY <1>10, <2>2, <2>3 DEF Forget, Goto
<1>11. CASE PurgeForget
  <2>1. UNCHANGED <<order, key, served, missed>> /\ pc' = pc
    BY <1>11 DEF PurgeForget, job, history
  <2>2. PICK k \in doomed : ForgetRow(k)
    BY <1>11 DEF PurgeForget
  <2> QED BY <2>1, <2>2, <1>4
<1> HIDE DEF LedgerType
<1> QED BY PurgesAre, <1>1, <1>3, <1>7, <1>8, <1>9, <1>10, <1>11
        DEF Next, WorkerStep

(* No entry is evicted while one that was delivered earlier is kept, as long as the *)
(* deliveries of both were written down: an eviction may pass over an entry only if *)
(* its row is gone (queue/repository.py cache_keys_by_age, runner.py evict_to_fit). *)
THEOREM TheOldestGoFirst == Spec => EvictsLeastRecentlyServed
<1>1. ASSUME Shape, SweptInv, LedgerType, StampInv, AgeInv, [Next]_vars,
             pc = "ordered", pc' = "forget",
             NEW k \in victims' \ missed, NEW j \in (Cached \ victims') \ missed, stamp[j] # 0
      PROVE  served[k] <= served[j]
  <2>1. victims' = Victims(Usage(disk), disk, order)
    BY <1>1, OnlyEvictEvicts DEF Evict
  <2> DEFINE sum(S) == SumFunctionOnSet(EntrySizes(disk), S)
  <2>2. k \in Keys /\ order[k] # 0 /\ Usage(disk) - sum(Older(order, k)) > CacheMax
    BY <2>1 DEF Victims, Walked
  <2>3. j \in Keys /\ order[j] # 0 /\ order[j] = served[j] /\ order[k] = served[k]
    BY <1>1, <2>2 DEF AgeInv, StampInv, Cached
  <2>4. disk[<<"final", j>>] # Empty
    BY EmptyIsDir DEF Cached, Entry, Final
  <2>5. ~(Usage(disk) - sum(Older(order, j)) > CacheMax)
    BY <2>1, <2>3, <2>4 DEF Victims, Walked
  <2>6. order[k] \in Nat /\ order[j] \in Nat
    BY <1>1, <2>2, <2>3 DEF LedgerType
  <2>7. SUFFICES ASSUME order[j] < order[k] PROVE FALSE
    BY <2>3, <2>6
  <2>8. Older(order, j) \subseteq Older(order, k)
    <3>1. order \in [Keys -> Nat]
      BY <1>1 DEF LedgerType
    <3> QED BY <2>6, <2>7, <3>1 DEF Older
  <2>9. /\ sum(Older(order, j)) <= sum(Older(order, k))
        /\ sum(Older(order, j)) \in Nat /\ sum(Older(order, k)) \in Nat
    BY <1>1, <2>2, <2>8, OlderWeigh DEF LedgerType
  <2>10. Usage(disk) \in Nat /\ CacheMax \in Nat
    BY UsagesAreNat, AlbumAssumption
  <2> HIDE DEF sum
  <2> QED BY <2>2, <2>5, <2>9, <2>10
<1>2. Shape /\ SweptInv /\ LedgerType /\ StampInv /\ AgeInv /\ [Next]_vars =>
        [pc = "ordered" /\ pc' = "forget" =>
           \A k \in victims' \ missed, j \in (Cached \ victims') \ missed :
             stamp[j] # 0 => served[k] <= served[j]]_vars
  BY <1>1
<1>3. Init => StampInv /\ AgeInv
  BY DEF Init, StampInv, AgeInv
<1>4. Init => LedgerType
  BY LedgerInit
<1> QED BY <1>2, <1>3, <1>4, LedgerNext, AgeNext, CacheCorrect, PTL
        DEF Spec, EvictsLeastRecentlyServed

-----------------------------------------------------------------------------
(* The budget. *)

(* The entries that stay: no removal of them is under way. *)
Staying == {k \in Cached : Final(k) \notin removing}
Recorded == {k \in Keys : stamp[k] # 0}

(* What an eviction that is over, or that was not called for, leaves: rows within the *)
(* budget, entries within the budget, or entries that no row tells of.                *)
Fits ==
  \/ TotalBytes(stamp, bytes) <= CacheMax
  \/ SumFunctionOnSet(EntrySizes(disk), Staying) <= CacheMax
  \/ Staying \cap Recorded = {}

BudgetInv == pc \in {"forget", "settled"} => Fits

LEMMA EntriesWeigh ==
  \A S \in SUBSET Keys :
    /\ IsFiniteSet(S) /\ SumFunctionOnSet(EntrySizes(disk), S) \in Nat
    /\ \A k \in S : EntrySizes(disk)[k] = SizeOf(Entry(k)) /\ EntrySizes(disk)[k] \in Nat
<1> SUFFICES ASSUME NEW S \in SUBSET Keys
             PROVE  /\ IsFiniteSet(S) /\ SumFunctionOnSet(EntrySizes(disk), S) \in Nat
                    /\ \A k \in S : /\ EntrySizes(disk)[k] = SizeOf(Entry(k))
                                    /\ EntrySizes(disk)[k] \in Nat
  OBVIOUS
<1>1. IsFiniteSet(S)
  BY KeysAssumption, FS_Subset
<1>2. \A k \in S : EntrySizes(disk)[k] = SizeOf(Entry(k)) /\ EntrySizes(disk)[k] \in Nat
  BY SizesAreNat DEF EntrySizes, Entry, Final
<1>3. SumFunctionOnSet(EntrySizes(disk), S) \in Nat
  BY <1>1, <1>2, SumIsNat
<1> QED BY <1>1, <1>2, <1>3

(* Entries and rows only disappear: what fits goes on fitting. *)
LEMMA FitsShrinks ==
  ASSUME LedgerType, Fits, Staying' \subseteq Staying,
         \A k \in Staying' : Entry(k)' = Entry(k),
         \A k \in Keys : stamp'[k] # 0 => stamp'[k] = stamp[k] /\ bytes'[k] = bytes[k]
  PROVE  Fits'
<1>1. Recorded' \subseteq Recorded /\ Recorded \subseteq Keys /\ Staying \subseteq Keys
  BY DEF Recorded, Staying, Cached
<1>2. CASE TotalBytes(stamp, bytes) <= CacheMax
  <2>1. IsFiniteSet(Recorded) /\ \A k \in Recorded : bytes[k] \in Nat
    BY <1>1, KeysAssumption, FS_Subset DEF LedgerType
  <2>2. IsFiniteSet(Recorded') /\ \A k \in Recorded' : bytes'[k] = bytes[k]
    BY <1>1, <2>1, FS_Subset DEF Recorded
  <2>3. SumFunctionOnSet(bytes', Recorded') = SumFunctionOnSet(bytes, Recorded')
    BY <2>2, SumSame
  <2>4. SumFunctionOnSet(bytes, Recorded') <= SumFunctionOnSet(bytes, Recorded)
    BY <1>1, <2>1, SumGrows
  <2>5. /\ SumFunctionOnSet(bytes, Recorded) \in Nat
        /\ SumFunctionOnSet(bytes, Recorded') \in Nat
    BY <1>1, <2>1, <2>2, SumIsNat
  <2>6. /\ TotalBytes(stamp, bytes) = SumFunctionOnSet(bytes, Recorded)
        /\ TotalBytes(stamp, bytes)' = SumFunctionOnSet(bytes', Recorded')
    BY DEF TotalBytes, Recorded
  <2>7. TotalBytes(stamp, bytes)' <= CacheMax
    BY <1>2, <2>3, <2>4, <2>5, <2>6, AlbumAssumption
  <2> QED BY <2>7 DEF Fits
<1>3. CASE SumFunctionOnSet(EntrySizes(disk), Staying) <= CacheMax
  <2> DEFINE h == EntrySizes(disk)
  <2>1. \A k \in Staying' : EntrySizes(disk')[k] = h[k]
    BY <1>1 DEF EntrySizes, Entry, Final
  <2>2. /\ IsFiniteSet(Staying) /\ IsFiniteSet(Staying') /\ \A k \in Staying : h[k] \in Nat
        /\ SumFunctionOnSet(h, Staying) \in Nat /\ SumFunctionOnSet(h, Staying') \in Nat
    BY <1>1, EntriesWeigh
  <2> HIDE DEF h
  <2>3. SumFunctionOnSet(EntrySizes(disk'), Staying') = SumFunctionOnSet(h, Staying')
    BY <2>1, <2>2, SumSame
  <2>4. SumFunctionOnSet(h, Staying') <= SumFunctionOnSet(h, Staying)
    BY <2>2, SumGrows
  <2>5. SumFunctionOnSet(EntrySizes(disk'), Staying') <= CacheMax
    BY <1>3, <2>2, <2>3, <2>4, AlbumAssumption DEF h
  <2> QED BY <2>5 DEF Fits
<1>4. CASE Staying \cap Recorded = {}
  BY <1>1, <1>4 DEF Fits
<1> QED BY <1>2, <1>3, <1>4 DEF Fits

(* An eviction stops at the first entry with a row whose elders leave no more than *)
(* the budget; what stays weighs no more than that.                                *)
LEMMA EvictionFits ==
  ASSUME Shape, LedgerType, AgeInv, Evict
  PROVE  Fits'
<1>1. /\ pc = "ordered" /\ victims' = Victims(Usage(disk), disk, order)
      /\ removing = {} /\ UNCHANGED <<disk, stamp, bytes>>
  BY DEF Evict, LoopFree, rows
<1>2. Staying' = {k \in Cached : k \notin victims'} /\ Staying' \subseteq Keys
  <2>1. \A k \in Keys : Final(k) \in removing' <=> k \in victims'
    BY EvictedIs
  <2>2. Cached' = Cached /\ Cached \subseteq Keys
    BY <1>1 DEF Cached, Entry
  <2> QED BY <2>1, <2>2 DEF Staying
<1>3. Recorded' = Recorded /\ \A k \in Recorded : k \in Keys /\ order[k] # 0
  BY <1>1 DEF Recorded, AgeInv
<1> DEFINE A == {k \in Keys : order[k] # 0 /\ disk[Final(k)] # Empty /\ k \notin victims'}
<1>4. \A k \in Staying' : k \in Recorded \/ order[k] # 0 => k \in A
  <2>1. \A k \in Cached : disk[Final(k)] # Empty
    BY EmptyIsDir DEF Cached, Entry
  <2> QED BY <1>2, <1>3, <2>1
<1>5. SUFFICES ASSUME Staying' \cap Recorded # {}
               PROVE  SumFunctionOnSet(EntrySizes(disk), Staying') <= CacheMax
  BY <1>1, <1>3 DEF Fits
<1>6. PICK c \in A : \A k \in A : order[c] <= order[k]
  <2>1. A # {} /\ \A k \in A : order[k] \in Nat
    BY <1>4, <1>5 DEF LedgerType
  <2> HIDE DEF A
  <2> QED BY <2>1, LeastExists
<1>7. c \in Keys /\ ~(Usage(disk) - SumFunctionOnSet(EntrySizes(disk), Older(order, c)) > CacheMax)
  BY <1>1, <1>6 DEF Victims, Walked, Final
<1>8. Older(order, c) \cap Staying' = {}
  <2> SUFFICES ASSUME NEW k \in Staying', k \in Older(order, c) PROVE FALSE
    OBVIOUS
  <2>1. k \in Keys /\ order[k] # 0 /\ order[k] < order[c]
    BY DEF Older
  <2>2. k \in A /\ order[k] \in Nat /\ order[c] \in Nat
    BY <1>4, <1>7, <2>1 DEF LedgerType
  <2> QED BY <1>6, <2>1, <2>2
<1> HIDE DEF A
<1> DEFINE O == Older(order, c)
           K == Staying'
           sum(S) == SumFunctionOnSet(EntrySizes(disk), S)
<1>9. O \subseteq Keys /\ K \subseteq Keys /\ O \cap K = {}
  BY <1>2, <1>8 DEF Older
<1> HIDE DEF O, K
<1>10. sum(O \union K) = sum(O) + sum(K)
  <2>1. IsFiniteSet(Keys) /\ \A k \in Keys : EntrySizes(disk)[k] \in Nat
    BY EntriesWeigh
  <2> QED BY <1>9, <2>1, SumOfParts
<1>11. UsageWithout(O \union K) + sum(O \union K) = Usage(disk)
  <2>1. O \union K \in SUBSET Keys
    BY <1>9
  <2> QED BY <2>1, UsageSplits
<1>12. /\ UsageWithout(O \union K) \in Nat /\ Usage(disk) \in Nat /\ CacheMax \in Nat
       /\ sum(O) \in Nat /\ sum(K) \in Nat
  BY <1>9, UsagesAreNat, EntriesWeigh, AlbumAssumption
<1>13. ~(Usage(disk) - sum(O) > CacheMax)
  BY <1>7 DEF O
<1> HIDE DEF sum
<1>14. sum(K) <= CacheMax
  BY <1>10, <1>11, <1>12, <1>13
<1> QED BY <1>14 DEF sum, K

LEMMA BudgetNext ==
  Shape /\ LedgerType /\ AgeInv /\ BudgetInv /\ [Next]_vars => BudgetInv'
<1> SUFFICES ASSUME Shape, LedgerType, AgeInv, BudgetInv, [Next]_vars,
                    pc' \in {"forget", "settled"}
             PROVE  Fits'
  BY DEF BudgetInv
<1>1. CASE ReadTotal
  <2>1. TotalBytes(stamp, bytes) <= CacheMax
    BY <1>1 DEF ReadTotal, Goto
  <2>2. TotalBytes(stamp, bytes)' = TotalBytes(stamp, bytes)
    BY <1>1 DEF ReadTotal, rows, TotalBytes
  <2> QED BY <2>1, <2>2 DEF Fits
<1>2. CASE Evict
  BY <1>2, EvictionFits
<1>3. ASSUME pc' = pc \/ pc = "forget", UNCHANGED <<disk, removing>>,
             \A k \in Keys : stamp'[k] # 0 => stamp'[k] = stamp[k] /\ bytes'[k] = bytes[k]
      PROVE  Fits'
  <2>1. Staying' = Staying /\ \A k \in Staying' : Entry(k)' = Entry(k)
    BY <1>3 DEF Staying, Cached, Entry
  <2>2. Fits
    BY <1>3 DEF BudgetInv
  <2> QED BY <1>3, <2>1, <2>2, FitsShrinks
<1>4. ASSUME NEW k \in Keys, ForgetRow(k)
      PROVE  \A j \in Keys : stamp'[j] # 0 => stamp'[j] = stamp[j] /\ bytes'[j] = bytes[j]
  BY <1>4 DEF ForgetRow, LedgerType
<1>5. CASE Forget
  <2>1. pc = "forget" /\ UNCHANGED <<disk, removing>>
    BY <1>5 DEF Forget
  <2>2. CASE UNCHANGED rows
    BY <1>3, <2>1, <2>2 DEF rows
  <2>3. ASSUME NEW k \in victims, ForgetRow(k) PROVE Fits'
    BY <1>3, <1>4, <2>1, <2>3 DEF LedgerType
  <2> QED BY <1>5, <2>2, <2>3 DEF Forget
<1>6. CASE PurgeForget
  <2>1. pc' = pc /\ UNCHANGED <<disk, removing>>
    BY <1>6 DEF PurgeForget
  <2>2. PICK k \in doomed : ForgetRow(k)
    BY <1>6 DEF PurgeForget
  <2> QED BY <1>3, <1>4, <2>1, <2>2 DEF LedgerType
<1>7. ASSUME NEW p \in Places, RemoveFile(p) PROVE Fits'
  <2>1. /\ p \in removing /\ pc' = pc /\ UNCHANGED <<stamp, bytes>>
        /\ \E f \in Pieces(disk[p]) :
             /\ disk' = [disk EXCEPT ![p] = Without(disk[p], f)]
             /\ removing' = removing \/ removing' = removing \ {p}
    BY <1>7 DEF RemoveFile, rows
  <2>2. disk[p] \in Dir
    BY DEF Shape
  <2>3. PICK d \in Dir : ~Valid(d) /\ disk' = [disk EXCEPT ![p] = d]
    BY <2>1, <2>2, WithoutIsDir
  <2>4. \A k \in Keys : Entry(k)' = IF Final(k) = p THEN d ELSE Entry(k)
    BY <2>3, PlacesOf DEF Shape, Entry
  <2>5. \A k \in Staying' : k \in Staying /\ Entry(k)' = Entry(k)
    <3> SUFFICES ASSUME NEW k \in Staying' PROVE k \in Staying /\ Entry(k)' = Entry(k)
      OBVIOUS
    <3>1. k \in Keys /\ Valid(Entry(k)') /\ Final(k) \notin removing'
      BY DEF Staying, Cached, Entry, Final
    <3>2. Final(k) # p /\ Entry(k)' = Entry(k)
      BY <2>3, <2>4, <3>1
    <3>3. Final(k) \notin removing
      BY <2>1, <3>1, <3>2
    <3> QED BY <3>1, <3>2, <3>3 DEF Staying, Cached
  <2>6. Fits
    BY <2>1 DEF BudgetInv
  <2> QED BY <2>1, <2>5, <2>6, FitsShrinks
<1>8. ASSUME NEW S \in SUBSET Keys, Purging(S) PROVE Fits'
  <2>1. /\ pc' = pc /\ UNCHANGED <<disk, stamp, bytes>> /\ removing = {}
    BY <1>8 DEF Purging, Purge, LoopFree, rows
  <2>2. Staying' \subseteq Staying /\ \A k \in Staying' : Entry(k)' = Entry(k)
    BY <2>1 DEF Staying, Cached, Entry
  <2>3. Fits
    BY <2>1 DEF BudgetInv
  <2> QED BY <2>1, <2>2, <2>3, FitsShrinks
<1>9. CASE UNCHANGED vars
  BY <1>3, <1>9 DEF vars, rows
<1>10. CASE Restart
  <2>1. pc' = "idle"
    BY <1>10 DEF Restart, Shape
  <2> QED BY <2>1
<1>11. CASE (\E k \in Keys : StartJob(k) \/ Resolve(k)) \/ Lookup \/ BeginCommit \/ Stage
             \/ WriteManifest \/ Publish \/ CommitRaises \/ PackNext \/ EndPackage \/ SendArchive
             \/ SendTrack \/ SendLink \/ Raise \/ Record \/ ReadOrder \/ Crash
  <2>1. pc' \notin {"forget", "settled"}
    BY <1>11 DEF StartJob, Resolve, Lookup, Get, BeginCommit, Stage, WriteManifest, Publish,
                 CommitRaises, PackNext, EndPackage, SendArchive, SendTrack, SendLink, TooLarge, Deliver, Raise, Fail,
                 Record, ReadOrder, Crash, Goto
  <2> QED BY <2>1
<1> QED BY PurgesAre, <1>1, <1>2, <1>5, <1>6, <1>7, <1>8, <1>9, <1>10, <1>11
        DEF Next, WorkerStep

(* The tracks of some entries weigh no more than the entries. *)
LEMMA TracksWeighLess ==
  ASSUME NEW S \in SUBSET Keys
  PROVE  /\ SumFunctionOnSet(TrackSizes, S) \in Nat
         /\ SumFunctionOnSet(TrackSizes, S) <= SumFunctionOnSet(EntrySizes(disk), S)
<1>1. IsFiniteSet(S)
  BY KeysAssumption, FS_Subset
<1>2. \A k \in S : /\ TrackSizes[k] \in Nat /\ EntrySizes(disk)[k] \in Nat
                   /\ TrackSizes[k] <= EntrySizes(disk)[k]
  BY SizesAreNat DEF TrackSizes, EntrySizes, Entry, Final
<1> QED BY <1>1, <1>2, SumIsNat, SumLess

(* After the bookkeeping of a job the tracks of the entries are within the budget, if *)
(* every entry has a row of its tracks' size: what escapes is the entry of a job that *)
(* failed after its commit or was purged under it, manifests, covers, and what failed *)
(* commits have left (worker.py _evict_if_needed, runner.py evict_to_fit).            *)
THEOREM TheBudgetIsKept == Spec => []BudgetKeptIfRecorded
<1>1. ASSUME LedgerType, BudgetInv, pc = "settled", LoopFree,
             \A k \in Cached : stamp[k] # 0 /\ bytes[k] = TrackSize(Entry(k))
      PROVE  SumFunctionOnSet(TrackSizes, Cached) <= CacheMax
  <2> DEFINE h == TrackSizes
  <2>1. Staying = Cached /\ Cached \subseteq Recorded /\ Recorded \subseteq Keys
    BY <1>1 DEF LoopFree, Staying, Recorded, Cached
  <2>2. /\ IsFiniteSet(Cached) /\ IsFiniteSet(Recorded)
        /\ \A k \in Cached : h[k] = bytes[k]
    BY <1>1, <2>1, EntriesWeigh DEF TrackSizes
  <2>3. /\ SumFunctionOnSet(h, Cached) \in Nat
        /\ SumFunctionOnSet(h, Cached) <= SumFunctionOnSet(EntrySizes(disk), Cached)
        /\ SumFunctionOnSet(EntrySizes(disk), Cached) \in Nat
    BY <2>1, TracksWeighLess, EntriesWeigh
  <2> HIDE DEF h
  <2>4. \A k \in Recorded : bytes[k] \in Nat
    BY <1>1, <2>1 DEF LedgerType
  <2>5. CASE TotalBytes(stamp, bytes) <= CacheMax
    <3>1. SumFunctionOnSet(h, Cached) = SumFunctionOnSet(bytes, Cached)
      BY <2>2, SumSame
    <3>2. SumFunctionOnSet(bytes, Cached) <= SumFunctionOnSet(bytes, Recorded)
      BY <2>1, <2>2, <2>4, SumGrows
    <3>3. SumFunctionOnSet(bytes, Recorded) \in Nat
      BY <2>2, <2>4, SumIsNat
    <3>4. TotalBytes(stamp, bytes) = SumFunctionOnSet(bytes, Recorded)
      BY DEF TotalBytes, Recorded
    <3> QED BY <2>3, <2>5, <3>1, <3>2, <3>3, <3>4, AlbumAssumption DEF h
  <2>6. CASE SumFunctionOnSet(EntrySizes(disk), Staying) <= CacheMax
    BY <2>1, <2>3, <2>6, AlbumAssumption DEF h
  <2>7. CASE Staying \cap Recorded = {}
    <3>1. Cached = {}
      BY <2>1, <2>7
    <3>2. SumFunctionOnSet(h, Cached) = 0
      BY <2>2, <3>1, SumIsZero
    <3> QED BY <3>2, AlbumAssumption DEF h
  <2> QED BY <1>1, <2>5, <2>6, <2>7 DEF BudgetInv, Fits
<1>2. LedgerType /\ BudgetInv => BudgetKeptIfRecorded
  BY <1>1 DEF BudgetKeptIfRecorded
<1>3. Init => LedgerType /\ StampInv /\ AgeInv /\ BudgetInv
  BY LedgerInit DEF Init, StampInv, AgeInv, BudgetInv
<1> QED BY <1>2, <1>3, LedgerNext, AgeNext, BudgetNext, CacheCorrect, PTL DEF Spec

=============================================================================
