-------------------------- MODULE FileExchangeProofs --------------------------
(***************************************************************************)
(* Proofs about FileExchange, for any set of uploads, any retention, any   *)
(* limit and any number of crashes and purges.                             *)
(***************************************************************************)
EXTENDS FileExchange, TLAPS

(* An upload whose handler has got past the end of the body, and a         *)
(* directory that has its final name, are whole.                           *)
Received == {"closed", "listed", "renamed", "answered"}

WholeInv ==
  \A t \in Tokens :
    /\ upload[t] \in Received \/ dir[t] = "final" => body[t] = "complete" /\ size[t] > 0
    /\ dir[t] = "final" => upload[t] \notin {"none", "begun", "open"}

(* The last write of a file is not later than the commit that dates the answer. *)
TimeInv ==
  /\ \A t \in Tokens : fileTime[t] <= clock
  /\ \A t \in Tokens : upload[t] = "answered" => fileTime[t] + Retention <= expires[t]
  /\ ServedInTime

(* A link that was there when purge_all began is still to come in its       *)
(* listing, is being removed, or is gone; and what is gone never returns,   *)
(* because its handler is past the steps that make a directory or a file.   *)
Past == {"renamed", "answered", "failed", "lost"}

PurgeInv ==
  /\ \A t \in purged : upload[t] \in Past /\ ~Published(t)
  /\ \A t \in condemned :
       /\ upload[t] = "answered"
       /\ \/ <<t, "final">> \in todo["purge"]
          \/ step["purge"] = "unlink" /\ at["purge"] = <<t, "final">>
          \/ ~Published(t)
-----------------------------------------------------------------------------
LEMMA TypeInit == Init => TypeOK
BY SettingsAssumption DEF Init, TypeOK, UploadPc, Names

LEMMA AbortType ==
  ASSUME TypeOK, NEW t \in Tokens, Abort(t)
  PROVE  TypeOK'
BY DEF TypeOK, Abort, tree, removal, UploadPc, Names

LEMMA UploadType ==
  ASSUME TypeOK, NEW t \in Tokens, UploadStep(t)
  PROVE  TypeOK'
<1>1. CASE BeginUpload(t)
  BY <1>1 DEF BeginUpload, TypeOK, removal, UploadPc, Names
<1>2. CASE OpenFile(t)
  BY <1>2, AbortType DEF OpenFile, TypeOK, removal, UploadPc, Names
<1>3. CASE WriteChunk(t)
  <2>1. CASE size[t] < MaxBytes
    <3>1. size[t] + 1 \in 0..MaxBytes
      BY <2>1, SettingsAssumption DEF TypeOK
    <3> QED BY <1>3, <2>1, <3>1 DEF WriteChunk, TypeOK, requests, removal
  <2> QED BY <1>3, <2>1, AbortType DEF WriteChunk
<1>4. CASE FinishBody(t)
  BY <1>4, AbortType DEF FinishBody, TypeOK, tree, removal, UploadPc
<1>5. CASE UploadRaises(t)
  BY <1>5, AbortType DEF UploadRaises
<1>6. CASE CommitList(t)
  BY <1>6, AbortType DEF CommitList, TypeOK, tree, removal, UploadPc
<1>7. CASE CommitRename(t)
  BY <1>7, AbortType DEF CommitRename, TypeOK, removal, UploadPc, Names
<1>8. CASE CommitStat(t)
  BY <1>8, AbortType, SettingsAssumption DEF CommitStat, TypeOK, tree, removal, UploadPc
<1> QED BY <1>1, <1>2, <1>3, <1>4, <1>5, <1>6, <1>7, <1>8 DEF UploadStep

LEMMA TypeNext == TypeOK /\ [Next]_vars => TypeOK'
<1> SUFFICES ASSUME TypeOK, [Next]_vars PROVE TypeOK'
  OBVIOUS
<1>1. CASE \E t \in Tokens : EndBody(t) \/ GoAway(t)
  BY <1>1 DEF EndBody, GoAway, TypeOK, tree, removal
<1>2. CASE \E t \in Tokens : UploadStep(t)
  BY <1>2, UploadType
<1>3. CASE \E t \in Tokens : Download(t) \/ PurgeOne(t)
  BY <1>3 DEF Download, PurgeOne, TypeOK, requests, tree, removal, Names
<1>4. CASE StartSweep \/ SweepRaises \/ StartPurge
  <2>1. Listing \subseteq Entries
    BY DEF Listing, Entries, TypeOK
  <2> QED BY <1>4, <2>1 DEF StartSweep, SweepRaises, StartPurge, TypeOK, requests, tree, Removers
<1>5. CASE \E r \in Removers : Scan(r) \/ EndScan(r)
  <2>1. PICK r \in Removers : Scan(r) \/ EndScan(r)
    BY <1>5
  <2>2. CASE Scan(r)
    <3>1. PICK t \in Tokens, n \in Names :
            /\ todo' = [todo EXCEPT ![r] = @ \ {<<t, n>>}]
            /\ \/ step' = [step EXCEPT ![r] = "unlink"] /\ at' = [at EXCEPT ![r] = <<t, n>>]
               \/ UNCHANGED <<step, at>>
      BY <2>2 DEF Scan
    <3>2. <<t, n>> \in Entries
      BY DEF Entries
    <3>3. step' \in [Removers -> {"idle", "scan", "unlink", "rmdir"}]
      BY <3>1 DEF TypeOK
    <3>4. at' \in [Removers -> Entries \union {NoEntry}]
      BY <3>1, <3>2 DEF TypeOK
    <3>5. todo' \in [Removers -> SUBSET Entries]
      BY <3>1 DEF TypeOK
    <3> QED BY <2>2, <3>3, <3>4, <3>5 DEF Scan, TypeOK, requests, tree
  <2>3. CASE EndScan(r)
    BY <2>3 DEF EndScan, TypeOK, requests, tree
  <2> QED BY <2>1, <2>2, <2>3
<1>6. CASE \E r \in Removers : UnlinkFile(r) \/ RemoveDir(r)
  <2>1. PICK r \in Removers : UnlinkFile(r) \/ RemoveDir(r)
    BY <1>6
  <2>2. file' \in [Tokens -> BOOLEAN] /\ dirTime' \in [Tokens -> Nat]
    BY <2>1 DEF UnlinkFile, RemoveDir, TypeOK
  <2>3. dir' \in [Tokens -> Names \union {"none"}]
    BY <2>1 DEF UnlinkFile, RemoveDir, TypeOK
  <2>4. step' \in [Removers -> {"idle", "scan", "unlink", "rmdir"}]
        /\ at' \in [Removers -> Entries \union {NoEntry}]
    BY <2>1 DEF UnlinkFile, RemoveDir, TypeOK
  <2> QED BY <2>1, <2>2, <2>3, <2>4 DEF UnlinkFile, RemoveDir, TypeOK, requests
<1>7. CASE Tick \/ Crash \/ Restart
  <2>1. CASE Tick
    BY <2>1 DEF Tick, TypeOK, requests, tree, removal
  <2>2. CASE Restart
    BY <2>2 DEF Restart, TypeOK, requests, tree, removal
  <2>3. CASE Crash
    <3>1. upload' \in [Tokens -> UploadPc]
      BY <2>3 DEF Crash, TypeOK, UploadPc
    <3>2. /\ step' \in [Removers -> {"idle", "scan", "unlink", "rmdir"}]
          /\ at' \in [Removers -> Entries \union {NoEntry}]
      BY <2>3 DEF Crash
    <3>4. todo' \in [Removers -> SUBSET Entries]
      <4>1. todo' = [r \in Removers |-> {}]
        BY <2>3 DEF Crash
      <4> QED BY <4>1
    <3>5. crashes' \in Nat /\ up' \in BOOLEAN /\ condemned' \subseteq Tokens
      <4>1. crashes' = crashes + 1 /\ up' = FALSE /\ condemned' = {}
        BY <2>3 DEF Crash
      <4>2. crashes' \in Nat
        BY <4>1 DEF TypeOK
      <4>3. up' \in BOOLEAN
        BY <4>1
      <4> QED BY <4>1, <4>2, <4>3
    <3>3. UNCHANGED <<clock, body, expires, tree, purged, purges, late>>
      BY <2>3 DEF Crash
    <3> QED BY <3>1, <3>2, <3>3, <3>4, <3>5 DEF TypeOK, tree
  <2> QED BY <1>7, <2>1, <2>2, <2>3
<1>8. CASE UNCHANGED vars
  BY <1>8 DEF vars, TypeOK, requests, tree, removal
<1> QED BY <1>1, <1>2, <1>3, <1>4, <1>5, <1>6, <1>7, <1>8 DEF Next, RemoverStep

(* Type correctness of the file server. *)
THEOREM ExchangeTypeCorrect == Spec => []TypeOK
BY TypeInit, TypeNext, PTL DEF Spec
-----------------------------------------------------------------------------
LEMMA WholeStep ==
  ASSUME TypeOK, WholeInv, NEW t \in Tokens, UploadStep(t)
  PROVE  WholeInv'
<1> USE DEF TypeOK, WholeInv, Received
<1>1. CASE Abort(t)
  BY <1>1 DEF Abort, tree, Names
<1>2. CASE BeginUpload(t)
  BY <1>2 DEF BeginUpload
<1>3. CASE OpenFile(t)
  BY <1>1, <1>3 DEF OpenFile
<1>4. CASE WriteChunk(t)
  BY <1>1, <1>4 DEF WriteChunk, requests
<1>5. CASE FinishBody(t)
  BY <1>1, <1>5 DEF FinishBody, tree
<1>6. CASE CommitList(t)
  BY <1>1, <1>6 DEF CommitList, tree
<1>7. CASE CommitRename(t)
  BY <1>1, <1>7 DEF CommitRename
<1>8. CASE CommitStat(t)
  BY <1>1, <1>8 DEF CommitStat, tree
<1> QED BY <1>1, <1>2, <1>3, <1>4, <1>5, <1>6, <1>7, <1>8 DEF UploadStep, UploadRaises

LEMMA WholeNext == TypeOK /\ WholeInv /\ [Next]_vars => WholeInv'
<1> SUFFICES ASSUME TypeOK, WholeInv, [Next]_vars PROVE WholeInv'
  OBVIOUS
<1>1. CASE \E t \in Tokens : EndBody(t) \/ GoAway(t)
  BY <1>1 DEF EndBody, GoAway, TypeOK, WholeInv, Received, tree
<1>2. CASE \E t \in Tokens : UploadStep(t)
  BY <1>2, WholeStep
<1>3. CASE UNCHANGED <<upload, body, size, dir>>
  BY <1>3 DEF WholeInv
<1>4. CASE \E t \in Tokens : PurgeOne(t)
  BY <1>4 DEF PurgeOne, TypeOK, WholeInv, requests
<1>5. CASE \E r \in Removers : RemoveDir(r)
  <2>1. UNCHANGED <<upload, body, size>>
    BY <1>5 DEF RemoveDir, requests
  <2>2. \A t \in Tokens : dir'[t] = dir[t] \/ dir'[t] = "none"
    BY <1>5 DEF RemoveDir, TypeOK
  <2> QED BY <2>1, <2>2 DEF WholeInv
<1>6. CASE Crash
  <2>1. UNCHANGED <<body, size, dir>>
    BY <1>6 DEF Crash, tree
  <2>2. \A t \in Tokens : upload'[t] = upload[t] \/ upload'[t] = "lost"
    BY <1>6 DEF Crash, TypeOK
  <2> QED BY <2>1, <2>2 DEF WholeInv, Received
<1> QED
  BY <1>1, <1>2, <1>3, <1>4, <1>5, <1>6
  DEF Next, Download, StartSweep, SweepRaises, StartPurge, RemoverStep, Scan, EndScan,
      UnlinkFile, Tick, Restart, requests, tree, vars

(* A published file is a whole body: no interleaving of the upload, the     *)
(* sweep, the purges and crashes lets a link resolve to a partial file.     *)
THEOREM LinksResolveToWholeFiles == Spec => []PublishedIsWhole
<1>1. Init => WholeInv
  BY DEF Init, WholeInv, Received
<1>2. WholeInv => PublishedIsWhole
  BY DEF WholeInv, PublishedIsWhole, Published
<1> QED BY <1>1, <1>2, TypeInit, TypeNext, WholeNext, PTL DEF Spec
-----------------------------------------------------------------------------
LEMMA TimeStep ==
  ASSUME TypeOK, TimeInv, NEW t \in Tokens, UploadStep(t)
  PROVE  TimeInv'
<1> USE DEF TypeOK, TimeInv, ServedInTime
<1>1. CASE Abort(t)
  BY <1>1 DEF Abort, tree
<1>2. CASE BeginUpload(t)
  BY <1>2 DEF BeginUpload
<1>3. CASE OpenFile(t)
  BY <1>1, <1>3 DEF OpenFile
<1>4. CASE WriteChunk(t)
  BY <1>1, <1>4 DEF WriteChunk, requests
<1>5. CASE FinishBody(t)
  BY <1>1, <1>5 DEF FinishBody, tree
<1>6. CASE CommitList(t)
  BY <1>1, <1>6 DEF CommitList, tree
<1>7. CASE CommitRename(t)
  BY <1>1, <1>7 DEF CommitRename
<1>8. CASE CommitStat(t)
  BY <1>1, <1>8, SettingsAssumption DEF CommitStat, tree
<1> QED BY <1>1, <1>2, <1>3, <1>4, <1>5, <1>6, <1>7, <1>8 DEF UploadStep, UploadRaises

LEMMA TimeNext == TypeOK /\ TimeInv /\ [Next]_vars => TimeInv'
<1> SUFFICES ASSUME TypeOK, TimeInv, [Next]_vars PROVE TimeInv'
  OBVIOUS
<1>1. CASE \E t \in Tokens : UploadStep(t)
  BY <1>1, TimeStep
<1>2. CASE \E t \in Tokens : Download(t)
  BY <1>2, SettingsAssumption DEF Download, TypeOK, TimeInv, ServedInTime, requests, tree
<1>3. CASE Tick
  BY <1>3 DEF Tick, TypeOK, TimeInv, ServedInTime, requests, tree
<1>4. CASE Crash
  <2>1. UNCHANGED <<clock, fileTime, expires, late>>
    BY <1>4 DEF Crash, tree
  <2>2. \A t \in Tokens : upload'[t] = "answered" => upload[t] = "answered"
    BY <1>4 DEF Crash, TypeOK
  <2> QED BY <2>1, <2>2 DEF TimeInv, ServedInTime
<1>5. CASE UNCHANGED <<clock, upload, fileTime, expires, late>>
  BY <1>5 DEF TimeInv, ServedInTime
<1> QED
  BY <1>1, <1>2, <1>3, <1>4, <1>5
  DEF Next, EndBody, GoAway, PurgeOne, StartSweep, SweepRaises, StartPurge, RemoverStep, Scan,
      EndScan, UnlinkFile, RemoveDir, Restart, requests, tree, vars

(* No download is granted after the expiry the uploader was told.          *)
THEOREM DownloadsEndInTime == Spec => []ServedInTime
<1>1. Init => TimeInv
  BY DEF Init, TimeInv, ServedInTime
<1>2. TimeInv => ServedInTime
  BY DEF TimeInv
<1> QED BY <1>1, <1>2, TypeInit, TypeNext, TimeNext, PTL DEF Spec
-----------------------------------------------------------------------------
LEMMA PurgeStep ==
  ASSUME TypeOK, PurgeInv, NEW t \in Tokens, UploadStep(t)
  PROVE  PurgeInv'
<1> USE DEF TypeOK, PurgeInv, Past, Published
<1>1. CASE Abort(t)
  <2>1. UNCHANGED <<step, todo, at, condemned, purged>>
    BY <1>1 DEF Abort, removal
  <2>2. \A u \in Tokens : upload'[u] = upload[u] \/ (upload'[u] = "failed" /\ u = t)
    BY <1>1 DEF Abort
  <2>3. \A u \in Tokens : Published(u)' => Published(u)
    BY <1>1 DEF Abort, tree
  <2>4. upload[t] # "answered"
    BY DEF UploadStep, BeginUpload, OpenFile, WriteChunk, FinishBody, UploadRaises, CommitList,
           CommitRename, CommitStat
  <2> QED BY <2>1, <2>2, <2>3, <2>4
<1>2. CASE BeginUpload(t)
  BY <1>2 DEF BeginUpload, removal
<1>3. CASE OpenFile(t)
  BY <1>1, <1>3 DEF OpenFile, removal
<1>4. CASE WriteChunk(t)
  BY <1>1, <1>4 DEF WriteChunk, requests, removal
<1>5. CASE FinishBody(t)
  BY <1>1, <1>5 DEF FinishBody, tree, removal
<1>6. CASE CommitList(t)
  BY <1>1, <1>6 DEF CommitList, tree, removal
<1>7. CASE CommitRename(t)
  BY <1>1, <1>7 DEF CommitRename, removal
<1>8. CASE CommitStat(t)
  BY <1>1, <1>8 DEF CommitStat, tree, removal
<1> QED BY <1>1, <1>2, <1>3, <1>4, <1>5, <1>6, <1>7, <1>8 DEF UploadStep, UploadRaises

LEMMA PurgeNext == TypeOK /\ PurgeInv /\ [Next]_vars => PurgeInv'
<1> SUFFICES ASSUME TypeOK, PurgeInv, [Next]_vars PROVE PurgeInv'
  OBVIOUS
<1>1. CASE \E t \in Tokens : UploadStep(t)
  BY <1>1, PurgeStep
<1>2. CASE UNCHANGED <<upload, dir, file, step, todo, at, condemned, purged>>
  BY <1>2 DEF PurgeInv, Published
<1>3. CASE \E t \in Tokens : PurgeOne(t)
  BY <1>3 DEF PurgeOne, TypeOK, PurgeInv, Published, Past, requests
<1>4. CASE StartSweep \/ SweepRaises
  BY <1>4 DEF StartSweep, SweepRaises, TypeOK, PurgeInv, Published, requests, tree, Removers
<1>5. CASE StartPurge
  BY <1>5 DEF StartPurge, TypeOK, PurgeInv, Published, Listing, requests, tree, Removers
<1>6. CASE \E r \in Removers : Scan(r)
  <2>1. PICK r \in Removers : Scan(r)
    BY <1>6
  <2>2. PICK t \in Tokens, n \in Names :
          /\ todo' = [todo EXCEPT ![r] = @ \ {<<t, n>>}]
          /\ IF dir[t] = n /\ Doomed(r, t, n)
             THEN step' = [step EXCEPT ![r] = "unlink"] /\ at' = [at EXCEPT ![r] = <<t, n>>]
             ELSE UNCHANGED <<step, at>>
    BY <2>1 DEF Scan
  <2>3. UNCHANGED <<upload, dir, file, condemned, purged>> /\ step[r] = "scan"
    BY <2>1 DEF Scan, requests, tree
  <2>4. CASE r = "sweep"
    <3>1. todo'["purge"] = todo["purge"] /\ step'["purge"] = step["purge"]
          /\ at'["purge"] = at["purge"]
      BY <2>2, <2>4 DEF TypeOK, Removers
    <3> QED BY <2>3, <3>1 DEF PurgeInv, Published
  <2>5. CASE r = "purge"
    <3>1. todo'["purge"] = todo["purge"] \ {<<t, n>>}
      BY <2>2, <2>5 DEF TypeOK, Removers
    <3>2. dir[t] = n => step'["purge"] = "unlink" /\ at'["purge"] = <<t, n>>
      BY <2>2, <2>5 DEF TypeOK, Removers, Doomed
    <3> QED BY <2>3, <2>5, <3>1, <3>2 DEF PurgeInv, Published
  <2> QED BY <2>4, <2>5 DEF Removers
<1>7. CASE \E r \in Removers : EndScan(r)
  <2>1. PICK r \in Removers : EndScan(r)
    BY <1>7
  <2>2. UNCHANGED <<upload, dir, file, todo, at>> /\ todo[r] = {} /\ step[r] = "scan"
    BY <2>1 DEF EndScan, requests, tree
  <2>3. CASE r = "sweep"
    <3>1. step'["purge"] = step["purge"] /\ condemned' = condemned /\ purged' = purged
      BY <2>1, <2>3 DEF EndScan, TypeOK, Removers
    <3> QED BY <2>2, <3>1 DEF PurgeInv, Published
  <2>4. CASE r = "purge"
    <3>1. condemned' = {} /\ purged' = purged \union condemned
      BY <2>1, <2>4 DEF EndScan
    <3>2. \A t \in condemned : upload[t] = "answered" /\ ~Published(t)
      BY <2>2, <2>4 DEF PurgeInv
    <3> QED BY <2>2, <3>1, <3>2 DEF PurgeInv, Published, Past
  <2> QED BY <2>3, <2>4 DEF Removers
<1>8. CASE \E r \in Removers : UnlinkFile(r)
  BY <1>8 DEF UnlinkFile, TypeOK, PurgeInv, Published, requests, Removers
<1>9. CASE \E r \in Removers : RemoveDir(r)
  BY <1>9 DEF RemoveDir, TypeOK, PurgeInv, Published, requests, Removers
<1>10. CASE Crash
  BY <1>10 DEF Crash, TypeOK, PurgeInv, Published, Past, InFlight, tree
<1> QED
  BY <1>1, <1>2, <1>3, <1>4, <1>5, <1>6, <1>7, <1>8, <1>9, <1>10
  DEF Next, EndBody, GoAway, Download, RemoverStep, Tick, Restart, requests, tree, removal, vars

(* What has been reported deleted stays deleted.                           *)
THEOREM DeletionIsFinal == Spec => []PurgedStaysGone
<1>1. Init => PurgeInv
  BY DEF Init, PurgeInv
<1>2. PurgeInv => PurgedStaysGone
  BY DEF PurgeInv, PurgedStaysGone
<1> QED BY <1>1, <1>2, TypeInit, TypeNext, PurgeNext, PTL DEF Spec
=============================================================================
