-------------------------- MODULE LinkDeliveryProofs --------------------------
(***************************************************************************)
(* Proofs about LinkDelivery.  The bot and its administrator never do      *)
(* anything to the server but what its clients do in FileExchange: every   *)
(* step is a step of FileExchange or leaves it alone, so what is proved of *)
(* the server by itself holds with the bot as its client.                  *)
(***************************************************************************)
EXTENDS LinkDelivery, FileExchangeProofs

(* A delivery that has not been begun has no upload; what the server has   *)
(* received whole is the whole file; a link the bot holds was answered.    *)
CallInv ==
  \A t \in Tokens :
    /\ call[t] \in {"none", "unsent"} => upload[t] = "none"
    /\ upload[t] \in {"none", "begun"} => body[t] # "complete"
    /\ body[t] = "complete" => size[t] = total[t]
    /\ call[t] \in {"linked", "told"} => upload[t] = "answered"

(* A link that is past its publication and does not resolve never will.    *)
Gone(t) == upload[t] \in Past /\ ~Published(t)

(* The command only asks for links that have been published; what it hears *)
(* back, and what it has reported, is of links that are gone.              *)
CommandInv ==
  /\ underway => target \in Tokens /\ upload[target] \in Past
  /\ admin = "idle" => reply = "none"
  /\ reply \in {"deleted", "missing"} => target \in Tokens /\ Gone(target)
  /\ \A t \in reported : t \in Tokens /\ Gone(t)
-----------------------------------------------------------------------------
(* Every step of the composition is a step of the server or leaves it alone. *)
LEMMA ServerSteps == [LinkNext]_linkVars => [Next]_vars
<1> SUFFICES ASSUME [LinkNext]_linkVars PROVE [Next]_vars
  OBVIOUS
<1>1. CASE \E t \in Tokens : Send(t) \/ Refused(t) \/ Linked(t) \/ Tell(t)
  BY <1>1 DEF Send, Refused, Linked, Tell
<1>2. CASE \E t \in Tokens : GiveUp(t)
  BY <1>2 DEF GiveUp, Next
<1>3. CASE \E t \in Tokens : Serve(t)
  BY <1>3 DEF Serve, Next, UploadStep
<1>4. CASE CommandStep
  BY <1>4 DEF CommandStep, AskPurge, PurgeFound, PurgeMissing, PurgeLost, AskPurgeAll,
              PurgeAllEnds, Report, AdminGivesUp, Next, RemoverStep, Removers
<1>5. CASE ServerStep
  BY <1>5 DEF ServerStep, Next, RemoverStep, Removers
<1>6. CASE UNCHANGED linkVars
  BY <1>6 DEF linkVars
<1> QED BY <1>1, <1>2, <1>3, <1>4, <1>5, <1>6 DEF LinkNext, DeliveryStep

(* The composition implements the file server: with the bot as its client, *)
(* initial states are the server's and every step is one of the server's   *)
(* or changes nothing of it.                                               *)
THEOREM BotIsAClient == LinkSpec => Spec
<1>1. LinkInit => Init
  BY DEF LinkInit
<1> QED BY <1>1, ServerSteps, PTL DEF LinkSpec, Spec

(* A deletion that the server has reported stays, with the bot as its client. *)
THEOREM DeletionIsFinalForTheBot == LinkSpec => []PurgedStaysGone
BY BotIsAClient, DeletionIsFinal, PTL
-----------------------------------------------------------------------------
LEMMA LinkTypeNext ==
  TypeOK /\ LinkTypeOK /\ CommandInv /\ [LinkNext]_linkVars => LinkTypeOK'
<1> SUFFICES ASSUME TypeOK, LinkTypeOK, CommandInv, [LinkNext]_linkVars PROVE LinkTypeOK'
  OBVIOUS
<1>1. CASE \E t \in Tokens : DeliveryStep(t)
  <2>1. PICK t \in Tokens : DeliveryStep(t)
    BY <1>1
  <2>2. UNCHANGED command
    BY <2>1 DEF DeliveryStep, Send, Refused, Linked, GiveUp, Tell, Serve
  <2>3. call' \in [Tokens -> {"none", "unsent", "sending", "linked", "told", "failed"}]
    BY <2>1 DEF DeliveryStep, Send, Refused, Linked, GiveUp, Tell, Serve, Goto, calls, LinkTypeOK
  <2>4. total' \in [Tokens -> Nat]
    BY <2>1, LinkAssumption
    DEF DeliveryStep, Send, Refused, Linked, GiveUp, Tell, Serve, calls, LinkTypeOK
  <2> QED BY <2>2, <2>3, <2>4 DEF LinkTypeOK, command
<1>2. CASE CommandStep
  <2>1. CASE Report
    <3>1. reported' \subseteq Tokens
      BY <2>1 DEF Report, TypeOK, LinkTypeOK, CommandInv
    <3> QED BY <2>1, <3>1 DEF Report, calls, LinkTypeOK
  <2>2. CASE \E t \in Tokens : AskPurge(t)
    BY <2>2 DEF AskPurge, calls, LinkTypeOK
  <2>3. CASE \E t \in Tokens : PurgeFound(t) \/ PurgeMissing(t)
    BY <2>3 DEF PurgeFound, PurgeMissing, Answer, calls, LinkTypeOK
  <2>4. CASE PurgeLost \/ AskPurgeAll \/ PurgeAllEnds \/ AdminGivesUp
    BY <2>4 DEF PurgeLost, AskPurgeAll, PurgeAllEnds, AdminGivesUp, calls, LinkTypeOK
  <2> QED BY <1>2, <2>1, <2>2, <2>3, <2>4 DEF CommandStep
<1>3. CASE ServerStep \/ UNCHANGED linkVars
  BY <1>3 DEF ServerStep, linkVars, calls, command, LinkTypeOK
<1> QED BY <1>1, <1>2, <1>3 DEF LinkNext
-----------------------------------------------------------------------------
(* What a step of the server's upload handler does to an upload.           *)
LEMMA AnsweredStays ==
  ASSUME TypeOK, [Next]_vars, NEW t \in Tokens
  PROVE  /\ upload[t] = "answered" => upload'[t] = "answered"
         /\ upload[t] \in Past => upload'[t] \in Past
<1> USE DEF TypeOK, Past
<1>1. CASE \E u \in Tokens : UploadStep(u)
  <2>1. PICK u \in Tokens : UploadStep(u)
    BY <1>1
  <2>2. upload[u] \notin {"answered", "failed", "lost"}
    BY <2>1 DEF UploadStep, BeginUpload, OpenFile, WriteChunk, FinishBody, UploadRaises, CommitList,
                CommitRename, CommitStat
  <2>3. upload[u] = "renamed" => upload'[u] \in {"answered", "failed"}
    BY <2>1 DEF UploadStep, BeginUpload, OpenFile, WriteChunk, FinishBody, UploadRaises, CommitList,
                CommitRename, CommitStat, Abort
  <2>4. t # u => upload'[t] = upload[t]
    BY <2>1 DEF UploadStep, BeginUpload, OpenFile, WriteChunk, FinishBody, UploadRaises, CommitList,
                CommitRename, CommitStat, Abort, requests
  <2> QED BY <2>2, <2>3, <2>4
<1>2. CASE Crash
  BY <1>2 DEF Crash, InFlight
<1>3. CASE UNCHANGED upload
  BY <1>3
<1> QED
  BY <1>1, <1>2, <1>3
  DEF Next, EndBody, GoAway, Download, PurgeOne, StartSweep, SweepRaises, StartPurge, RemoverStep,
      Scan, EndScan, UnlinkFile, RemoveDir, Tick, Restart, requests, vars

LEMMA GoneStays ==
  ASSUME TypeOK, [Next]_vars, NEW t \in Tokens, Gone(t)
  PROVE  Gone(t)'
<1> USE DEF TypeOK, Past, Gone, Published
<1>1. upload'[t] \in Past
  BY AnsweredStays
<1>2. CASE \E u \in Tokens : UploadStep(u)
  <2>1. PICK u \in Tokens : UploadStep(u)
    BY <1>2
  <2>2. CASE u # t
    <3>1. dir'[t] = dir[t] /\ file'[t] = file[t]
      BY <2>1, <2>2 DEF UploadStep, BeginUpload, OpenFile, WriteChunk, FinishBody, UploadRaises,
           CommitList, CommitRename, CommitStat, Abort, tree
    <3> QED BY <1>1, <3>1
  <2>3. CASE u = t
    <3>1. CommitStat(t)
      BY <2>1, <2>3 DEF UploadStep, BeginUpload, OpenFile, WriteChunk, FinishBody, UploadRaises,
           CommitList, CommitRename
    <3> QED BY <1>1, <3>1 DEF CommitStat, Abort, tree
  <2> QED BY <2>2, <2>3
<1>3. CASE \E u \in Tokens : PurgeOne(u)
  BY <1>1, <1>3 DEF PurgeOne
<1>4. CASE \E r \in Removers : UnlinkFile(r)
  BY <1>1, <1>4 DEF UnlinkFile
<1>5. CASE \E r \in Removers : RemoveDir(r)
  BY <1>1, <1>5 DEF RemoveDir
<1>6. CASE UNCHANGED <<dir, file>>
  BY <1>1, <1>6
<1> QED
  BY <1>2, <1>3, <1>4, <1>5, <1>6
  DEF Next, EndBody, GoAway, Download, StartSweep, SweepRaises, StartPurge, RemoverStep,
      Scan, EndScan, Tick, Crash, Restart, tree, vars
-----------------------------------------------------------------------------
LEMMA CallNext ==
  TypeOK /\ LinkTypeOK /\ WholeInv /\ CallInv /\ [LinkNext]_linkVars => CallInv'
<1> SUFFICES ASSUME TypeOK, LinkTypeOK, WholeInv, CallInv, [LinkNext]_linkVars PROVE CallInv'
  OBVIOUS
<1> USE DEF TypeOK, LinkTypeOK, CallInv
<1>1. CASE \E t \in Tokens : Send(t)
  BY <1>1 DEF Send, Goto, vars, requests, tree
<1>2. CASE \E t \in Tokens : Refused(t) \/ Linked(t) \/ Tell(t)
  BY <1>2 DEF Refused, Linked, Tell, Goto, vars, requests, tree
<1>3. CASE \E t \in Tokens : GiveUp(t)
  BY <1>3 DEF GiveUp, GoAway, Goto, vars, requests, tree
<1>4. CASE \E t \in Tokens : Serve(t)
  <2>1. PICK t \in Tokens : Serve(t)
    BY <1>4
  <2>2. UNCHANGED <<call, total>>
    BY <2>1 DEF Serve, calls
  <2>3. CASE call[t] = "sending" /\ BeginUpload(t)
    BY <2>2, <2>3 DEF BeginUpload
  <2>4. CASE Abort(t) /\ upload[t] \notin {"none", "answered"}
    BY <2>2, <2>4 DEF Abort, tree
  <2>5. CASE OpenFile(t)
    BY <2>2, <2>4, <2>5 DEF OpenFile
  <2>6. CASE WriteChunk(t)
    BY <2>2, <2>4, <2>6 DEF WriteChunk, requests
  <2>7. CASE size[t] = total[t] /\ EndBody(t)
    BY <2>2, <2>7 DEF EndBody, tree
  <2>8. CASE FinishBody(t) \/ UploadRaises(t) \/ CommitList(t)
    BY <2>2, <2>4, <2>8 DEF FinishBody, UploadRaises, CommitList, tree
  <2>9. CASE CommitRename(t) \/ CommitStat(t)
    BY <2>2, <2>4, <2>9 DEF CommitRename, CommitStat, tree
  <2>10. CASE Download(t)
    BY <2>2, <2>10 DEF Download, requests, tree
  <2> QED BY <2>1, <2>3, <2>5, <2>6, <2>7, <2>8, <2>9, <2>10 DEF Serve
<1>5. CASE CommandStep
  <2>1. UNCHANGED <<call, total, upload, body, size>>
    BY <1>5 DEF CommandStep, AskPurge, PurgeFound, PurgeOne, PurgeMissing, PurgeLost, AskPurgeAll,
                StartPurge, PurgeAllEnds, EndScan, Report, AdminGivesUp, calls, vars, requests, tree
  <2> QED BY <2>1
<1>6. CASE ServerStep
  <2>1. UNCHANGED <<call, total, body, size>>
    BY <1>6 DEF ServerStep, StartSweep, SweepRaises, EndScan, Scan, UnlinkFile, RemoveDir, Tick,
                Crash, Restart, calls, requests, tree
  <2>2. \A t \in Tokens : upload'[t] = upload[t]
                          \/ (upload[t] \in InFlight /\ upload'[t] = "lost")
    BY <1>6 DEF ServerStep, StartSweep, SweepRaises, EndScan, Scan, UnlinkFile, RemoveDir, Tick,
                Crash, Restart, requests
  <2> QED BY <2>1, <2>2 DEF InFlight
<1>7. CASE UNCHANGED linkVars
  BY <1>7 DEF linkVars, calls, vars, requests, tree
<1> QED BY <1>1, <1>2, <1>3, <1>4, <1>5, <1>6, <1>7 DEF LinkNext, DeliveryStep

LEMMA CommandNext ==
  TypeOK /\ LinkTypeOK /\ PurgeInv /\ CommandInv /\ [LinkNext]_linkVars => CommandInv'
<1> SUFFICES ASSUME TypeOK, LinkTypeOK, PurgeInv, CommandInv, [LinkNext]_linkVars PROVE CommandInv'
  OBVIOUS
<1>1. [Next]_vars
  BY ServerSteps
<1>2. \A t \in Tokens : /\ Gone(t) => Gone(t)'
                        /\ upload[t] \in Past => upload'[t] \in Past
  BY <1>1, GoneStays, AnsweredStays
<1>3. \A t \in purged : t \in Tokens /\ Gone(t)
  BY DEF PurgeInv, TypeOK, Gone
<1>4. CASE UNCHANGED command
  BY <1>2, <1>4 DEF CommandInv, command
<1>5. CASE CommandStep
  <2>1. CASE \E t \in Tokens : AskPurge(t)
    <3>1. PICK t \in Tokens : AskPurge(t)
      BY <2>1
    <3>2. upload'[t] \in Past
      BY <3>1, <1>2 DEF AskPurge, Past
    <3> QED BY <3>1, <3>2, <1>2 DEF AskPurge, CommandInv
  <2>2. CASE \E t \in Tokens : PurgeFound(t)
    <3>1. PICK t \in Tokens : PurgeFound(t)
      BY <2>2
    <3>2. Gone(t)'
      BY <3>1 DEF PurgeFound, PurgeOne, Gone, Published, Past, TypeOK, requests
    <3> QED BY <3>1, <3>2, <1>2 DEF PurgeFound, Answer, CommandInv
  <2>3. CASE \E t \in Tokens : PurgeMissing(t)
    <3>1. PICK t \in Tokens : PurgeMissing(t)
      BY <2>3
    <3>2. Gone(t)
      BY <3>1 DEF PurgeMissing, Gone, Published, CommandInv
    <3> QED BY <3>1, <3>2, <1>2 DEF PurgeMissing, Answer, CommandInv
  <2>4. CASE PurgeLost \/ AskPurgeAll \/ PurgeAllEnds \/ AdminGivesUp
    BY <2>4, <1>2 DEF PurgeLost, AskPurgeAll, PurgeAllEnds, AdminGivesUp, CommandInv
  <2>5. CASE Report
    <3>1. \A t \in reported' : t \in Tokens /\ Gone(t)
      BY <2>5, <1>3 DEF Report, LinkTypeOK, CommandInv
    <3> QED BY <2>5, <3>1, <1>2 DEF Report, CommandInv
  <2> QED BY <1>5, <2>1, <2>2, <2>3, <2>4, <2>5 DEF CommandStep
<1> QED
  BY <1>4, <1>5
  DEF LinkNext, DeliveryStep, Send, Refused, Linked, GiveUp, Tell, Serve, ServerStep, linkVars
-----------------------------------------------------------------------------
LinkInv == /\ TypeOK /\ LinkTypeOK /\ WholeInv /\ PurgeInv
           /\ CallInv /\ CommandInv

LEMMA LinkInvariant == LinkSpec => []LinkInv
<1>1. LinkInit => LinkInv
  <2> SUFFICES ASSUME LinkInit PROVE LinkInv
    OBVIOUS
  <2>1. Init
    BY DEF LinkInit
  <2>2. TypeOK
    BY <2>1, TypeInit
  <2>3. WholeInv /\ PurgeInv
    BY <2>1 DEF Init, WholeInv, Received, PurgeInv
  <2>4. LinkTypeOK /\ CallInv /\ CommandInv
    BY <2>1 DEF LinkInit, Init, LinkTypeOK, CallInv, CommandInv
  <2> QED BY <2>2, <2>3, <2>4 DEF LinkInv
<1>2. LinkInv /\ [LinkNext]_linkVars => LinkInv'
  BY ServerSteps, TypeNext, WholeNext, PurgeNext, LinkTypeNext, CallNext, CommandNext DEF LinkInv
<1> QED BY <1>1, <1>2, PTL DEF LinkSpec

(* A link that a user has been told is the whole file of the job, for any   *)
(* sizes, limits, crashes, sweeps and lost answers.                         *)
THEOREM ToldLinksAreTheResult == LinkSpec => []LinkIsTheResult
<1>1. LinkInv => LinkIsTheResult
  <2> SUFFICES ASSUME LinkInv, NEW t \in Tokens, call[t] = "told"
               PROVE  /\ upload[t] = "answered" /\ body[t] = "complete"
                      /\ size[t] = total[t] /\ size[t] > 0
    BY DEF LinkIsTheResult
  <2>1. upload[t] = "answered"
    BY DEF LinkInv, CallInv
  <2>2. body[t] = "complete" /\ size[t] > 0
    BY <2>1 DEF LinkInv, WholeInv, Received
  <2> QED BY <2>1, <2>2 DEF LinkInv, CallInv
<1> QED BY <1>1, LinkInvariant, PTL

(* What /files purge has reported gone is gone for good.                    *)
THEOREM ReportsHold == LinkSpec => []PurgeReportsHold
<1>1. LinkInv => PurgeReportsHold
  BY DEF LinkInv, CommandInv, Gone, PurgeReportsHold
<1> QED BY <1>1, LinkInvariant, PTL
=============================================================================
