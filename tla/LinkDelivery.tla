---------------------------- MODULE LinkDelivery ----------------------------
(***************************************************************************)
(* The bot as a client of the file server: the worker uploads a result and *)
(* tells its user the link (queue/worker.py, bot/fileserver.py), and the   *)
(* administrator deletes links with /files purge (bot/routers/commands.py). *)
(*                                                                         *)
(* The server's side is FileExchange, step for step; what is added is who  *)
(* sends its requests and what the sender comes to believe.  A request is  *)
(* sent once: it is answered, or its answer is lost (a timeout, a broken   *)
(* connection, a server or a bot that dies), and then the server may have  *)
(* carried it out all the same, or may do so later.                        *)
(***************************************************************************)
EXTENDS FileExchange

CONSTANTS
  NoToken,  \* "no link", for the administrator's command
  MaxFile,  \* bound: the size of a result, in chunks
  MaxAsks   \* bound: /files purge commands that name a link

ASSUME LinkAssumption == NoToken \notin Tokens /\ MaxFile \in Nat /\ MaxAsks \in Nat

VARIABLES
  call,      \* call[t]: how far the delivery that uploads t has come
  total,     \* total[t]: the size of its file, sent as Content-Length
  admin,     \* the answer a /files purge command waits for: "one", "all", or "idle"
  target,    \* the link its DELETE names
  underway,  \* the DELETE of one link has not reached the server yet
  reply,     \* what has come back to the command
  reported,  \* history: the links the administrator was told are gone
  asks       \* counter, for the bound

command == <<admin, target, underway, reply, reported, asks>>
calls == <<call, total>>
linkVars == <<vars, calls, command>>

LinkTypeOK ==
  /\ call \in [Tokens -> {"none", "unsent", "sending", "linked", "told", "failed"}]
  /\ total \in [Tokens -> Nat]
  /\ admin \in {"idle", "one", "all"}
  /\ target \in Tokens \union {NoToken}
  /\ underway \in BOOLEAN
  /\ reply \in {"none", "deleted", "missing", "flushed"}
  /\ reported \subseteq Tokens
  /\ asks \in Nat

LinkInit ==
  /\ Init
  /\ call = [t \in Tokens |-> "none"] /\ total = [t \in Tokens |-> 0]
  /\ admin = "idle" /\ target = NoToken /\ underway = FALSE /\ reply = "none"
  /\ reported = {} /\ asks = 0

(***************************************************************************)
(* _deliver_via_server.                                                    *)
(***************************************************************************)
Goto(t, c) == call' = [call EXCEPT ![t] = c]

(* upload takes the size of the file; without a file it raises at once. *)
Send(t) ==
  /\ call[t] = "none"
  /\ \/ Goto(t, "sending") /\ \E n \in 0..MaxFile : total' = [total EXCEPT ![t] = n]
     \/ Goto(t, "unsent") /\ UNCHANGED total
  /\ UNCHANGED <<vars, command>>

(* The server refuses the file by its Content-Length, before it takes a token. *)
TooLarge(t) == up /\ upload[t] = "none" /\ total[t] > MaxBytes

(* Mutant of Refused: the status is not looked at. *)
AnsweredAnyhow(t) ==
  /\ call[t] = "sending"
  /\ TooLarge(t) \/ upload[t] = "failed"
  /\ Goto(t, "linked")
  /\ UNCHANGED <<vars, total, command>>

(* _decode raises on a status of 400 and above. *)
Refused(t) ==
  /\ call[t] = "sending"
  /\ TooLarge(t) \/ upload[t] = "failed"
  /\ Goto(t, "failed")
  /\ UNCHANGED <<vars, total, command>>

Linked(t) ==
  /\ call[t] = "sending" /\ upload[t] = "answered"
  /\ Goto(t, "linked")
  /\ UNCHANGED <<vars, total, command>>

(* UPLOAD_TIMEOUT, a broken connection, a dead server or the end of the bot: the  *)
(* job is over for the client; the server sees a body that breaks off, unless it  *)
(* has all of it.                                                                 *)
GiveUp(t) ==
  /\ call[t] = "sending"
  /\ Goto(t, "failed")
  /\ GoAway(t) \/ (~(upload[t] \in {"begun", "open"} /\ body[t] = "sending") /\ UNCHANGED vars)
  /\ UNCHANGED <<total, command>>

(* send_message carries the link to the chat, or raises. *)
Tell(t) ==
  /\ call[t] = "linked"
  /\ Goto(t, "told") \/ Goto(t, "failed")
  /\ UNCHANGED <<vars, total, command>>

(***************************************************************************)
(* The server's side of an upload: it is begun by a request whose size is  *)
(* allowed, and _file_chunks feeds it the file.                            *)
(***************************************************************************)
Serve(t) ==
  /\ \/ call[t] = "sending" /\ total[t] <= MaxBytes /\ BeginUpload(t)
     \/ OpenFile(t)
     \/ size[t] < total[t] /\ WriteChunk(t)
     \/ size[t] = total[t] /\ EndBody(t)
     \/ FinishBody(t) \/ UploadRaises(t) \/ CommitList(t) \/ CommitRename(t) \/ CommitStat(t)
     \/ call[t] = "told" /\ Download(t)
  /\ UNCHANGED <<calls, command>>

DeliveryStep(t) == Send(t) \/ Refused(t) \/ Linked(t) \/ GiveUp(t) \/ Tell(t) \/ Serve(t)

(***************************************************************************)
(* /files purge <link>: the administrator has the name from /files, which  *)
(* lists an entry as soon as it is published.                              *)
(***************************************************************************)
AskPurge(t) ==
  /\ admin = "idle" /\ ~underway /\ asks < MaxAsks
  /\ upload[t] \in {"renamed", "answered"}
  /\ admin' = "one" /\ target' = t /\ underway' = TRUE
  /\ asks' = asks + 1
  /\ UNCHANGED <<vars, calls, reply, reported>>

(* An answer nobody waits for any more is lost. *)
Answer(r) == reply' = IF admin = "idle" THEN reply ELSE r

PurgeFound(t) ==
  /\ underway /\ target = t /\ PurgeOne(t)
  /\ underway' = FALSE /\ Answer("deleted")
  /\ UNCHANGED <<calls, admin, target, reported, asks>>

(* 404: there is no such entry. *)
PurgeMissing(t) ==
  /\ up /\ underway /\ target = t /\ dir[t] # "final"
  /\ underway' = FALSE /\ Answer("missing")
  /\ UNCHANGED <<vars, calls, admin, target, reported, asks>>

(* The request does not get through. *)
PurgeLost ==
  /\ underway /\ underway' = FALSE
  /\ UNCHANGED <<vars, calls, admin, target, reply, reported, asks>>

(***************************************************************************)
(* /files purge all, and the answers.                                      *)
(***************************************************************************)
AskPurgeAll ==
  /\ admin = "idle" /\ ~underway /\ StartPurge
  /\ admin' = "all"
  /\ UNCHANGED <<calls, target, underway, reply, reported, asks>>

PurgeAllEnds ==
  /\ EndScan("purge")
  /\ reply' = IF admin = "all" THEN "flushed" ELSE reply
  /\ UNCHANGED <<calls, admin, target, underway, reported, asks>>

(* "Deleted", or "not found" for a 404: one link is gone either way. *)
Report ==
  /\ reply # "none"
  /\ reported' = reported \union (IF reply = "flushed" THEN purged ELSE {target})
  /\ reply' = "none" /\ admin' = "idle"
  /\ UNCHANGED <<vars, calls, target, underway, asks>>

(* Mutant of AdminGivesUp: any FileServerError counts as a 404. *)
AdminAssumes ==
  /\ admin # "idle"
  /\ reported' = IF admin = "one" THEN reported \union {target} ELSE reported
  /\ admin' = "idle" /\ reply' = "none"
  /\ UNCHANGED <<vars, calls, target, underway, asks>>

(* ADMIN_TIMEOUT, or the server has died: the command says that it failed. *)
AdminGivesUp ==
  /\ admin # "idle"
  /\ admin' = "idle" /\ reply' = "none"
  /\ UNCHANGED <<vars, calls, target, underway, reported, asks>>

CommandStep ==
  \/ \E t \in Tokens : AskPurge(t) \/ PurgeFound(t) \/ PurgeMissing(t)
  \/ PurgeLost \/ AskPurgeAll \/ PurgeAllEnds \/ Report \/ AdminGivesUp

(* What the server does by itself. *)
ServerStep ==
  /\ \/ StartSweep \/ SweepRaises \/ EndScan("sweep")
     \/ \E r \in Removers : Scan(r) \/ UnlinkFile(r) \/ RemoveDir(r)
     \/ Tick \/ Crash \/ Restart
  /\ UNCHANGED <<calls, command>>

LinkNext == (\E t \in Tokens : DeliveryStep(t)) \/ CommandStep \/ ServerStep

LinkSpec == LinkInit /\ [][LinkNext]_linkVars /\ Fairness
-----------------------------------------------------------------------------
(* A link that a user has been told is one the server published, of the     *)
(* whole of the job's file: refusals, bodies that break off, aborted uploads *)
(* and server crashes never turn into a link message.                       *)
LinkIsTheResult ==
  \A t \in Tokens : call[t] = "told" =>
    upload[t] = "answered" /\ body[t] = "complete" /\ size[t] = total[t] /\ size[t] > 0

(* Once the administrator has been told that a link is deleted, or that it is *)
(* not there, it never works again, although uploads may be committing, the   *)
(* sweeper removes the same entries and earlier answers may have been lost.   *)
PurgeReportsHold == \A t \in reported : ~Published(t)

(* A delivery that failed after its upload began leaves nothing behind for    *)
(* good: its staging is swept or published, and what is published expires,    *)
(* although nobody has been told of it.                                       *)
OrphansReclaimed ==
  \A t \in Tokens :
    /\ call[t] = "failed" /\ dir[t] = "staging" ~> dir[t] # "staging"
    /\ call[t] = "failed" /\ dir[t] = "final" /\ dirTime[t] + Retention < clock ~> ~file[t]

=============================================================================
