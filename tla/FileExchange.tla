---------------------------- MODULE FileExchange ----------------------------
(***************************************************************************)
(* The file server (src/filexchange): uploads are written into a staging   *)
(* directory, published by renaming it, downloaded through a capability    *)
(* URL, and deleted by a sweeper or by the administrator.                  *)
(*                                                                         *)
(* The handlers run on one event loop; Storage.sweep, Storage.purge_all    *)
(* and Storage.commit run in worker threads, so their system calls         *)
(* interleave with each other and with the handlers.  A step of a thread   *)
(* is one system call on the tree.  shutil.rmtree opens a directory, works *)
(* on the open directory whatever it is called by then, and removes it by  *)
(* its name at the end.                                                    *)
(*                                                                         *)
(* A token names one upload (new_token is unguessable and never repeats),  *)
(* and its directory holds at most one file.  Time is counted in ticks.    *)
(***************************************************************************)
EXTENDS Integers, FiniteSets

CONSTANTS
  Tokens,     \* the uploads
  NoEntry,    \* "no directory", for a remover that holds none
  Retention,  \* settings.retention_hours
  MaxBytes,   \* settings.max_upload_bytes, in chunks
  MaxTime,    \* bound: the clock
  MaxCrashes, \* bound: how often the server dies
  MaxPurges   \* bound: how often the administrator purges everything

ASSUME SettingsAssumption ==
  /\ Retention \in Nat \ {0} /\ MaxBytes \in Nat \ {0}
  /\ MaxTime \in Nat /\ MaxCrashes \in Nat /\ MaxPurges \in Nat

Names == {"staging", "final"}   \* <token>.tmp and <token>

Entries == Tokens \X Names

ASSUME NoEntryAssumption == NoEntry \notin Entries

Removers == {"sweep", "purge"}  \* the sweeper's thread, and that of purge_all

VARIABLES
  clock,
  up,        \* whether the server process is up
  upload,    \* upload[t]: how far the upload handler has come
  body,      \* body[t]: the client's side of the request
  dir,       \* dir[t]: the name of the directory of t, or "none"
  file,      \* file[t]: whether the directory holds a file
  size,      \* size[t]: chunks written to it
  dirTime,   \* modification time of the directory: its last entry made or unlinked
  fileTime,  \* modification time of the file: its last write
  expires,   \* expires[t]: the expires_at the uploader was told, 0 before
  step,      \* step[r]: where a remover is in its loop over the root
  todo,      \* todo[r]: what its listing of the root still holds
  at,        \* at[r]: the entry it is removing
  condemned, \* the links that existed when the running purge_all began
  purged,    \* history: the links whose deletion has been reported
  late,      \* history: the links granted to a download after the moment the uploader was told
  crashes, purges  \* counters, for the bounds

tree == <<dir, file, size, dirTime, fileTime>>
requests == <<upload, body, expires>>
removal == <<step, todo, at, condemned, purged, purges>>
vars == <<clock, up, requests, tree, removal, late, crashes>>

UploadPc == {"none", "begun", "open", "closed", "listed", "renamed", "answered",
             "failed", "lost"}
InFlight == {"begun", "open", "closed", "listed", "renamed"}

TypeOK ==
  /\ clock \in Nat /\ up \in BOOLEAN
  /\ upload \in [Tokens -> UploadPc]
  /\ body \in [Tokens -> {"sending", "complete", "broken"}]
  /\ dir \in [Tokens -> Names \union {"none"}]
  /\ file \in [Tokens -> BOOLEAN]
  /\ size \in [Tokens -> 0..MaxBytes]
  /\ dirTime \in [Tokens -> Nat] /\ fileTime \in [Tokens -> Nat]
  /\ expires \in [Tokens -> Nat]
  /\ step \in [Removers -> {"idle", "scan", "unlink", "rmdir"}]
  /\ todo \in [Removers -> SUBSET Entries]
  /\ at \in [Removers -> Entries \union {NoEntry}]
  /\ condemned \subseteq Tokens /\ purged \subseteq Tokens /\ late \subseteq Tokens
  /\ crashes \in Nat /\ purges \in Nat

Init ==
  /\ clock = 1 /\ up = TRUE
  /\ upload = [t \in Tokens |-> "none"]
  /\ body = [t \in Tokens |-> "sending"]
  /\ dir = [t \in Tokens |-> "none"]
  /\ file = [t \in Tokens |-> FALSE]
  /\ size = [t \in Tokens |-> 0]
  /\ dirTime = [t \in Tokens |-> 0] /\ fileTime = [t \in Tokens |-> 0]
  /\ expires = [t \in Tokens |-> 0]
  /\ step = [r \in Removers |-> "idle"]
  /\ todo = [r \in Removers |-> {}]
  /\ at = [r \in Removers |-> NoEntry]
  /\ condemned = {} /\ purged = {} /\ late = {}
  /\ crashes = 0 /\ purges = 0

Published(t) == dir[t] = "final" /\ file[t]   \* what Storage.resolve finds

(***************************************************************************)
(* The client of an upload: it sends its chunks, ends the body or goes     *)
(* away (a timeout, a lost connection).                                    *)
(***************************************************************************)
EndBody(t) ==
  /\ upload[t] = "open" /\ body[t] = "sending"
  /\ body' = [body EXCEPT ![t] = "complete"]
  /\ UNCHANGED <<clock, up, upload, expires, tree, removal, late, crashes>>

GoAway(t) ==
  /\ upload[t] \in {"begun", "open"} /\ body[t] = "sending"
  /\ body' = [body EXCEPT ![t] = "broken"]
  /\ UNCHANGED <<clock, up, upload, expires, tree, removal, late, crashes>>

(***************************************************************************)
(* The upload handler.                                                     *)
(***************************************************************************)
(* except BaseException: storage.abort removes the staging directory. *)
Abort(t) ==
  /\ upload' = [upload EXCEPT ![t] = "failed"]
  /\ IF dir[t] = "staging"
     THEN /\ dir' = [dir EXCEPT ![t] = "none"]
          /\ file' = [file EXCEPT ![t] = FALSE]
          /\ UNCHANGED <<size, dirTime, fileTime>>
     ELSE UNCHANGED tree
  /\ UNCHANGED <<clock, up, body, expires, removal, late, crashes>>

BeginUpload(t) ==
  /\ up /\ upload[t] = "none"
  /\ upload' = [upload EXCEPT ![t] = "begun"]
  /\ dir' = [dir EXCEPT ![t] = "staging"]
  /\ dirTime' = [dirTime EXCEPT ![t] = clock]
  /\ UNCHANGED <<clock, up, body, expires, file, size, fileTime, removal, late, crashes>>

(* Opening the file fails when the staging directory has been removed. *)
OpenFile(t) ==
  /\ upload[t] = "begun"
  /\ IF dir[t] = "staging"
     THEN /\ upload' = [upload EXCEPT ![t] = "open"]
          /\ file' = [file EXCEPT ![t] = TRUE]
          /\ dirTime' = [dirTime EXCEPT ![t] = clock]
          /\ fileTime' = [fileTime EXCEPT ![t] = clock]
          /\ UNCHANGED <<clock, up, body, expires, dir, size, removal, late, crashes>>
     ELSE Abort(t)

(* Mutant of WriteChunk: Content-Length is believed. *)
WriteAnyChunk(t) ==
  /\ upload[t] = "open" /\ body[t] = "sending"
  /\ size[t] <= MaxBytes
  /\ size' = [size EXCEPT ![t] = @ + 1]
  /\ fileTime' = [fileTime EXCEPT ![t] = clock]
  /\ UNCHANGED <<clock, up, requests, dir, file, dirTime, removal, late, crashes>>

(* A chunk arrives and is written, into an unlinked file as well; one too many is refused. *)
WriteChunk(t) ==
  /\ upload[t] = "open" /\ body[t] = "sending"
  /\ IF size[t] < MaxBytes
     THEN /\ size' = [size EXCEPT ![t] = @ + 1]
          /\ fileTime' = [fileTime EXCEPT ![t] = clock]
          /\ UNCHANGED <<clock, up, requests, dir, file, dirTime, removal, late, crashes>>
     ELSE Abort(t)

(* Mutant of FinishBody: a client that goes away ends the body like any other. *)
FinishAnyBody(t) ==
  /\ upload[t] = "open" /\ body[t] # "sending"
  /\ IF size[t] > 0
     THEN /\ upload' = [upload EXCEPT ![t] = "closed"]
          /\ UNCHANGED <<clock, up, body, expires, tree, removal, late, crashes>>
     ELSE Abort(t)

(* The stream has ended, or raises ClientDisconnect; an empty body is refused. *)
FinishBody(t) ==
  /\ upload[t] = "open" /\ body[t] # "sending"
  /\ IF body[t] = "complete" /\ size[t] > 0
     THEN /\ upload' = [upload EXCEPT ![t] = "closed"]
          /\ UNCHANGED <<clock, up, body, expires, tree, removal, late, crashes>>
     ELSE Abort(t)

(* A write that fails, or the request is cancelled. *)
UploadRaises(t) == upload[t] \in {"begun", "open", "closed"} /\ Abort(t)

(* Storage.commit, in its thread: list the staging directory, ... *)
CommitList(t) ==
  /\ upload[t] = "closed"
  /\ IF dir[t] = "staging" /\ file[t]
     THEN /\ upload' = [upload EXCEPT ![t] = "listed"]
          /\ UNCHANGED <<clock, up, body, expires, tree, removal, late, crashes>>
     ELSE Abort(t)

(* ... rename it, which leaves its modification time alone, ... *)
CommitRename(t) ==
  /\ upload[t] = "listed"
  /\ IF dir[t] = "staging"
     THEN /\ dir' = [dir EXCEPT ![t] = "final"]
          /\ upload' = [upload EXCEPT ![t] = "renamed"]
          /\ UNCHANGED <<clock, up, body, expires, file, size, dirTime, fileTime,
                         removal, late, crashes>>
     ELSE Abort(t)

(* ... and take the size of the published file for the answer. *)
CommitStat(t) ==
  /\ upload[t] = "renamed"
  /\ IF Published(t)
     THEN /\ upload' = [upload EXCEPT ![t] = "answered"]
          /\ expires' = [expires EXCEPT ![t] = clock + Retention]
          /\ UNCHANGED <<clock, up, body, tree, removal, late, crashes>>
     ELSE Abort(t)

UploadStep(t) ==
  \/ BeginUpload(t) \/ OpenFile(t) \/ WriteChunk(t) \/ FinishBody(t) \/ UploadRaises(t)
  \/ CommitList(t) \/ CommitRename(t) \/ CommitStat(t)

(***************************************************************************)
(* A download of a link that somebody has been given.                      *)
(***************************************************************************)
(* Mutant of Download: the sweeper alone enforces the retention. *)
DownloadUntilSwept(t) ==
  /\ up /\ upload[t] = "answered" /\ Published(t)
  /\ late' = IF clock > expires[t] THEN late \union {t} ELSE late
  /\ UNCHANGED <<clock, up, requests, tree, removal, crashes>>

Download(t) ==
  /\ up /\ upload[t] = "answered" /\ Published(t)
  /\ clock - fileTime[t] <= Retention
  /\ late' = IF clock > expires[t] THEN late \union {t} ELSE late
  /\ UNCHANGED <<clock, up, requests, tree, removal, crashes>>

(***************************************************************************)
(* The removers: sweep and purge_all list the root and go through it.      *)
(***************************************************************************)
Listing == {<<t, dir[t]>> : t \in {x \in Tokens : dir[x] # "none"}}

StartSweep ==
  /\ up /\ step["sweep"] = "idle"
  /\ todo' = [todo EXCEPT !["sweep"] = Listing]
  /\ step' = [step EXCEPT !["sweep"] = "scan"]
  /\ UNCHANGED <<clock, up, requests, tree, at, condemned, purged, purges, late, crashes>>

StartPurge ==
  /\ up /\ step["purge"] = "idle"
  /\ purges < MaxPurges
  /\ purges' = purges + 1
  /\ todo' = [todo EXCEPT !["purge"] = Listing]
  /\ step' = [step EXCEPT !["purge"] = "scan"]
  /\ condemned' = {t \in Tokens : upload[t] = "answered"}
  /\ UNCHANGED <<clock, up, requests, tree, at, purged, late, crashes>>

(* Mutants of Doomed: purge_all spares what has not expired; sweep spares staging. *)
DoomedByAge(r, t, n) == n = "staging" \/ dirTime[t] < clock - Retention
DoomedIfPublished(r, t, n) == r = "purge" \/ (n = "final" /\ dirTime[t] < clock - Retention)

(* Whether the remover removes the directory it finds under the name. *)
Doomed(r, t, n) == r = "purge" \/ n = "staging" \/ dirTime[t] < clock - Retention

(* It takes the next name of its listing and opens the directory if it is to go. *)
Scan(r) ==
  /\ step[r] = "scan"
  /\ \E t \in Tokens, n \in Names :
       /\ <<t, n>> \in todo[r]
       /\ todo' = [todo EXCEPT ![r] = @ \ {<<t, n>>}]
       /\ IF dir[t] = n /\ Doomed(r, t, n)
          THEN step' = [step EXCEPT ![r] = "unlink"] /\ at' = [at EXCEPT ![r] = <<t, n>>]
          ELSE UNCHANGED <<step, at>>
  /\ UNCHANGED <<clock, up, requests, tree, condemned, purged, purges, late, crashes>>

(* The listing is done; purge_all answers. *)
EndScan(r) ==
  /\ step[r] = "scan" /\ todo[r] = {}
  /\ step' = [step EXCEPT ![r] = "idle"]
  /\ purged' = IF r = "purge" THEN purged \union condemned ELSE purged
  /\ condemned' = IF r = "purge" THEN {} ELSE condemned
  /\ UNCHANGED <<clock, up, requests, tree, todo, at, purges, late, crashes>>

(* Mutant of SweepRaises: nothing catches the exception, the sweeper ends. *)
SweeperDies ==
  /\ step["sweep"] = "scan"
  /\ \E t \in Tokens : <<t, "final">> \in todo["sweep"] /\ dir[t] = "none"
  /\ todo' = [todo EXCEPT !["sweep"] = {}]
  /\ step' = [step EXCEPT !["sweep"] = "rmdir"]
  /\ UNCHANGED <<clock, up, requests, tree, at, condemned, purged, purges, late, crashes>>

(* An entry goes between is_dir and stat: sweep raises, and is tried again later. *)
SweepRaises ==
  /\ step["sweep"] = "scan"
  /\ \E t \in Tokens : <<t, "final">> \in todo["sweep"] /\ dir[t] = "none"
  /\ todo' = [todo EXCEPT !["sweep"] = {}]
  /\ step' = [step EXCEPT !["sweep"] = "idle"]
  /\ UNCHANGED <<clock, up, requests, tree, at, condemned, purged, purges, late, crashes>>

(* rmtree unlinks the file in the directory it has opened, renamed or not, ... *)
UnlinkFile(r) ==
  /\ step[r] = "unlink"
  /\ \E t \in Tokens, n \in Names :
       /\ at[r] = <<t, n>>
       /\ file' = [file EXCEPT ![t] = FALSE]
       /\ dirTime' = IF file[t] THEN [dirTime EXCEPT ![t] = clock] ELSE dirTime
  /\ step' = [step EXCEPT ![r] = "rmdir"]
  /\ UNCHANGED <<clock, up, requests, dir, size, fileTime, todo, at, condemned, purged, purges,
                 late, crashes>>

(* ... and removes the directory by its name, if it is there and empty. *)
RemoveDir(r) ==
  /\ step[r] = "rmdir"
  /\ \E t \in Tokens, n \in Names :
       /\ at[r] = <<t, n>>
       /\ dir' = IF dir[t] = n /\ ~file[t] THEN [dir EXCEPT ![t] = "none"] ELSE dir
  /\ step' = [step EXCEPT ![r] = "scan"]
  /\ at' = [at EXCEPT ![r] = NoEntry]
  /\ UNCHANGED <<clock, up, requests, file, size, dirTime, fileTime, todo, condemned, purged,
                 purges, late, crashes>>

RemoverStep(r) == Scan(r) \/ EndScan(r) \/ UnlinkFile(r) \/ RemoveDir(r)

(* Storage.delete of a token the administrator has been shown: list_entries tells *)
(* an entry as soon as it has its name.                                           *)
PurgeOne(t) ==
  /\ up /\ upload[t] \in {"renamed", "answered"}
  /\ dir[t] = "final"
  /\ dir' = [dir EXCEPT ![t] = "none"]
  /\ file' = [file EXCEPT ![t] = FALSE]
  /\ purged' = purged \union {t}
  /\ UNCHANGED <<clock, up, requests, size, dirTime, fileTime, step, todo, at, condemned, purges,
                 late, crashes>>

(***************************************************************************)
(* Time, crashes and restarts.                                             *)
(***************************************************************************)
Tick ==
  /\ clock < MaxTime
  /\ clock' = clock + 1
  /\ UNCHANGED <<up, requests, tree, removal, late, crashes>>

Crash ==
  /\ up /\ crashes < MaxCrashes
  /\ crashes' = crashes + 1
  /\ up' = FALSE
  /\ upload' = [t \in Tokens |-> IF upload[t] \in InFlight THEN "lost" ELSE upload[t]]
  /\ step' = [r \in Removers |-> "idle"]
  /\ todo' = [r \in Removers |-> {}]
  /\ at' = [r \in Removers |-> NoEntry]
  /\ condemned' = {}
  /\ UNCHANGED <<clock, body, expires, tree, purged, purges, late>>

Restart ==
  /\ ~up
  /\ up' = TRUE
  /\ UNCHANGED <<clock, requests, tree, removal, late, crashes>>

SweeperStep == StartSweep \/ RemoverStep("sweep")

Next ==
  \/ \E t \in Tokens : EndBody(t) \/ GoAway(t) \/ UploadStep(t) \/ Download(t) \/ PurgeOne(t)
  \/ StartSweep \/ SweepRaises \/ StartPurge
  \/ \E r \in Removers : RemoverStep(r)
  \/ Tick \/ Crash \/ Restart

Spec == Init /\ [][Next]_vars

(* The sweeper sleeps and sweeps again, the process is restarted, a        *)
(* request that has lost its client or its directory ends.                 *)
Fairness ==
  /\ WF_vars(SweeperStep)
  /\ WF_vars(Restart)

FairSpec == Spec /\ Fairness
-----------------------------------------------------------------------------
(***************************************************************************)
(* What the server promises.                                               *)
(***************************************************************************)
(* A download link never resolves to a file that is still being written,   *)
(* or that its client left half sent: what is published is a whole body,   *)
(* whatever a sweep or a purge does to the directories meanwhile.          *)
PublishedIsWhole ==
  \A t \in Tokens : Published(t) => body[t] = "complete" /\ size[t] > 0

(* No download is granted after the moment the uploader was told, although *)
(* the download handler measures from the last write and the answer from   *)
(* the commit (_is_expired, StoredFile.expires_at).                        *)
ServedInTime == late = {}

(* A deletion that was reported is final: a link that existed when the     *)
(* purge began does not work after it has answered, whatever the sweeper's *)
(* thread and the uploads did to the tree in between.                      *)
PurgedStaysGone == \A t \in purged : ~Published(t)

Abandoned(t) == upload[t] \notin InFlight /\ file[t]

(* Retention is enforced: an entry past its age is deleted, through sweeps *)
(* that raise because something else removed an entry under them.          *)
RetentionEnforced ==
  \A t \in Tokens :
    Abandoned(t) /\ dir[t] = "final" /\ dirTime[t] + Retention < clock ~> ~file[t]
-----------------------------------------------------------------------------
(***************************************************************************)
(* What docs and comments say and the code does not keep.                  *)
(***************************************************************************)
(* "Delete expired entries and any staging left by an interrupted upload": *)
(* a sweep leaves the file of an upload that is going on alone.            *)
SweepSparesLiveUploads ==
  [][\A t \in Tokens : upload[t] \in InFlight /\ file[t] /\ ~file'[t] => upload'[t] = "failed"]_vars

=============================================================================
