----------------------------- MODULE AlbumCache -----------------------------
(***************************************************************************)
(* What the audio cache promises: an album is there whole or not at all.   *)
(* It is fetched when it is not there, and kept until an eviction or a     *)
(* purge condemns it; one fetched under an alias, which no lookup finds,   *)
(* may be fetched again.  The album a job is working from stays as it is,  *)
(* unless it is condemned, and then the job has lost it.                   *)
(***************************************************************************)
EXTENDS Naturals

CONSTANTS
  Keys,      \* the media
  Canonical  \* those known by the site's own id: the others are aliases

VARIABLES
  album,     \* album[k]: the fetch that made the album of k, 0 when it is not there
  using,     \* the album the running job works from, 0 when it has none
  condemned  \* the media that are being evicted or purged

vars == <<album, using, condemned>>

Init == /\ album = [k \in Keys |-> 0]
        /\ using = 0
        /\ condemned = {}

(* A job has fetched what was not there, and goes on with it. *)
Fetch(k) ==
  /\ album[k] = 0
  /\ using' \in Nat \ {0}
  /\ \A j \in Keys : album[j] # using'
  /\ album' = [album EXCEPT ![k] = using']
  /\ UNCHANGED condemned

Hit(k) ==
  /\ album[k] # 0
  /\ using' = album[k]
  /\ UNCHANGED <<album, condemned>>

Release == using' = 0 /\ UNCHANGED <<album, condemned>>

Condemn(S) ==
  /\ condemned' = condemned \union S
  /\ using' = IF \E k \in S : album[k] = using THEN 0 ELSE using
  /\ UNCHANGED album

Drop(k) ==
  /\ k \in condemned \/ k \notin Canonical
  /\ album[k] # using
  /\ album' = [album EXCEPT ![k] = 0]
  /\ UNCHANGED <<using, condemned>>

Forget(S) ==
  /\ condemned' = condemned \ S
  /\ UNCHANGED <<album, using>>

(* The process dies: what it was using and dropping is forgotten. *)
Crash == using' = 0 /\ condemned' = {} /\ UNCHANGED album

Next ==
  \/ \E k \in Keys : Fetch(k) \/ Hit(k) \/ Drop(k)
  \/ \E S \in SUBSET Keys : Condemn(S) \/ Forget(S)
  \/ Release \/ Crash

Spec == Init /\ [][Next]_vars
=============================================================================
