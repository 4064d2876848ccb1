--------------------------- MODULE MCFileExchange ---------------------------
(* Instances of FileExchange for TLC. *)
EXTENDS FileExchange

CONSTANTS t1, t2

OneToken == {t1}
TwoTokens == {t1, t2}

(* Two uploads beside the sweeper and single deletions.  The purge of everything, *)
(* crashes and restarts are left to the instance of LinkDelivery.                 *)
PairNext ==
  \/ \E t \in Tokens : EndBody(t) \/ GoAway(t) \/ UploadStep(t) \/ Download(t) \/ PurgeOne(t)
  \/ SweeperStep \/ SweepRaises
  \/ Tick

PairSpec == Init /\ [][PairNext]_vars /\ Fairness
=============================================================================
