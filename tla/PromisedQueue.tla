---------------------------- MODULE PromisedQueue ----------------------------
(***************************************************************************)
(* What the job queue promises its users, whatever happens to the process: *)
(* an accepted job stays pending until it is settled, it is settled in the *)
(* end, and one that is reported done has been sent at least once.  A      *)
(* settled job may be taken up again: a grace period that runs out while   *)
(* the job ends puts it back.                                              *)
(***************************************************************************)
CONSTANT Jobs

VARIABLES
  outcome,  \* outcome[j]: what the database says of j
  sent      \* the jobs whose result has been delivered

vars == <<outcome, sent>>

Outcomes == {"none", "pending", "done", "failed", "cancelled"}

TypeOK == outcome \in [Jobs -> Outcomes] /\ sent \subseteq Jobs

Init == outcome = [j \in Jobs |-> "none"] /\ sent = {}

(* The outcomes that may follow outcome[j]; a user may cancel before anything. *)
Successors(j) ==
  CASE outcome[j] = "none"            -> {"none", "pending", "cancelled"}
    [] outcome[j] = "pending"         -> {"pending", "failed", "cancelled"} \union
                                         (IF j \in sent THEN {"done"} ELSE {})
    [] outcome[j] = "done"            -> {"done", "pending"}
    [] outcome[j] = "failed"          -> {"failed", "pending"}
    [] outcome[j] = "cancelled"       -> {"cancelled"}

(* One commit of the database; it may carry the statements of several coroutines. *)
Decide ==
  /\ outcome' \in [Jobs -> Outcomes]
  /\ \A j \in Jobs : outcome'[j] \in Successors(j)
  /\ UNCHANGED sent

Send(j) ==
  /\ outcome[j] = "pending"
  /\ sent' = sent \union {j}
  /\ UNCHANGED outcome

Next == Decide \/ \E j \in Jobs : Send(j)

Spec == Init /\ [][Next]_vars

(* Whatever is pending is settled in the end. *)
Settles == \A j \in Jobs : outcome[j] = "pending" ~> outcome[j] # "pending"
=============================================================================
