----------------------------- MODULE MCJobQueue -----------------------------
(* Instances of JobQueue for TLC. *)
EXTENDS JobQueue, TLC

CONSTANTS alice, bob, j1, j2

TwoJobs == {j1, j2}
OneUser == {alice}
TwoUsers == {alice, bob}

(* Every job is alice's. *)
OneOwner == [j \in Jobs |-> alice]

(* The second job is bob's. *)
TwoOwners == [j \in Jobs |-> IF j = j2 THEN bob ELSE alice]
=============================================================================
