----------------------------- MODULE MCThrottle -----------------------------
(* An instance of Throttle for TLC. *)
EXTENDS Throttle

CONSTANTS alice, bob, eve

TwoAllowed == {alice, bob}
Everybody == {alice, bob, eve}
=============================================================================
