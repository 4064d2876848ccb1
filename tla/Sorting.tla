------------------------------- MODULE Sorting ------------------------------
(***************************************************************************)
(* sorted(...) and list.sort of Python, as the code uses them: on the      *)
(* elements of a finite set, none of which is equal to another.            *)
(***************************************************************************)
EXTENDS Integers, FiniteSets, Sequences

(* The elements of S in the order R, a set of pairs that orders S strictly. *)
Listing(S, R) ==
  CHOOSE s \in [1..Cardinality(S) -> S] :
    \A i, j \in DOMAIN s : i < j => <<s[i], s[j]>> \in R

=============================================================================
