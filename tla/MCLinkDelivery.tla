--------------------------- MODULE MCLinkDelivery ---------------------------
(* An instance of LinkDelivery for TLC: one delivery. *)
EXTENDS LinkDelivery

CONSTANTS t1

OneToken == {t1}

=============================================================================
