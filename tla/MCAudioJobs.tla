---------------------------- MODULE MCAudioJobs -----------------------------
(* Instances of AudioJobs for TLC: albums of two tracks, of one and two bytes. *)
EXTENDS AudioJobs

CONSTANTS k1, k2

TwoKeys == {k1, k2}
OneCanonical == {k1}
Sizes == <<1, 2>>

=============================================================================
