------------------------ MODULE MCFollowUpSequences ------------------------
(* Instances of FollowUpSequences for TLC.                                 *)
EXTENDS FollowUpSequences, TLC

CONSTANTS h1, h2, c1, c2, e1, e2

Interchangeable == Permutations({h1, h2}) \cup Permutations({c1, c2}) \cup Permutations({e1, e2})
============================================================================
