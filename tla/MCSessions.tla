---------------------------- MODULE MCSessions ----------------------------
(* Instances of Sessions for TLC. *)
EXTENDS Sessions, TLC

Symm == Permutations(Sid) \cup Permutations(Req)
=============================================================================
