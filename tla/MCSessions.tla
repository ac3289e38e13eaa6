---------------------------- MODULE MCSessions ----------------------------
(* Instances of Sessions for TLC.                                           *)
EXTENDS Sessions, TLC

Pools == Permutations(Request) \cup Permutations(SessionId)
=============================================================================
