---------------------------- MODULE MCSshdService ----------------------------
(* Instances of SshdService for TLC. *)
EXTENDS SshdService, TLC

Symmetry == Permutations(Pid) \cup Permutations(Inst)
=============================================================================
