----------------------------- MODULE MCRegistry -----------------------------
(* Small instances of the registry for TLC.                                 *)
EXTENDS RegistryProperties, TLC

CONSTANTS a, b, r1, r2

NoneFails == {[w \in Workers |-> "no"]}

\* Any check may fail for anybody.
AnyFails == [Workers -> {"no", "early", "late"}]

Alike == Permutations(Workers) \cup Permutations(Replicas)
=============================================================================
