----------------------------- MODULE MCPodSpec ------------------------------
(* A playbook for TLC: a clean node set of two workers, two node sets that *)
(* share a worker, and an empty one.                                       *)
EXTENDS PodSpecProperties

MCSet ==
  [g \in NodeSets |-> CASE g = "a" -> <<"w1", "w2">>
                        [] g = "b" -> <<"both", "w3">>
                        [] g = "c" -> <<"w4", "both">>
                        [] OTHER   -> <<>>]

\* w3 is given the name that "both" gets by default when b is first.
MCGivenUID ==
  [w \in Workers |-> CASE w = "w2" -> <<"w2">>
                       [] w = "w3" -> <<"b", 1>>
                       [] OTHER    -> NoUID]

MCUserEnvs ==
  [w \in Workers |-> CASE w = "w1" -> <<"MODE">>
                       [] w = "w2" -> <<"MODE", "REDIS_DB">>
                       [] w = "w3" -> <<"WORKER_UID">>
                       [] OTHER    -> <<>>]

File(s, d, b) == [src |-> s, dir |-> d, base |-> b]

\* w1 has three files in two directories, two of them under one name.
MCFiles ==
  [w \in Workers |->
     CASE w = "w1" -> {File("s1", "/opt", "f"), File("s2", "/opt", "g"),
                       File("s3", "/opt", "f"), File("s4", "/etc", "f")}
       [] w = "w2" -> {File("s5", "/opt", "h")}
       [] OTHER    -> {}]

MCNoUID == <<>>
=============================================================================
