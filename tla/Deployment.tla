----------------------------- MODULE Deployment -----------------------------
(***************************************************************************)
(* What RunTest promises, with nothing said of how: each node set is       *)
(* settled at most once per run, as deployed or as failed; the run is      *)
(* announced only when all are settled; it may be given up before any      *)
(* node set is touched, or crash at any time; and it may be started again. *)
(***************************************************************************)
CONSTANT NodeSets

VARIABLES
  phase,    \* "running", or how the run ended
  outcome   \* outcome[n]: what became of node set n in this run

avars == <<phase, outcome>>

Pending == [n \in NodeSets |-> "pending"]

AInit == phase = "running" /\ outcome = Pending

Settle(n) ==
  /\ phase = "running"
  /\ outcome[n] = "pending"
  /\ \E o \in {"deployed", "failed"} : outcome' = [outcome EXCEPT ![n] = o]
  /\ UNCHANGED phase

End ==
  /\ phase = "running"
  /\ \/ phase' = "announced" /\ \A n \in NodeSets : outcome[n] # "pending"
     \/ phase' = "aborted" /\ outcome = Pending
     \/ phase' = "crashed"
  /\ UNCHANGED outcome

Again ==
  /\ phase # "running"
  /\ phase' = "running"
  /\ outcome' = Pending

ANext == (\E n \in NodeSets : Settle(n)) \/ End \/ Again

ASpec == AInit /\ [][ANext]_avars
=============================================================================
