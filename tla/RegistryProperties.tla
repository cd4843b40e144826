------------------------- MODULE RegistryProperties -------------------------
(* What the workers may rely on when they look each other up.               *)
EXTENDS Registry

(* An address that a worker got was set by the node it asked for, in this   *)
(* run or an earlier one on the same Redis: SetIP and GetIPWaiting build    *)
(* the same key from the UID, whatever replica, loss or broken command.     *)
AddressWasRegistered ==
  \A w, v \in Workers : known[w][v] # None => known[w][v] \in registered[v]

(* v has come in, in this run: it passed its early checks, and its SetIP    *)
(* was carried out, even if the answer was lost and v ended over it.        *)
CameIn(v) ==
  /\ failsAt[v] # "early"
  /\ pc[v] \notin {"boot", "setIP"}
  /\ run \in registered[v]

(* In the first run, a worker that finished met every other, and all of     *)
(* those have come in, since SetIP follows the checks and comes before      *)
(* RunWorker: asking for the addresses of the others works as a barrier.    *)
(* In later runs it does so for the nodes whose address is of that run.     *)
NobodyMeetsTheAbsent ==
  \A w, v \in Workers :
    pc[w] = "finished" /\ v # w /\ (run = 1 \/ known[w][v] = run) => CameIn(v)

(* The autoscaler has not acted, and Redis has kept what it was given.      *)
OneRedis == Cardinality(up) = 1 /\ losses = 0

(* While there is one Redis pod that keeps what it has and answers, and no  *)
(* context ends, workers that all start all meet: the barrier opens.        *)
AllStart == \A w \in Workers : failsAt[w] = "no"
Quiet == OneRedis /\ faults = 0 /\ ctxDone = {}

AllMeet == [](AllStart /\ Quiet) => <>(\A w \in Workers : pc[w] = "finished")

(* The safety half of it: nobody fails, so nobody waits for the absent.     *)
NobodyFails == \A w \in Workers : pc[w] # "failed"

(* A wait whose context is done ends, whatever happens to Redis.            *)
CtxEndsWait ==
  \A w \in Workers : (Asking(w) /\ CtxIsDone(w)) ~> ~Asking(w)

Registers(v) == pc[v] \in {"interface", "run", "get", "tick", "finished"}

WaitEndsWhenSet ==
  \A w, v \in Workers :
    (Asking(w) /\ waits[w] /\ peer[w] = v /\ Registers(v)) ~> ~Asking(w)

(* "It waits until either the IP address is set by the node or the context  *)
(* is done" (message.go:83), and this is what it takes: one Redis pod that  *)
(* keeps what it has, and no broken command.  Then a wait ends once the     *)
(* node has set its address, whoever else has failed or given up.           *)
WaitEndsOnOneRedis == [](OneRedis /\ faults = 0) => WaitEndsWhenSet

(* The safety half of it: what a node has set is there for whoever asks     *)
(* next, over whichever connection.                                         *)
SetIsFound == \A v \in Workers : Registers(v) => \A r \in up : store[r][v] # None
=============================================================================
