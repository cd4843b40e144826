------------------------------ MODULE Registry ------------------------------
(***************************************************************************)
(* How workers find each other: workerCmd (cmd/testwave/worker.go) puts    *)
(* the worker's address into Redis with SetIP before it calls RunWorker,   *)
(* and the playbook's code asks for the others with GetIP or GetIPWaiting  *)
(* (pkg/message/message.go).                                               *)
(*                                                                         *)
(* Redis runs without persistence, behind a service that sends a new       *)
(* connection to any of the replicas the autoscaler made, which share      *)
(* nothing.  A key is ipKeyPrefix and a UID, so it stands for the worker;  *)
(* an address is the number of the run whose pod has it.                   *)
(*                                                                         *)
(* The playbook here asks until it knows every peer.  It goes on after     *)
(* ErrMsgNotFound and returns any other error.                             *)
(***************************************************************************)
EXTENDS Integers, FiniteSets

CONSTANTS
  Workers,
  Replicas,   \* Redis pods, as far as the autoscaler may go
  NoReplica,  \* a client without a connection
  FailsAt,    \* what may be wrong with the containers of a run, see failsAt
  Cancels,    \* workers whose playbook may cancel the context of its waits
  MaxFaults,  \* bound: commands that break
  MaxLosses,  \* bound: Redis pods lost and keys expired
  MaxRuns     \* bound: times the test is run on the same Redis

ASSUME RegistryAssumption ==
  /\ Replicas # {} /\ NoReplica \notin Replicas
  /\ FailsAt \subseteq [Workers -> {"no", "early", "late"}]
  /\ Cancels \subseteq Workers
  /\ MaxFaults \in Nat /\ MaxLosses \in Nat /\ MaxRuns \in Nat \ {0}

VARIABLES
  store,       \* store[r][v]: the address under v's key on replica r, or None
  up,          \* replicas that serve
  conn,        \* conn[w]: the replica w's client is connected to, or NoReplica
  pc,          \* pc[w]: where workerCmd, or the playbook's call, is
  peer,        \* peer[w]: the worker whose address w asks for
  waits,       \* waits[w]: it asks with a context
  known,       \* known[w][v]: the address of v that w got, or None
  ctxDone,     \* workers whose context is done
  run,         \* which run this is
  failsAt,     \* failsAt[w]: "no", or the checks of workerCmd that fail for w
               \* in this run: "early", before SetIP, or "late", after it
  faults, losses,
  registered   \* history: registered[v], the addresses v has set

clientVars == <<pc, peer, waits, known>>
thisRun == <<run, failsAt>>
vars == <<store, up, conn, clientVars, ctxDone, thisRun, faults, losses, registered>>

None == 0
Addresses == 1..MaxRuns

Asking(w) == pc[w] \in {"get", "tick"}
Ended(w)  == pc[w] \in {"finished", "failed"}

TypeOK ==
  /\ store \in [Replicas -> [Workers -> Addresses \cup {None}]]
  /\ up \subseteq Replicas /\ up # {}
  /\ conn \in [Workers -> Replicas \cup {NoReplica}]
  /\ pc \in [Workers ->
       {"boot", "setIP", "interface", "run", "get", "tick", "finished", "failed"}]
  /\ peer \in [Workers -> Workers]
  /\ waits \in [Workers -> BOOLEAN]
  /\ known \in [Workers -> [Workers -> Addresses \cup {None}]]
  /\ ctxDone \subseteq Cancels
  /\ run \in 1..MaxRuns /\ failsAt \in FailsAt
  /\ faults \in 0..MaxFaults /\ losses \in 0..MaxLosses
  /\ registered \in [Workers -> SUBSET Addresses]

NobodyKnown == [w \in Workers |-> [v \in Workers |-> None]]

Init ==
  /\ store = [r \in Replicas |-> [v \in Workers |-> None]]
  /\ \E r \in Replicas : up = {r}
  /\ conn = [w \in Workers |-> NoReplica]
  /\ pc = [w \in Workers |-> "boot"]
  /\ peer = [w \in Workers |-> w]
  /\ waits = [w \in Workers |-> FALSE]
  /\ known = NobodyKnown
  /\ ctxDone = {}
  /\ run = 1 /\ failsAt \in FailsAt
  /\ faults = 0 /\ losses = 0
  /\ registered = [v \in Workers |-> {}]

-----------------------------------------------------------------------------
(* The Redis client.                                                        *)

\* A command goes over the open connection, or a new one to any replica.
Reaches(w, r) ==
  /\ r \in up
  /\ conn[w] \in {r, NoReplica}
  /\ conn' = [conn EXCEPT ![w] = r]
  /\ UNCHANGED faults

\* go-redis does not retry, and drops the connection.
Breaks(w) ==
  /\ faults < MaxFaults
  /\ faults' = faults + 1
  /\ conn' = [conn EXCEPT ![w] = NoReplica]

Goto(w, step) == pc' = [pc EXCEPT ![w] = step]

-----------------------------------------------------------------------------
(* workerCmd.                                                               *)

\* Mutant: the checks are logged and forgotten.
BootRegardless(w) ==
  /\ pc[w] = "boot" /\ (\E r \in up : Reaches(w, r)) /\ Goto(w, "setIP")
  /\ UNCHANGED <<store, up, peer, waits, known, ctxDone, thisRun, losses, registered>>

\* The environment, the ping and LocalIPAddress.
Boot(w) ==
  /\ pc[w] = "boot"
  /\ \/ /\ \E r \in up : Reaches(w, r)
        /\ Goto(w, IF failsAt[w] = "early" THEN "failed" ELSE "setIP")
     \/ Breaks(w) /\ Goto(w, "failed")
  /\ UNCHANGED <<store, up, peer, waits, known, ctxDone, thisRun, losses, registered>>

\* Mutant: the key is not made from the worker's own UID.
SetIPUnderAnyKey(w) ==
  /\ pc[w] = "setIP"
  /\ \E r \in up, v \in Workers :
       /\ Reaches(w, r)
       /\ store' = [store EXCEPT ![r][v] = run]
  /\ registered' = [registered EXCEPT ![w] = @ \cup {run}]
  /\ Goto(w, "interface")
  /\ UNCHANGED <<up, peer, waits, known, ctxDone, thisRun, losses>>

\* Mutant: SetIP is called before LocalIPAddress.
SetEmptyIP(w) ==
  /\ pc[w] = "setIP" /\ (\E r \in up : Reaches(w, r)) /\ Goto(w, "interface")
  /\ registered' = [registered EXCEPT ![w] = @ \cup {None}]
  /\ UNCHANGED <<store, up, peer, waits, known, ctxDone, thisRun, losses>>

\* A Set that breaks may have been applied; the worker exits all the same.
SetIP(w) ==
  /\ pc[w] = "setIP"
  /\ \/ /\ \E r \in up :
             Reaches(w, r) /\ store' = [store EXCEPT ![r][w] = run]
        /\ registered' = [registered EXCEPT ![w] = @ \cup {run}]
        /\ Goto(w, "interface")
     \/ /\ Breaks(w)
        /\ Goto(w, "failed")
        /\ \/ UNCHANGED <<store, registered>>
           \/ /\ \E r \in up :
                   conn[w] \in {r, NoReplica} /\ store' = [store EXCEPT ![r][w] = run]
              /\ registered' = [registered EXCEPT ![w] = @ \cup {run}]
  /\ UNCHANGED <<up, peer, waits, known, ctxDone, thisRun, losses>>

NetworkInterfaceByIP(w) ==
  /\ pc[w] = "interface"
  /\ Goto(w, IF failsAt[w] = "late" THEN "failed" ELSE "run")
  /\ UNCHANGED <<store, up, conn, peer, waits, known, ctxDone, thisRun, faults,
                 losses, registered>>

\* RunWorker returns nil.
Finish(w) ==
  /\ pc[w] = "run"
  /\ \A v \in Workers \ {w} : known[w][v] # None
  /\ Goto(w, "finished")
  /\ UNCHANGED <<store, up, conn, peer, waits, known, ctxDone, thisRun, faults,
                 losses, registered>>

-----------------------------------------------------------------------------
(* GetIP and GetIPWaiting.                                                  *)

GetIPWaiting(w, v, withCtx) ==
  /\ pc[w] = "run" /\ v # w /\ known[w][v] = None
  /\ peer' = [peer EXCEPT ![w] = v]
  /\ waits' = [waits EXCEPT ![w] = withCtx]
  /\ Goto(w, "get")
  /\ UNCHANGED <<store, up, conn, known, ctxDone, thisRun, faults, losses, registered>>

CtxIsDone(w) == waits[w] /\ w \in ctxDone

\* The call returns to the playbook, or the playbook fails on it.
Returns(w, step) ==
  /\ Goto(w, step)
  /\ peer' = [peer EXCEPT ![w] = w]
  /\ waits' = [waits EXCEPT ![w] = FALSE]

Turns(w, step) == Goto(w, step) /\ UNCHANGED <<peer, waits>>

\* What the Get brings, over the connection to r.
GetFrom(w, r) ==
  LET value == store[r][peer[w]] IN
  /\ Reaches(w, r)
  /\ IF value # None
     THEN Returns(w, "run") /\ known' = [known EXCEPT ![w][peer[w]] = value]
     ELSE /\ IF waits[w] THEN Turns(w, "tick") ELSE Returns(w, "run")
          /\ UNCHANGED known

\* Mutant: the loop does not look at the context before it reads.
GetFirst(w) ==
  /\ pc[w] = "get"
  /\ \E r \in up : GetFrom(w, r)
  /\ UNCHANGED <<store, up, ctxDone, thisRun, losses, registered>>

\* One turn of GetWaiting, or the only Get of GetIP.
Get(w) ==
  /\ pc[w] = "get"
  /\ \/ CtxIsDone(w) /\ Returns(w, "failed") /\ UNCHANGED <<known, conn, faults>>
     \/ ~CtxIsDone(w) /\ \E r \in up : GetFrom(w, r)
     \/ ~CtxIsDone(w) /\ Breaks(w) /\ Returns(w, "failed") /\ UNCHANGED known
  /\ UNCHANGED <<store, up, ctxDone, thisRun, losses, registered>>

\* With the context done and the ticker ready, select may take either.
Tick(w) ==
  /\ pc[w] = "tick"
  /\ \/ CtxIsDone(w) /\ Returns(w, "failed")
     \/ Turns(w, "get")
  /\ UNCHANGED <<store, up, conn, known, ctxDone, thisRun, faults, losses, registered>>

Step(w) ==
  \/ Boot(w) \/ SetIP(w) \/ NetworkInterfaceByIP(w) \/ Finish(w)
  \/ \E v \in Workers, withCtx \in BOOLEAN : GetIPWaiting(w, v, withCtx)
  \/ Get(w) \/ Tick(w)

-----------------------------------------------------------------------------
(* The environment.                                                         *)

Cancel(w) ==
  /\ w \in Cancels \ ctxDone /\ ~Ended(w)
  /\ ctxDone' = ctxDone \cup {w}
  /\ UNCHANGED <<store, up, conn, clientVars, thisRun, faults, losses, registered>>

\* The pool closes a connection that was idle while the playbook did other things.
Reap(w) ==
  /\ pc[w] = "run" /\ conn[w] # NoReplica
  /\ conn' = [conn EXCEPT ![w] = NoReplica]
  /\ UNCHANGED <<store, up, clientVars, ctxDone, thisRun, faults, losses, registered>>

ScaleUp(r) ==
  /\ r \notin up
  /\ up' = up \cup {r}
  /\ UNCHANGED <<store, conn, clientVars, ctxDone, thisRun, faults, losses, registered>>

\* A Redis pod goes away with all it held; the last one is started again, empty.
Lose(r) ==
  /\ r \in up /\ losses < MaxLosses
  /\ losses' = losses + 1
  /\ store' = [store EXCEPT ![r] = [v \in Workers |-> None]]
  /\ up' = IF up = {r} THEN up ELSE up \ {r}
  /\ conn' = [w \in Workers |-> IF conn[w] = r THEN NoReplica ELSE conn[w]]
  /\ UNCHANGED <<clientVars, ctxDone, thisRun, faults, registered>>

\* DefaultMsgExpireTime has passed since the Set.
Expire(r, v) ==
  /\ store[r][v] # None /\ losses < MaxLosses
  /\ losses' = losses + 1
  /\ store' = [store EXCEPT ![r][v] = None]
  /\ UNCHANGED <<up, conn, clientVars, ctxDone, thisRun, faults, registered>>

\* The pods are deleted by hand and the test is started again; Redis stays.
NextRun ==
  /\ run < MaxRuns /\ \A w \in Workers : Ended(w)
  /\ run' = run + 1 /\ failsAt' \in FailsAt
  /\ pc' = [w \in Workers |-> "boot"]
  /\ conn' = [w \in Workers |-> NoReplica]
  /\ known' = NobodyKnown
  /\ ctxDone' = {}
  /\ UNCHANGED <<store, up, peer, waits, faults, losses, registered>>

Stopped == run = MaxRuns /\ (\A w \in Workers : Ended(w)) /\ UNCHANGED vars

RedisStep == \E r \in Replicas : ScaleUp(r) \/ Lose(r) \/ \E v \in Workers : Expire(r, v)

Next ==
  \/ \E w \in Workers : Step(w) \/ Cancel(w) \/ Reap(w)
  \/ RedisStep
  \/ NextRun
  \/ Stopped

Spec == Init /\ [][Next]_vars

\* Worker containers are scheduled, tickers tick, commands are answered.
FairSpec == Spec /\ \A w \in Workers : WF_vars(Step(w))
=============================================================================
