---------------------------- MODULE StartCommand ----------------------------
(***************************************************************************)
(* The start command (cmd/testwave/start.go, pkg/deployer) and what comes  *)
(* of it: the image is built and pushed to a registry that is open to all, *)
(* then a Role and the dispatcher's pod are created and the first logs of  *)
(* the pod are fetched, all under one deadline.  The dispatcher's process  *)
(* is started from that image and creates the worker pod, which runs the   *)
(* image of the same name.                                                 *)
(*                                                                         *)
(* Several people may start tests in one namespace.  A call that fails or  *)
(* passes the deadline may have been carried out, and start takes back     *)
(* nothing of what it did.                                                 *)
(***************************************************************************)
EXTENDS Integers, FiniteSets

CONSTANTS
  Starts,  \* invocations of the command
  Nobody

ASSUME StartAssumption == IsFiniteSet(Starts) /\ Nobody \notin Starts

VARIABLES
  stage,     \* stage[s]: the next call of s, "done" (exit code 0) or "exited" (1)
  registry,  \* registry[i]: whose build is under the image name i
  roles,     \* starts whose Role exists
  pods,      \* pods[s]: the dispatcher pod of s
  build,     \* build[s]: whose build its container was started from
  worker     \* the worker pod: [of, state, build]

startVars == <<stage, registry, roles, pods, build, worker>>

NoWorker == [of |-> Nobody, state |-> "none", build |-> Nobody]

StartTypeOK ==
  /\ stage \in [Starts -> {"build", "role", "pod", "logs", "done", "exited"}]
  /\ registry \in [Starts -> Starts \cup {Nobody}]
  /\ roles \subseteq Starts
  /\ pods \in [Starts -> {"none", "pending", "running", "over"}]
  /\ build \in [Starts -> Starts \cup {Nobody}]
  /\ worker \in [of : Starts \cup {Nobody}, state : {"none", "pending", "running"},
                 build : Starts \cup {Nobody}]

StartInit ==
  /\ stage = [s \in Starts |-> "build"]
  /\ registry = [s \in Starts |-> Nobody]
  /\ roles = {}
  /\ pods = [s \in Starts |-> "none"]
  /\ build = [s \in Starts |-> Nobody]
  /\ worker = NoWorker

Goes(s, to) == stage' = [stage EXCEPT ![s] = to]

-----------------------------------------------------------------------------
(* The command.                                                            *)

\* Mutant: all builds go to one name.
OneName(s) == CHOOSE t \in Starts : TRUE

\* A new UUID in the registry's namespace, which nobody else has.
ImageName(s) == s

\* The dispatcher's pod is given the image, and its name for the workers'.
WorkerImage(s) == ImageName(s)

Pushed(s) == [registry EXCEPT ![ImageName(s)] = s]

Build(s) ==
  /\ stage[s] = "build"
  /\ \/ registry' = Pushed(s) /\ Goes(s, "role")
     \/ registry' \in {registry, Pushed(s)} /\ Goes(s, "exited")
  /\ UNCHANGED <<roles, pods, build, worker>>

\* The names of the Role and the pod are random; nobody else has them.
CreateRole(s) ==
  /\ stage[s] = "role"
  /\ \/ roles' = roles \cup {s} /\ Goes(s, "pod")
     \/ roles' \in {roles, roles \cup {s}} /\ Goes(s, "exited")
  /\ UNCHANGED <<registry, pods, build, worker>>

CreatePod(s) ==
  /\ stage[s] = "pod"
  /\ \/ pods' = [pods EXCEPT ![s] = "pending"] /\ Goes(s, "logs")
     \/ /\ pods' \in {pods, [pods EXCEPT ![s] = "pending"]}
        /\ Goes(s, "exited")
  /\ UNCHANGED <<registry, roles, build, worker>>

\* Mutant: the error of GetLogs is dropped.
ContainerLogsAnyhow(s) ==
  /\ stage[s] = "logs"
  /\ Goes(s, "done")
  /\ UNCHANGED <<registry, roles, pods, build, worker>>

\* GetLogs is refused as long as the container has not been started.
ContainerLogs(s) ==
  /\ stage[s] = "logs"
  /\ \/ pods[s] \in {"running", "over"} /\ Goes(s, "done")
     \/ Goes(s, "exited")
  /\ UNCHANGED <<registry, roles, pods, build, worker>>

Start(s) == Build(s) \/ CreateRole(s) \/ CreatePod(s) \/ ContainerLogs(s)

-----------------------------------------------------------------------------
(* What Kubernetes and the dispatcher's process make of it.                *)

\* The image is pulled, and the dispatcher command runs.
StartDispatcher(s) ==
  /\ pods[s] = "pending"
  /\ registry[ImageName(s)] # Nobody
  /\ pods' = [pods EXCEPT ![s] = "running"]
  /\ build' = [build EXCEPT ![s] = registry[ImageName(s)]]
  /\ UNCHANGED <<stage, registry, roles, worker>>

\* RunTest is over.  The worker pod's name is in the playbook: where it is
\* taken, or the call is not allowed, the dispatcher just ends.
RunTest(s) ==
  /\ pods[s] = "running"
  /\ pods' = [pods EXCEPT ![s] = "over"]
  /\ \/ worker.of = Nobody /\ worker' = [of |-> s, state |-> "pending", build |-> Nobody]
     \/ UNCHANGED worker
  /\ UNCHANGED <<stage, registry, roles, build>>

\* The worker's container is started from the image of WORKER_IMAGE.
StartWorker ==
  /\ worker.state = "pending"
  /\ worker' = [worker EXCEPT !.state = "running", !.build = registry[WorkerImage(worker.of)]]
  /\ UNCHANGED <<stage, registry, roles, pods, build>>

\* Somebody cleans up after a test.
DeleteWorker ==
  /\ worker.of # Nobody
  /\ worker' = NoWorker
  /\ UNCHANGED <<stage, registry, roles, pods, build>>

Namespace ==
  \/ \E s \in Starts : StartDispatcher(s) \/ RunTest(s)
  \/ StartWorker \/ DeleteWorker
=============================================================================
