----------------------------- MODULE Dispatcher -----------------------------
(***************************************************************************)
(* RunTest and the DeployNodeSet goroutines it starts (dispatcher.go and   *)
(* node_set.go in pkg/dispatcher), over the Redis and MinIO halves of      *)
(* setupDependentServices.  All goroutines share the cluster and the       *)
(* package's error variables, with no lock between them.                   *)
(*                                                                         *)
(* The dispatcher pod is never restarted by Kubernetes                     *)
(* (RestartPolicyNever); a person may run the test again in the same       *)
(* namespace, where everything the last run created is still there.        *)
(***************************************************************************)
EXTENDS RedisSetup, MinioSetup

CONSTANTS
  NilSets,    \* nil pointers in what Playbook.NodeSets() returns
  EmptySets,  \* node sets without workers
  NilWorkers, \* node sets with a nil pointer among their workers
  Refusable,  \* node sets with a file that may not open, or a ConfigMap or a
              \* pod that the API server may refuse for what is in it
  Mounts,     \* Mounts[n]: the worker/directory pairs that need a ConfigMap, of
              \* the workers before the nil one
  MaxRuns     \* bound: times the test is started

ASSUME PlaybookAssumption ==
  /\ NilSets \subseteq NodeSets
  /\ EmptySets \subseteq NodeSets
  /\ NilWorkers \subseteq NodeSets
  /\ Refusable \subseteq NodeSets
  /\ DOMAIN Mounts = NodeSets
  /\ MaxRuns \in Nat \ {0}

VARIABLES
  wg,          \* the counter of RunTest's WaitGroup
  run,         \* which run this is
  volumes,     \* volumes[g]: the volumes of the pod g is building
  configMaps,  \* ConfigMaps that exist, <<node set, mount, run>>
  pods         \* worker pods that exist, [name, vols]

podVars  == <<volumes, configMaps, pods>>
taskVars == <<pc, errs, cause>>
vars == <<objs, pvs, healthVars, faults, ctxDone, main, taskVars, wg, run, podVars>>

Ended == main \in {"announced", "aborted", "crashed"}

ConfigMapNames == UNION {{n} \X Mounts[n] \X (1..MaxRuns) : n \in NodeSets}

TypeOK ==
  /\ ClusterTypeOK
  /\ TaskTypeOK
  /\ main \in {"setup", "spawn", "wait", "announced", "aborted", "crashed"}
  /\ wg \in Nat
  /\ run \in 1..MaxRuns
  /\ volumes \in [NodeSets -> SUBSET ConfigMapNames]
  /\ configMaps \subseteq ConfigMapNames
  /\ pods \subseteq [name : NodeSets, vols : SUBSET ConfigMapNames]

Init ==
  /\ ClusterInit
  /\ main = "setup"
  /\ pc = [g \in NodeSets |-> "idle"]
  /\ errs = [g \in NodeSets |-> NoErrors]
  /\ cause = [e \in Errs |-> "none"]
  /\ wg = 0
  /\ run = 1
  /\ volumes = [g \in NodeSets |-> {}]
  /\ configMaps = {}
  /\ pods = {}

-----------------------------------------------------------------------------
(* RunTest.                                                                *)

\* Playbook.Setup() is the user's code: it succeeds or ends the run.
Setup ==
  /\ main = "setup"
  /\ main' \in {"spawn", "aborted"}
  /\ UNCHANGED <<objs, pvs, healthVars, faults, ctxDone, taskVars, wg, run, podVars>>

\* Mutant: the Add is missing, or left to the goroutine.
SpawnWithoutAdd(n) ==
  /\ main = "spawn" /\ pc[n] = "idle" /\ Goto(n, "start")
  /\ UNCHANGED <<objs, pvs, healthVars, faults, ctxDone, main, wg, run, podVars>>

\* One turn of the loop: wg.Add(1) and the go statement.
Spawn(n) ==
  /\ main = "spawn"
  /\ pc[n] = "idle"
  /\ wg' = wg + 1
  /\ Goto(n, "start")
  /\ UNCHANGED <<objs, pvs, healthVars, faults, ctxDone, main, run, podVars>>

EndSpawning ==
  /\ main = "spawn"
  /\ \A n \in NodeSets : pc[n] # "idle"
  /\ main' = "wait"
  /\ UNCHANGED <<objs, pvs, healthVars, faults, ctxDone, taskVars, wg, run, podVars>>

\* wg.Wait() returns and "All worker nodes deployed" is logged.
Announce ==
  /\ main = "wait"
  /\ wg = 0
  /\ main' = "announced"
  /\ UNCHANGED <<objs, pvs, healthVars, faults, ctxDone, taskVars, wg, run, podVars>>

-----------------------------------------------------------------------------
(* DeployNodeSet.                                                          *)

\* The checks at the head of createPodForNodeSet.
Start(g) ==
  /\ At(g, "start")
  /\ \/ /\ g \in NilSets
        /\ Return(g, "report", "final", "ErrNilNodeSet", cause)
     \/ /\ g \in EmptySets \ NilSets
        /\ Return(g, "report", "final", "ErrNoWorkersInNodeSet",
                  Wrap(cause, "ErrNoWorkersInNodeSet", "raw"))
     \/ g \notin NilSets \cup EmptySets /\ Goto(g, "redisCheck")
  /\ UNCHANGED <<objs, pvs, healthVars, faults, ctxDone, main, wg, run, podVars>>

\* Mutant: the Redis errors are left out of the loop.
FirstMinioError(g) ==
  IF errs[g]["minio"] # "none" THEN errs[g]["minio"] ELSE errs[g]["minioEp"]

\* The first error in the order of setupDependentServices' loop.
FirstError(g) ==
  LET e == errs[g] IN
  IF e["redis"] # "none" THEN e["redis"]
  ELSE IF e["minio"] # "none" THEN e["minio"]
  ELSE IF e["minioEp"] # "none" THEN e["minioEp"]
  ELSE e["redisIP"]

JoinServices(g) ==
  /\ At(g, "join")
  /\ IF FirstError(g) = "none"
     THEN Goto(g, "files")
     ELSE Return(g, "report", "final", FirstError(g), cause)
  /\ UNCHANGED <<objs, pvs, healthVars, faults, ctxDone, main, wg, run, podVars>>

Unmounted(g) == {m \in Mounts[g] : <<g, m, run>> \notin volumes[g]}

\* AddFilesToPod: a ConfigMap of a fresh name per mount directory, unless a
\* file does not open or the server refuses the ConfigMap.  Nothing is removed
\* when a later one fails.
AddConfigMap(g) ==
  /\ At(g, "files")
  /\ \E m \in Unmounted(g) :
       LET cm == <<g, m, run>> IN
       \/ /\ Answers
          /\ configMaps' = configMaps \cup {cm}
          /\ volumes' = [volumes EXCEPT ![g] = @ \cup {cm}]
          /\ UNCHANGED taskVars
       \/ /\ \/ Breaks /\ configMaps' \in {configMaps, configMaps \cup {cm}}
             \/ g \in Refusable /\ UNCHANGED <<configMaps, faults>>
          /\ Return(g, "report", "final", "ErrAddingFileToPod",
                    Wrap(cause, "ErrAddingFileToPod", "raw"))
          /\ UNCHANGED volumes
  /\ UNCHANGED <<objs, pvs, healthVars, ctxDone, main, wg, run, pods>>

\* The loop comes to the nil worker and reads its UID.
ReadNilWorker(g) ==
  /\ At(g, "files")
  /\ Unmounted(g) = {}
  /\ g \in NilWorkers
  /\ main' = "crashed"
  /\ UNCHANGED <<objs, pvs, healthVars, faults, ctxDone, taskVars, wg, run, podVars>>

PodExists(n) == \E p \in pods : p.name = n

\* Pods().Create and, on success, the deferred wg.Done().  The server refuses
\* a name that is taken, and a pod it does not accept.
CreatePod(g) ==
  LET pod == [name |-> g, vols |-> volumes[g]] IN
  /\ At(g, "files")
  /\ Unmounted(g) = {}
  /\ g \notin NilWorkers
  /\ \/ /\ Answers
        /\ ~PodExists(g)
        /\ pods' = pods \cup {pod}
        /\ Goto(g, "deployed")
        /\ wg' = wg - 1
     \/ /\ \/ Answers /\ (PodExists(g) \/ g \in Refusable) /\ UNCHANGED pods
           \/ Breaks /\ pods' \in {pods, IF PodExists(g) THEN pods ELSE pods \cup {pod}}
        /\ Return(g, "report", "final", "raw", cause)
        /\ UNCHANGED wg
  /\ UNCHANGED <<objs, pvs, healthVars, ctxDone, main, run, volumes, configMaps>>

\* Mutant: the early return skips wg.Done().
ReportWithoutDone(g) ==
  /\ At(g, "report") /\ Goto(g, "failed")
  /\ UNCHANGED <<objs, pvs, healthVars, faults, ctxDone, main, wg, run, podVars>>

\* The error is logged with ns.UID, and the goroutine returns.  A nil node
\* set has no UID to read, and an error that wraps itself is formatted until
\* the stack overflows: both end the process.
Report(g) ==
  /\ At(g, "report")
  /\ IF g \notin NilSets /\ Prints(errs[g]["final"])
     THEN /\ Goto(g, "failed")
          /\ wg' = wg - 1
          /\ UNCHANGED main
     ELSE main' = "crashed" /\ UNCHANGED <<taskVars, wg>>
  /\ UNCHANGED <<objs, pvs, healthVars, faults, ctxDone, run, podVars>>

ServiceStep(g) ==
  /\ \/ (RedisStep(g) \/ MinioStep(g)) /\ UNCHANGED main
     \/ LogNewPV(g) \/ ReadNodeAddress(g)
  /\ UNCHANGED <<healthVars, ctxDone, wg, run, podVars>>

DeployNodeSet(g) ==
  \/ Start(g) \/ ServiceStep(g) \/ JoinServices(g)
  \/ AddConfigMap(g) \/ ReadNilWorker(g) \/ CreatePod(g) \/ Report(g)

-----------------------------------------------------------------------------
(* The environment.                                                        *)

ClusterStep(d) ==
  /\ Backends(d)
  /\ UNCHANGED <<objs, pvs, faults, ctxDone, main, taskVars, wg, run, podVars>>

CancelCtx ==
  /\ CtxCancellable /\ Running /\ ~ctxDone
  /\ ctxDone' = TRUE
  /\ UNCHANGED <<objs, pvs, healthVars, faults, main, taskVars, wg, run, podVars>>

\* The test is started again: a new process over what is left in the cluster.
Rerun ==
  /\ Ended /\ run < MaxRuns
  /\ run' = run + 1
  /\ main' = "setup"
  /\ pc' = [g \in NodeSets |-> "idle"]
  /\ errs' = [g \in NodeSets |-> NoErrors]
  /\ cause' = [e \in Errs |-> "none"]
  /\ wg' = 0
  /\ ctxDone' = FALSE
  /\ volumes' = [g \in NodeSets |-> {}]
  /\ UNCHANGED <<objs, pvs, healthVars, faults, configMaps, pods>>

\* The last run is over and the process is gone.
Stopped == Ended /\ run = MaxRuns /\ UNCHANGED vars

RunTest == Setup \/ (\E n \in NodeSets : Spawn(n)) \/ EndSpawning \/ Announce

Next ==
  \/ RunTest
  \/ \E g \in NodeSets : DeployNodeSet(g)
  \/ \E d \in Deployments : ClusterStep(d)
  \/ CancelCtx
  \/ Rerun
  \/ Stopped

Spec == Init /\ [][Next]_vars

\* The Go scheduler runs every runnable goroutine.
Scheduling == WF_vars(RunTest) /\ \A g \in NodeSets : WF_vars(DeployNodeSet(g))

\* A deployed backend comes up and its service gets its endpoints.
ComesUp(d) ==
  WF_vars((BecomeReady(d) \/ BecomeReachable(d)) /\ ClusterStep(d))
=============================================================================
