------------------------ MODULE DispatcherProperties ------------------------
(* What the dispatcher is held to.  The state machine is in Dispatcher.     *)
EXTENDS Dispatcher

(* A worker pod is never in the cluster without what its workers are told   *)
(* to use: both services exist, and every ConfigMap it mounts exists and is *)
(* one complete set made in one run (createPodForNodeSet builds the         *)
(* environment and the volumes before Pods().Create).                       *)
PodIsUsable ==
  \A p \in pods :
    /\ Services \subseteq objs
    /\ p.vols \subseteq configMaps
    /\ \E r \in 1..run : p.vols = {<<p.name, m, r>> : m \in Mounts[p.name]}

(* The name of the deployment works as the lock the code does not take: of  *)
(* all goroutines that looked and saw no deployment, one installs it.       *)
SoleInstaller ==
  \A g, h \in NodeSets :
    \/ InstallingRedis(g) /\ InstallingRedis(h)
    \/ InstallingMinio(g) /\ InstallingMinio(h)
    => g = h

(* deployRedis and deployMinio wait for a ready replica before they create  *)
(* the service, so a service never precedes a backend that worked, nor the  *)
(* Redis service its autoscaler.                                            *)
ServiceAfterBackend ==
  /\ \A d \in Deployments : ServiceOf(d) \in objs => d \in everReady
  /\ "redis-service" \in objs => "redis-hpa" \in objs

(* createPVC looks for a volume of the right size before it makes one.      *)
(* Goroutines that look at once each make theirs, but no run adds to what   *)
(* an earlier run left: the leak is bounded by the number of node sets.     *)
VolumesAreBounded ==
  IF InitialPVs > 0 THEN pvs = InitialPVs ELSE pvs <= Cardinality(NodeSets)

(* Where the code follows a pointer or an index that may lead nowhere: a    *)
(* nil node set, a nil worker, the volume just made, a node's address.      *)
Dereferences(g) ==
  \/ pc[g] = "report" /\ g \in NilSets
  \/ pc[g] = "files" /\ g \in NilWorkers
  \/ pc[g] = "pvLog" /\ InitialPVs = 0 /\ pvs > 0
  \/ pc[g] \in {"minioSvcWait", "minioEndpoint"} /\ BareNodes /\ "minio-service" \in objs

(* ErrCreatingService wraps itself (minio.go:109 and :165).                 *)
Tangled == cause["ErrCreatingService"] = "ErrCreatingService"

(* What can kill the dispatcher: a goroutine at one of four dereferences, or *)
(* the one error that wraps itself, and that takes a broken call or a       *)
(* context that is done.  Conflicts between the goroutines alone never do   *)
(* it, nor any other way their writes to the shared errors may meet: they   *)
(* end in a logged error.  (Node sets do not share workers here: what two   *)
(* goroutines make of one UID is in PodSpec.)                               *)
CrashHasCause ==
  main = "crashed" =>
    \/ \E g \in NodeSets : Dereferences(g)
    \/ Tangled /\ (faults > 0 \/ ctxDone)

(* A backend whose installer gave up between the deployment and the service *)
(* is not picked up by any other goroutine, in this run or a later one:     *)
(* isRedisDeployed and isMinioDeployed report it as deployed.               *)
Stranded(d) ==
  /\ d \in objs
  /\ ServiceOf(d) \notin objs
  /\ \A g \in NodeSets :
       IF d = "minio" THEN ~InstallingMinio(g) ELSE ~InstallingRedis(g)

StrandedStays == [][\A d \in Deployments : Stranded(d) => Stranded(d)']_vars

(* RunTest implements Deployment: a goroutine's result is settled once, and *)
(* the WaitGroup holds the announcement back until every one is.            *)
outcomeBar ==
  [n \in NodeSets |-> IF pc[n] \in {"deployed", "failed"} THEN pc[n] ELSE "pending"]

Promise == INSTANCE Deployment WITH
  phase <- IF Ended THEN main ELSE "running",
  outcome <- outcomeBar

RunTestKeepsItsPromise == Promise!ASpec

-----------------------------------------------------------------------------
(* Liveness.                                                                *)

FairSpec == Spec /\ Scheduling /\ \A d \in Deployments : ComesUp(d)

(* Every run ends: no goroutine waits for ever on a backend that comes up,  *)
(* whatever the others did to the shared services.                          *)
RunEnds == main = "setup" ~> Ended

(* The safety half of it: what a goroutine polls was created by itself or   *)
(* found, and nothing deletes it while it is waited for.                    *)
WaitedForExists ==
  \A g \in NodeSets :
    /\ pc[g] = "redisWait" => "redis-deployment" \in objs
    /\ pc[g] = "redisSvcWait" => "redis-service" \in objs
    /\ pc[g] = "minioWait" => "minio" \in objs
    /\ pc[g] = "minioSvcWait" => "minio-service" \in objs

(* Node sets that happen not to be in setupDependentServices at the same    *)
(* time are all deployed, the first with what it installed and the others   *)
(* with what they find: where nothing is nil or missing and no file or      *)
(* object is refused, a run without a broken call fails only by overlap.    *)
Serial == Cardinality({g \in NodeSets : pc[g] \in RedisSteps \cup MinioSteps}) <= 1

NothingMissing == NilSets = {} /\ NilWorkers = {} /\ ~BareNodes /\ InitialPVs > 0
Deployable == NodeSets \ (EmptySets \cup Refusable)

SerialRunsDeployAll ==
  NothingMissing /\ [](Serial /\ faults = 0)
    => <>(main = "aborted" \/ \A n \in Deployable : PodExists(n))

(* And only then does the log line of RunTest say what is so.  The safety   *)
(* half of the same claim, whose premise is about all states of a run.      *)
Untroubled == faults = 0 /\ ~ctxDone
Calm == Serial /\ Untroubled

AnnouncedMeansAllDeployed ==
  main = "announced" => \A n \in Deployable : PodExists(n)

(* With a context that can be cancelled, the waits of deployRedis and       *)
(* deployMinio end when it is, even if no backend ever comes up.            *)
SchedSpec == Spec /\ Scheduling

CancelEndsRun == ctxDone ~> Ended

(* A node set that has the services to itself, on a cluster that has the    *)
(* volume and whose backends come up, is deployed if nothing is cancelled:  *)
(* through evictions, and whatever node sets without workers are beside it. *)
LoneNodeSetIsDeployed ==
  NothingMissing /\ (\A d \in Deployments : ComesUp(d)) /\ []~ctxDone
    => <>(main = "aborted" \/ \A n \in Deployable : PodExists(n))

-----------------------------------------------------------------------------
(* What comments and checks of the code say, and the code does not do.      *)

(* "Wait for all worker nodes to be deployed" (dispatcher.go:48), before    *)
(* the log line that says they are.  The least that can mean: with no       *)
(* broken call, and the volume in place, some node set is deployed.         *)
AnnouncedMeansSomeDeployed ==
  main = "announced" => \E n \in NodeSets : pc[n] = "deployed"

(* "Create PVC with the existing or newly created PV" (minio.go:310): a run *)
(* that has created a volume goes on to create the claim.                   *)
NewVolumeGetsClaim == pvs > InitialPVs ~> "minio-data" \in objs
=============================================================================
