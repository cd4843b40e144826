---------------------------- MODULE NodeSetTask ----------------------------
(***************************************************************************)
(* What one DeployNodeSet goroutine keeps, and how it moves and fails:     *)
(* the frame shared by RedisSetup, MinioSetup and Dispatcher.              *)
(*                                                                         *)
(* The errors of pkg/dispatcher/errors.go are package variables.  Wrap     *)
(* stores the cause IN that variable and returns the variable itself, so   *)
(* every goroutine shares one cause per error: "cause" is that storage and *)
(* an error value is only the name of a variable.                          *)
(***************************************************************************)
EXTENDS Cluster

CONSTANTS NodeSets   \* the playbook's node sets, one goroutine each

ASSUME NodeSetsAssumption == IsFiniteSet(NodeSets)

VARIABLES
  main,   \* where RunTest is; "crashed" once a goroutine has panicked
  pc,     \* pc[g]: the next call of goroutine g
  errs,   \* errs[g]: the error variables of g's stack frames
  cause   \* cause[e]: the Err field of the package variable e

RedisSteps ==
  {"redisCheck", "redisCreate", "redisHPA", "redisWait", "redisSvcGet",
   "redisSvcCreate", "redisSvcWait", "redisIP"}

MinioSteps ==
  {"minioCheck", "pvcGet", "pvList", "pvCreate", "pvLog", "pvcCreate",
   "minioCreate", "minioWait", "minioSvcGet", "minioSvcCreate",
   "minioSvcWait", "minioEndpoint"}

Steps ==
  {"idle", "start", "join", "files", "report", "deployed", "failed"}
    \cup RedisSteps \cup MinioSteps

\* setupDependentServices keeps redisErr, redisIpErr, minioErr and minioEpErr;
\* "final" is what createPodForNodeSet or the pod's Create hands to the log.
Slots == {"redis", "redisIP", "minio", "minioEp", "final"}

Errs ==
  {"ErrNilNodeSet", "ErrNoWorkersInNodeSet", "ErrAddingFileToPod",
   "ErrGettingDeployment", "ErrCreatingDeployment", "ErrCreatingAutoScaler",
   "ErrWaitingForRedis", "ErrWaitingForMinio", "ErrCreatingService",
   "ErrGettingService", "ErrWaitingForRedisService",
   "ErrWaitingForMinioService", "ErrTimeout", "ErrFailedConnection",
   "ErrGettingNodes", "ErrNoNodesFound", "ErrGettingMinioEndpoint",
   "ErrListingPersistentVolumes", "ErrCreatingPersistentVolume",
   "ErrCreatingPersistentVolumeClaim"}

\* "raw" stands for any error that is not one of the package's variables.
ErrValues == Errs \cup {"none", "raw"}

NoErrors == [s \in Slots |-> "none"]

TaskTypeOK ==
  /\ pc \in [NodeSets -> Steps]
  /\ errs \in [NodeSets -> [Slots -> ErrValues]]
  /\ cause \in [Errs -> ErrValues]

-----------------------------------------------------------------------------
\* e.Wrap(inner): overwrite the shared Err field of e.
Wrap(c, e, inner) == [c EXCEPT ![e] = inner]

\* Error() follows the causes; it returns only when the chain ends, and
\* recurses for ever when a variable has come to wrap itself.
CauseOf == [e \in ErrValues |-> IF e \in Errs THEN cause[e] ELSE e]

Prints(e) ==
  LET chain[i \in 0..Cardinality(Errs)] ==
        IF i = 0 THEN e ELSE CauseOf[chain[i - 1]]
  IN  chain[Cardinality(Errs)] \notin Errs

\* A goroutine runs from the go statement until the process ends.
Running == main \in {"spawn", "wait"}

At(g, step) == Running /\ pc[g] = step

Goto(g, step) ==
  /\ pc' = [pc EXCEPT ![g] = step]
  /\ UNCHANGED <<errs, cause>>

\* Return an error: keep it in the slot, with the causes as they were wrapped.
Return(g, step, slot, e, causes) ==
  /\ pc' = [pc EXCEPT ![g] = step]
  /\ errs' = [errs EXCEPT ![g][slot] = e]
  /\ cause' = causes

\* A poll that finds the service but cannot connect to it tries again later.
\* checkServiceConnectivity has wrapped the dial error by then.
DialFails(service) ==
  /\ Answers
  /\ service \in objs \ reachable
  /\ \E e \in {"ErrTimeout", "ErrFailedConnection"} : cause' = Wrap(cause, e, "raw")
  /\ UNCHANGED <<objs, pc, errs>>
=============================================================================
