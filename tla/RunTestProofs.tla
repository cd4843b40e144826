---------------------------- MODULE RunTestProofs ----------------------------
(***************************************************************************)
(* What RunTest keeps: the types, the count of its WaitGroup, and what it  *)
(* promises its caller.  The counter stays in Nat only because it counts   *)
(* the goroutines that are busy, so the two are proved together.  The      *)
(* lemma Control condenses every step to what it does to the program       *)
(* counters, the WaitGroup and main; the refinement of Deployment rests on *)
(* it as well.                                                             *)
(***************************************************************************)
EXTENDS DispatcherProperties, FiniteSetTheorems, TLAPS

Final == {"deployed", "failed"}
Busy  == Steps \ ({"idle"} \cup Final)

Active == {g \in NodeSets : pc[g] \in Busy}

(* The WaitGroup counts the goroutines that were started and are not done.  *)
WaitGroupCounts == wg = Cardinality(Active)

TypeInv == TypeOK /\ WaitGroupCounts

-----------------------------------------------------------------------------
(* The frame operators of NodeSetTask keep its types.                       *)

LEMMA GotoTypes ==
  ASSUME TaskTypeOK, NEW g \in NodeSets, NEW step \in Steps, Goto(g, step)
  PROVE  TaskTypeOK'
BY DEF TaskTypeOK, Goto

LEMMA ReturnTypes ==
  ASSUME TaskTypeOK, NEW g \in NodeSets, NEW step \in Steps, NEW slot \in Slots,
         NEW e \in ErrValues, NEW causes \in [Errs -> ErrValues],
         Return(g, step, slot, e, causes)
  PROVE  TaskTypeOK'
BY DEF TaskTypeOK, Return

LEMMA WrapTypes ==
  ASSUME NEW causes \in [Errs -> ErrValues], NEW e \in Errs, NEW inner \in ErrValues
  PROVE  Wrap(causes, e, inner) \in [Errs -> ErrValues]
BY DEF Wrap

LEMMA DialTypes ==
  ASSUME TaskTypeOK, NEW service, DialFails(service)
  PROVE  TaskTypeOK'
<1>1. {"ErrTimeout", "ErrFailedConnection"} \subseteq Errs /\ "raw" \in ErrValues
  BY DEF Errs, ErrValues
<1> QED BY <1>1 DEF TaskTypeOK, DialFails, Wrap

LEMMA RedisNames ==
  /\ \A s \in {"redisCreate", "redisHPA", "redisWait", "redisSvcGet", "redisSvcCreate",
               "redisSvcWait", "redisIP", "minioCheck"} : s \in Steps
  /\ \A s \in {"redis", "redisIP"} : s \in Slots
  /\ \A e \in {"ErrGettingDeployment", "ErrCreatingDeployment", "ErrCreatingAutoScaler",
               "ErrWaitingForRedis", "ErrCreatingService", "ErrWaitingForRedisService",
               "ErrGettingService", "ErrTimeout"} : e \in Errs /\ e \in ErrValues
  /\ "raw" \in ErrValues
BY DEF Steps, RedisSteps, MinioSteps, Slots, Errs, ErrValues

LEMMA MinioNames ==
  /\ \A s \in {"pvcGet", "pvList", "pvCreate", "pvLog", "pvcCreate", "minioCreate",
               "minioWait", "minioSvcGet", "minioSvcCreate", "minioSvcWait",
               "minioEndpoint", "join"} : s \in Steps
  /\ \A s \in {"minio", "minioEp"} : s \in Slots
  /\ \A e \in {"ErrGettingDeployment", "ErrListingPersistentVolumes",
               "ErrCreatingPersistentVolume", "ErrCreatingPersistentVolumeClaim",
               "ErrCreatingDeployment", "ErrWaitingForMinio", "ErrCreatingService",
               "ErrWaitingForMinioService", "ErrTimeout", "ErrGettingMinioEndpoint",
               "ErrGettingService", "ErrGettingNodes", "ErrNoNodesFound"} :
       e \in Errs /\ e \in ErrValues
  /\ "raw" \in ErrValues
BY DEF Steps, RedisSteps, MinioSteps, Slots, Errs, ErrValues

LEMMA TestNames ==
  /\ \A s \in {"start", "redisCheck", "files", "report", "deployed", "failed"} : s \in Steps
  /\ "final" \in Slots
  /\ \A e \in {"ErrNilNodeSet", "ErrNoWorkersInNodeSet", "ErrAddingFileToPod"} :
       e \in Errs /\ e \in ErrValues
  /\ "raw" \in ErrValues
BY DEF Steps, RedisSteps, Slots, Errs, ErrValues

-----------------------------------------------------------------------------
(* The Redis half.                                                          *)

LEMMA RedisTypes ==
  ASSUME TaskTypeOK, NEW g \in NodeSets, RedisStep(g)
  PROVE  TaskTypeOK'
<1> USE RedisNames, GotoTypes, ReturnTypes, WrapTypes, DialTypes
<1>0. cause \in [Errs -> ErrValues]
  BY DEF TaskTypeOK
<1>1. CASE CheckRedis(g)
  BY <1>0, <1>1 DEF CheckRedis, RedisFails
<1>2. CASE CreateRedisDeployment(g)
  BY <1>0, <1>2 DEF CreateRedisDeployment, RedisFails
<1>3. CASE CreateRedisAutoScaler(g)
  BY <1>0, <1>3 DEF CreateRedisAutoScaler, RedisFails
<1>4. CASE WaitForRedisDeployment(g)
  BY <1>0, <1>4 DEF WaitForRedisDeployment, RedisFails
<1>5. CASE GetRedisService(g)
  BY <1>5 DEF GetRedisService
<1>6. CASE CreateRedisService(g)
  BY <1>0, <1>6 DEF CreateRedisService, RedisFails
<1>7. CASE WaitForRedisService(g)
  BY <1>0, <1>7 DEF WaitForRedisService, RedisFails
<1>8. CASE RedisIPPort(g)
  BY <1>0, <1>8 DEF RedisIPPort
<1> QED BY <1>1, <1>2, <1>3, <1>4, <1>5, <1>6, <1>7, <1>8 DEF RedisStep

-----------------------------------------------------------------------------
(* The MinIO half.                                                          *)

LEMMA EndpointErrorTypes ==
  ASSUME TaskTypeOK
  PROVE  \A r \in EndpointErrors : r[1] \in ErrValues /\ r[2] \in [Errs -> ErrValues]
<1>1. cause \in [Errs -> ErrValues]
  BY DEF TaskTypeOK
<1>2. SUFFICES ASSUME NEW r \in EndpointErrors
               PROVE  r[1] \in ErrValues /\ r[2] \in [Errs -> ErrValues]
  OBVIOUS
<1>3. CASE r = <<"ErrGettingService", Wrap(cause, "ErrGettingService", "raw")>>
  BY <1>1, <1>3, MinioNames, WrapTypes
<1>4. CASE r = <<"ErrGettingNodes", Wrap(cause, "ErrGettingNodes", "raw")>>
  BY <1>1, <1>4, MinioNames, WrapTypes
<1>5. CASE r = <<"ErrNoNodesFound", cause>>
  BY <1>1, <1>5, MinioNames
<1> QED BY <1>3, <1>4, <1>5 DEF EndpointErrors

LEMMA MinioTypes ==
  ASSUME TaskTypeOK, NEW g \in NodeSets, MinioStep(g)
  PROVE  TaskTypeOK'
<1> USE MinioNames, GotoTypes, ReturnTypes, WrapTypes
<1>0. cause \in [Errs -> ErrValues]
  BY DEF TaskTypeOK
<1>1. CASE CheckMinio(g)
  BY <1>0, <1>1 DEF CheckMinio, MinioFails
<1>2. CASE GetPVC(g)
  BY <1>2 DEF GetPVC
<1>3. CASE ListPVs(g)
  BY <1>0, <1>3 DEF ListPVs, MinioFails
<1>4. CASE CreatePV(g)
  BY <1>0, <1>4 DEF CreatePV, MinioFails
<1>5. CASE CreatePVC(g)
  BY <1>0, <1>5 DEF CreatePVC, MinioFails
<1>6. CASE CreateMinioDeployment(g)
  BY <1>0, <1>6 DEF CreateMinioDeployment, MinioFails
<1>7. CASE WaitForMinioDeployment(g)
  BY <1>0, <1>7 DEF WaitForMinioDeployment, MinioFails
<1>8. CASE GetMinioService(g)
  BY <1>8 DEF GetMinioService
<1>9. CASE CreateMinioService(g)
  BY <1>0, <1>9 DEF CreateMinioService, MinioFails
<1>10. CASE WaitForMinioService(g)
  BY <1>0, <1>10, DialTypes, EndpointErrorTypes DEF WaitForMinioService, MinioFails
<1>11. CASE GetMinioEndpoint(g)
  BY <1>0, <1>11, EndpointErrorTypes DEF GetMinioEndpoint
<1> QED
  BY <1>1, <1>2, <1>3, <1>4, <1>5, <1>6, <1>7, <1>8, <1>9, <1>10, <1>11 DEF MinioStep

-----------------------------------------------------------------------------
(* The calls to the cluster.                                                *)

LEMMA CallTypes ==
  ASSUME NEW o \in Objects, objs \subseteq Objects, faults \in 0..MaxFaults,
         \/ Found(o) \/ NotFound(o) \/ Created(o) \/ NotCreated(o)
         \/ GetBreaks
  PROVE  objs' \subseteq Objects /\ faults' \in 0..MaxFaults
<1> USE ClusterAssumption DEF ClusterAssumption, Answers, Breaks
<1>1. CASE Found(o) \/ NotFound(o) \/ Created(o)
  BY <1>1 DEF Found, NotFound, Created
<1>2. CASE NotCreated(o) \/ GetBreaks
  BY <1>2 DEF NotCreated, GetBreaks
<1> QED BY <1>1, <1>2

LEMMA ObjectNames ==
  /\ \A o \in {"redis-deployment", "redis-hpa", "redis-service", "minio", "minio-data",
               "minio-service"} : o \in Objects
BY DEF Objects, Deployments, Services

LEMMA RedisClusterTypes ==
  ASSUME ClusterTypeOK, NEW g \in NodeSets, RedisStep(g), UNCHANGED <<healthVars, ctxDone>>
  PROVE  ClusterTypeOK'
<1> USE ObjectNames, CallTypes, ClusterAssumption DEF ClusterAssumption
<1>0. objs \subseteq Objects /\ faults \in 0..MaxFaults
  BY DEF ClusterTypeOK
<1> SUFFICES objs' \subseteq Objects /\ faults' \in 0..MaxFaults
  BY DEF ClusterTypeOK, healthVars, RedisStep
<1>1. CASE CheckRedis(g)
  BY <1>0, <1>1 DEF CheckRedis
<1>2. CASE CreateRedisDeployment(g)
  BY <1>0, <1>2 DEF CreateRedisDeployment
<1>3. CASE CreateRedisAutoScaler(g)
  BY <1>0, <1>3 DEF CreateRedisAutoScaler
<1>4. CASE WaitForRedisDeployment(g)
  BY <1>0, <1>4 DEF WaitForRedisDeployment
<1>5. CASE GetRedisService(g)
  BY <1>0, <1>5 DEF GetRedisService
<1>6. CASE CreateRedisService(g)
  BY <1>0, <1>6 DEF CreateRedisService
<1>7. CASE WaitForRedisService(g)
  BY <1>0, <1>7 DEF WaitForRedisService, DialFails, Answers
<1>8. CASE RedisIPPort(g)
  BY <1>0, <1>8 DEF RedisIPPort
<1> QED BY <1>1, <1>2, <1>3, <1>4, <1>5, <1>6, <1>7, <1>8 DEF RedisStep

LEMMA MinioClusterTypes ==
  ASSUME ClusterTypeOK, NEW g \in NodeSets,
         MinioStep(g) \/ LogNewPV(g) \/ ReadNodeAddress(g),
         UNCHANGED <<healthVars, ctxDone>>
  PROVE  ClusterTypeOK'
<1> USE ObjectNames, CallTypes, ClusterAssumption DEF ClusterAssumption
<1>0. objs \subseteq Objects /\ faults \in 0..MaxFaults /\ pvs \in Nat
  BY DEF ClusterTypeOK
<1> SUFFICES objs' \subseteq Objects /\ faults' \in 0..MaxFaults /\ pvs' \in Nat
  BY DEF ClusterTypeOK, healthVars
<1>1. CASE CheckMinio(g)
  BY <1>0, <1>1 DEF CheckMinio
<1>2. CASE GetPVC(g)
  BY <1>0, <1>2 DEF GetPVC
<1>3. CASE ListPVs(g)
  BY <1>0, <1>3 DEF ListPVs, Answers, Breaks
<1>4. CASE CreatePV(g)
  BY <1>0, <1>4 DEF CreatePV, Answers, Breaks
<1>5. CASE CreatePVC(g)
  BY <1>0, <1>5 DEF CreatePVC
<1>6. CASE CreateMinioDeployment(g)
  BY <1>0, <1>6 DEF CreateMinioDeployment
<1>7. CASE WaitForMinioDeployment(g)
  BY <1>0, <1>7 DEF WaitForMinioDeployment
<1>8. CASE GetMinioService(g)
  BY <1>0, <1>8 DEF GetMinioService
<1>9. CASE CreateMinioService(g)
  BY <1>0, <1>9 DEF CreateMinioService
<1>10. CASE WaitForMinioService(g)
  BY <1>0, <1>10 DEF WaitForMinioService, EndpointFails, DialFails, Answers, Breaks
<1>11. CASE GetMinioEndpoint(g)
  BY <1>0, <1>11 DEF GetMinioEndpoint, EndpointFails, Answers, Breaks
<1>12. CASE LogNewPV(g) \/ ReadNodeAddress(g)
  BY <1>0, <1>12 DEF LogNewPV, ReadNodeAddress, Answers
<1> QED
  BY <1>1, <1>2, <1>3, <1>4, <1>5, <1>6, <1>7, <1>8, <1>9, <1>10, <1>11, <1>12 DEF MinioStep

-----------------------------------------------------------------------------
(* Where a call of either half leaves the goroutine that made it.           *)

Moves(g, S) == \E step \in S : pc' = [pc EXCEPT ![g] = step]

LEMMA RedisMoves ==
  ASSUME TaskTypeOK, NEW g \in NodeSets, RedisStep(g)
  PROVE  Running /\ pc[g] \in RedisSteps /\ Moves(g, RedisSteps \cup {"minioCheck"})
<1> USE DEF At, Goto, Return, RedisFails, Moves, RedisSteps
<1>1. CASE CheckRedis(g)
  BY <1>1 DEF CheckRedis
<1>2. CASE CreateRedisDeployment(g)
  BY <1>2 DEF CreateRedisDeployment
<1>3. CASE CreateRedisAutoScaler(g)
  BY <1>3 DEF CreateRedisAutoScaler
<1>4. CASE WaitForRedisDeployment(g)
  BY <1>4 DEF WaitForRedisDeployment
<1>5. CASE GetRedisService(g)
  BY <1>5 DEF GetRedisService
<1>6. CASE CreateRedisService(g)
  BY <1>6 DEF CreateRedisService
<1>7. CASE WaitForRedisService(g)
  <2>1. CASE DialFails("redis-service")
    BY <1>7, <2>1 DEF WaitForRedisService, DialFails, TaskTypeOK
  <2> QED BY <1>7, <2>1 DEF WaitForRedisService
<1>8. CASE RedisIPPort(g)
  BY <1>8 DEF RedisIPPort
<1> QED BY <1>1, <1>2, <1>3, <1>4, <1>5, <1>6, <1>7, <1>8 DEF RedisStep

LEMMA MinioMoves ==
  ASSUME TaskTypeOK, NEW g \in NodeSets, MinioStep(g)
  PROVE  Running /\ pc[g] \in MinioSteps /\ Moves(g, MinioSteps \cup {"join"})
<1> USE DEF At, Goto, Return, MinioFails, Moves, MinioSteps
<1>1. CASE CheckMinio(g)
  BY <1>1 DEF CheckMinio
<1>2. CASE GetPVC(g)
  BY <1>2 DEF GetPVC
<1>3. CASE ListPVs(g)
  BY <1>3 DEF ListPVs
<1>4. CASE CreatePV(g)
  BY <1>4 DEF CreatePV
<1>5. CASE CreatePVC(g)
  BY <1>5 DEF CreatePVC
<1>6. CASE CreateMinioDeployment(g)
  BY <1>6 DEF CreateMinioDeployment
<1>7. CASE WaitForMinioDeployment(g)
  BY <1>7 DEF WaitForMinioDeployment
<1>8. CASE GetMinioService(g)
  BY <1>8 DEF GetMinioService
<1>9. CASE CreateMinioService(g)
  BY <1>9 DEF CreateMinioService
<1>10. CASE WaitForMinioService(g)
  <2>1. CASE DialFails("minio-service")
    BY <1>10, <2>1 DEF WaitForMinioService, DialFails, TaskTypeOK
  <2> QED BY <1>10, <2>1 DEF WaitForMinioService
<1>11. CASE GetMinioEndpoint(g)
  BY <1>11 DEF GetMinioEndpoint
<1> QED
  BY <1>1, <1>2, <1>3, <1>4, <1>5, <1>6, <1>7, <1>8, <1>9, <1>10, <1>11 DEF MinioStep

-----------------------------------------------------------------------------
(* Every step of the dispatcher, as seen from the WaitGroup.                *)

Starts(n) ==
  /\ main = "spawn" /\ main' = main
  /\ pc[n] = "idle" /\ pc' = [pc EXCEPT ![n] = "start"]
  /\ wg' = wg + 1

Works(g) ==
  /\ Running /\ main' \in {main, "crashed"}
  /\ pc[g] \in Busy /\ Moves(g, Busy)
  /\ main' = "crashed" => pc' = pc
  /\ wg' = wg

Finishes(g) ==
  /\ Running /\ main' = main
  /\ pc[g] \in Busy /\ Moves(g, Final)
  /\ wg' = wg - 1

MainOnly ==
  /\ UNCHANGED <<pc, wg>>
  /\ \/ main' = main
     \/ main = "setup" /\ main' \in {"spawn", "aborted"}
     \/ main = "spawn" /\ main' = "wait" /\ \A n \in NodeSets : pc[n] # "idle"
     \/ main = "wait" /\ main' = "announced" /\ wg = 0

StartsOver ==
  /\ Ended /\ main' = "setup"
  /\ pc' = [n \in NodeSets |-> "idle"]
  /\ wg' = 0

LEMMA Control ==
  ASSUME TaskTypeOK, [Next]_vars
  PROVE  \/ \E g \in NodeSets : Starts(g) \/ Works(g) \/ Finishes(g)
         \/ MainOnly \/ StartsOver
<1>1. ASSUME NEW g \in NodeSets, ServiceStep(g)
      PROVE  Works(g)
  <2>1. RedisSteps \cup MinioSteps \cup {"join"} \subseteq Busy
    BY DEF Busy, Steps, RedisSteps, MinioSteps, Final
  <2>2. {"minioCheck", "pvLog", "minioSvcWait", "minioEndpoint"} \subseteq MinioSteps
    BY DEF MinioSteps
  <2>3. wg' = wg
    BY <1>1 DEF ServiceStep
  <2>4. CASE RedisStep(g) /\ UNCHANGED main
    <3>1. pc[g] \in Busy /\ Moves(g, Busy) /\ Running
      BY <2>1, <2>2, <2>4, RedisMoves DEF Moves
    <3> QED BY <2>3, <2>4, <3>1 DEF Works, Running
  <2>5. CASE MinioStep(g) /\ UNCHANGED main
    <3>1. pc[g] \in Busy /\ Moves(g, Busy) /\ Running
      BY <2>1, <2>5, MinioMoves DEF Moves
    <3> QED BY <2>3, <2>5, <3>1 DEF Works, Running
  <2>6. CASE LogNewPV(g) \/ ReadNodeAddress(g)
    <3>1. pc[g] \in Busy /\ Moves(g, Busy) /\ Running
      BY <2>1, <2>2, <2>6 DEF LogNewPV, ReadNodeAddress, At, Moves, TaskTypeOK
    <3> QED BY <2>3, <2>6, <3>1 DEF Works, LogNewPV, ReadNodeAddress
  <2> QED BY <1>1, <2>4, <2>5, <2>6 DEF ServiceStep
<1>2. ASSUME NEW g \in NodeSets, DeployNodeSet(g)
      PROVE  Works(g) \/ Finishes(g)
  <2>1. {"start", "redisCheck", "join", "files", "report"} \subseteq Busy
    BY DEF Busy, Steps, RedisSteps, Final
  <2> USE <2>1 DEF Works, Finishes, Moves, At, Goto, Return, Running, taskVars
  <2>2. CASE Start(g)
    BY <2>2 DEF Start
  <2>3. CASE JoinServices(g)
    BY <2>3 DEF JoinServices
  <2>4. CASE AddConfigMap(g)
    BY <2>4 DEF AddConfigMap, TaskTypeOK
  <2>5. CASE CreatePod(g)
    BY <2>5 DEF CreatePod, Final
  <2>6. CASE Report(g)
    BY <2>6 DEF Report, Final, TaskTypeOK
  <2>7. CASE ReadNilWorker(g)
    BY <2>7 DEF ReadNilWorker, TaskTypeOK
  <2> QED BY <1>1, <1>2, <2>2, <2>3, <2>4, <2>5, <2>6, <2>7 DEF DeployNodeSet
<1>3. CASE Setup \/ EndSpawning \/ Announce
  BY <1>3 DEF Setup, EndSpawning, Announce, MainOnly, taskVars
<1>4. ASSUME NEW n \in NodeSets, Spawn(n)
      PROVE  Starts(n)
  BY <1>4 DEF Spawn, Starts, Goto
<1>5. CASE (\E d \in Deployments : ClusterStep(d)) \/ CancelCtx
  BY <1>5 DEF ClusterStep, CancelCtx, MainOnly, taskVars
<1>6. CASE Rerun
  BY <1>6 DEF Rerun, StartsOver
<1>7. CASE UNCHANGED vars
  BY <1>7 DEF vars, MainOnly, taskVars
<1> QED
  BY <1>2, <1>3, <1>4, <1>5, <1>6, <1>7 DEF Next, RunTest, Stopped

-----------------------------------------------------------------------------
(* The WaitGroup.                                                           *)

LEMMA CountingStep ==
  ASSUME TaskTypeOK, wg \in Nat, WaitGroupCounts, [Next]_vars
  PROVE  wg' \in Nat /\ WaitGroupCounts'
<1>0. IsFiniteSet(Active) /\ Cardinality(Active) = wg
  BY NodeSetsAssumption, FS_Subset DEF Active, WaitGroupCounts
<1>1. "start" \in Busy /\ "idle" \notin Busy /\ (\A s \in Final : s \notin Busy)
  BY DEF Busy, Steps, Final
<1>2. ASSUME NEW g \in NodeSets, Starts(g)
      PROVE  wg' \in Nat /\ WaitGroupCounts'
  <2>1. Active' = Active \cup {g} /\ g \notin Active
    BY <1>1, <1>2 DEF Active, Starts, TaskTypeOK
  <2>2. Cardinality(Active') = wg + 1
    BY <1>0, <2>1, FS_AddElement
  <2> QED BY <1>2, <2>2 DEF Starts, WaitGroupCounts
<1>3. ASSUME NEW g \in NodeSets, Works(g)
      PROVE  wg' \in Nat /\ WaitGroupCounts'
  <2>1. Active' = Active
    BY <1>3 DEF Active, Works, Moves, TaskTypeOK
  <2> QED BY <1>0, <1>3, <2>1 DEF Works, WaitGroupCounts
<1>4. ASSUME NEW g \in NodeSets, Finishes(g)
      PROVE  wg' \in Nat /\ WaitGroupCounts'
  <2>1. Active' = Active \ {g} /\ g \in Active
    BY <1>1, <1>4 DEF Active, Finishes, Moves, TaskTypeOK
  <2>2. IsFiniteSet(Active') /\ Cardinality(Active') = wg - 1
    BY <1>0, <2>1, FS_RemoveElement
  <2> QED BY <1>4, <2>2, FS_CardinalityType DEF Finishes, WaitGroupCounts
<1>5. CASE MainOnly
  BY <1>0, <1>5 DEF Active, MainOnly, WaitGroupCounts
<1>6. CASE StartsOver
  <2>1. Active' = {}
    BY <1>1, <1>6 DEF Active, StartsOver
  <2> QED BY <1>6, <2>1, FS_EmptySet DEF StartsOver, WaitGroupCounts
<1> QED BY <1>2, <1>3, <1>4, <1>5, <1>6, Control

-----------------------------------------------------------------------------
LEMMA InitTypes == Init => TypeInv
<1> SUFFICES ASSUME Init PROVE TypeInv
  OBVIOUS
<1>1. ClusterTypeOK
  <2>1. ClusterInit
    BY DEF Init
  <2>2. InitialPVs \in Nat /\ 0 \in 0..MaxFaults /\ 0 \in 0..MaxEvictions
    BY ClusterAssumption DEF ClusterAssumption
  <2> QED BY <2>1, <2>2 DEF ClusterInit, ClusterTypeOK
<1>2. TaskTypeOK
  <2>1. NoErrors \in [Slots -> ErrValues] /\ "idle" \in Steps /\ "none" \in ErrValues
    BY DEF NoErrors, ErrValues, Steps
  <2>2. pc \in [NodeSets -> Steps]
    BY <2>1 DEF Init
  <2>3. errs \in [NodeSets -> [Slots -> ErrValues]]
    BY <2>1 DEF Init
  <2>4. cause \in [Errs -> ErrValues]
    BY <2>1 DEF Init
  <2> QED BY <2>2, <2>3, <2>4 DEF TaskTypeOK
<1>3. WaitGroupCounts
  <2>1. Active = {}
    BY DEF Init, Active, Busy
  <2> QED BY <2>1, FS_EmptySet DEF Init, WaitGroupCounts
<1> QED
  BY <1>1, <1>2, <1>3, PlaybookAssumption DEF Init, TypeInv, TypeOK, PlaybookAssumption

LEMMA NextTypes == TypeInv /\ [Next]_vars => TypeInv'
<1> SUFFICES ASSUME TypeInv, [Next]_vars PROVE TypeInv'
  OBVIOUS
<1>0. wg' \in Nat /\ WaitGroupCounts'
  BY CountingStep DEF TypeInv, TypeOK
<1>1. ASSUME NEW g \in NodeSets, ServiceStep(g)
      PROVE  TypeOK'
  <2>1. TaskTypeOK'
    BY <1>1, RedisTypes, MinioTypes
       DEF ServiceStep, LogNewPV, ReadNodeAddress, TypeInv, TypeOK, TaskTypeOK
  <2>2. ClusterTypeOK'
    BY <1>1, RedisClusterTypes, MinioClusterTypes DEF ServiceStep, TypeInv, TypeOK
  <2>3. main' \in {main, "crashed"}
    BY <1>1 DEF ServiceStep, LogNewPV, ReadNodeAddress
  <2> QED BY <1>0, <1>1, <2>1, <2>2, <2>3 DEF ServiceStep, TypeInv, TypeOK, podVars
<1>2. TaskTypeOK /\ cause \in [Errs -> ErrValues]
  BY DEF TypeInv, TypeOK, TaskTypeOK
<1>3. ASSUME NEW g \in NodeSets, Start(g)
      PROVE  TypeOK'
  <2>1. TaskTypeOK'
    BY <1>2, <1>3, TestNames, GotoTypes, ReturnTypes, WrapTypes DEF Start
  <2> QED
    BY <1>0, <1>3, <2>1 DEF Start, TypeInv, TypeOK, ClusterTypeOK, healthVars, podVars
<1>4. ASSUME NEW g \in NodeSets, JoinServices(g)
      PROVE  TypeOK'
  <2>1. FirstError(g) \in ErrValues
    BY DEF FirstError, TypeInv, TypeOK, TaskTypeOK, Slots
  <2>2. TaskTypeOK'
    BY <1>2, <1>4, <2>1, TestNames, GotoTypes, ReturnTypes DEF JoinServices
  <2> QED
    BY <1>0, <1>4, <2>2 DEF JoinServices, TypeInv, TypeOK, ClusterTypeOK, healthVars, podVars
<1>5. ASSUME NEW g \in NodeSets, AddConfigMap(g)
      PROVE  TypeOK'
  <2>1. TaskTypeOK'
    BY <1>2, <1>5, TestNames, ReturnTypes, WrapTypes DEF AddConfigMap, taskVars, TaskTypeOK
  <2>2. \A m \in Unmounted(g) : <<g, m, run>> \in ConfigMapNames
    BY DEF Unmounted, ConfigMapNames, TypeInv, TypeOK
  <2>3. /\ volumes' \in [NodeSets -> SUBSET ConfigMapNames]
        /\ configMaps' \subseteq ConfigMapNames
    BY <1>5, <2>2 DEF AddConfigMap, TypeInv, TypeOK
  <2>4. ClusterTypeOK'
    BY <1>5, ClusterAssumption
       DEF AddConfigMap, TypeInv, TypeOK, ClusterTypeOK, healthVars, Answers, Breaks,
           ClusterAssumption
  <2> QED BY <1>0, <1>5, <2>1, <2>3, <2>4 DEF AddConfigMap, TypeInv, TypeOK
<1>6. ASSUME NEW g \in NodeSets, CreatePod(g)
      PROVE  TypeOK'
  <2>1. TaskTypeOK'
    BY <1>2, <1>6, TestNames, GotoTypes, ReturnTypes DEF CreatePod
  <2>2. pods' \subseteq [name : NodeSets, vols : SUBSET ConfigMapNames]
    BY <1>6 DEF CreatePod, TypeInv, TypeOK
  <2>3. ClusterTypeOK'
    BY <1>6, ClusterAssumption
       DEF CreatePod, TypeInv, TypeOK, ClusterTypeOK, healthVars, Answers, Breaks,
           ClusterAssumption
  <2> QED BY <1>0, <1>6, <2>1, <2>2, <2>3 DEF CreatePod, TypeInv, TypeOK
<1>7. ASSUME NEW g \in NodeSets, Report(g)
      PROVE  TypeOK'
  <2>1. TaskTypeOK'
    BY <1>2, <1>7, TestNames, GotoTypes DEF Report, taskVars, TaskTypeOK
  <2> QED
    BY <1>0, <1>7, <2>1 DEF Report, TypeInv, TypeOK, ClusterTypeOK, healthVars, podVars
<1>8. ASSUME NEW n \in NodeSets, Spawn(n)
      PROVE  TypeOK'
  <2>1. TaskTypeOK'
    BY <1>2, <1>8, TestNames, GotoTypes DEF Spawn
  <2> QED
    BY <1>0, <1>8, <2>1 DEF Spawn, TypeInv, TypeOK, ClusterTypeOK, healthVars, podVars
<1>9. CASE Setup \/ EndSpawning \/ Announce \/ CancelCtx
  BY <1>0, <1>9
     DEF Setup, EndSpawning, Announce, CancelCtx, TypeInv, TypeOK, ClusterTypeOK,
         TaskTypeOK, healthVars, podVars, taskVars
<1>10. ASSUME NEW d \in Deployments, ClusterStep(d)
       PROVE  TypeOK'
  <2>1. ServiceOf(d) \in Services
    BY DEF Deployments, Services, ServiceOf
  <2>2. ClusterTypeOK'
    BY <1>10, <2>1, ClusterAssumption
       DEF ClusterStep, Backends, BecomeReady, BecomeReachable, Evict, TypeInv, TypeOK,
           ClusterTypeOK, ClusterAssumption
  <2> QED
    BY <1>0, <1>10, <2>2 DEF ClusterStep, TypeInv, TypeOK, TaskTypeOK, podVars, taskVars
<1>11. CASE Rerun
  <2>1. TaskTypeOK'
    <3>1. NoErrors \in [Slots -> ErrValues] /\ "idle" \in Steps /\ "none" \in ErrValues
      BY DEF NoErrors, ErrValues, Steps
    <3>2. (pc \in [NodeSets -> Steps])'
      BY <1>11, <3>1 DEF Rerun
    <3>3. (errs \in [NodeSets -> [Slots -> ErrValues]])'
      BY <1>11, <3>1 DEF Rerun
    <3>4. (cause \in [Errs -> ErrValues])'
      BY <1>11, <3>1 DEF Rerun
    <3> QED BY <3>2, <3>3, <3>4 DEF TaskTypeOK
  <2>2. run' \in 1..MaxRuns
    BY <1>11, PlaybookAssumption DEF Rerun, TypeInv, TypeOK, PlaybookAssumption
  <2> QED
    BY <1>0, <1>11, <2>1, <2>2 DEF Rerun, TypeInv, TypeOK, ClusterTypeOK, healthVars
<1>12. CASE UNCHANGED vars
  BY <1>0, <1>12
     DEF vars, TypeInv, TypeOK, ClusterTypeOK, TaskTypeOK, healthVars, podVars, taskVars
<1>13. ASSUME NEW g \in NodeSets, ReadNilWorker(g)
       PROVE  TypeOK'
  BY <1>0, <1>13
     DEF ReadNilWorker, TypeInv, TypeOK, ClusterTypeOK, TaskTypeOK, healthVars, podVars, taskVars
<1>14. ASSUME NEW g \in NodeSets, DeployNodeSet(g)
       PROVE  TypeInv'
  BY <1>0, <1>1, <1>3, <1>4, <1>5, <1>6, <1>7, <1>14, <1>13 DEF DeployNodeSet, TypeInv
<1>15. CASE RunTest
  BY <1>0, <1>8, <1>9, <1>15 DEF RunTest, TypeInv
<1> QED
  BY <1>0, <1>9, <1>10, <1>11, <1>12, <1>14, <1>15 DEF Next, Stopped, TypeInv

LEMMA TypeInvariant == Spec => []TypeInv
<1> QED BY InitTypes, NextTypes, PTL DEF Spec

(* Every state of the dispatcher is well typed; in particular the counter   *)
(* of the WaitGroup never becomes negative, which would make Go panic.      *)
THEOREM TypeCorrect == Spec => []TypeOK
<1>1. TypeInv => TypeOK
  BY DEF TypeInv
<1> QED BY <1>1, TypeInvariant, PTL

-----------------------------------------------------------------------------
(* The refinement of Deployment.                                            *)

(* Before the loop of go statements no goroutine runs; after it, all do;    *)
(* and once the WaitGroup is at zero all have finished.                     *)
SpawnedInv ==
  /\ main \in {"setup", "aborted"} => \A n \in NodeSets : pc[n] = "idle"
  /\ main = "wait" => \A n \in NodeSets : pc[n] # "idle"
  /\ main = "announced" => \A n \in NodeSets : pc[n] \in Final

LEMMA SettledAtZero ==
  ASSUME TypeInv, SpawnedInv, main = "wait", wg = 0
  PROVE  \A n \in NodeSets : pc[n] \in Final
<1>1. Active = {}
  BY NodeSetsAssumption, FS_Subset, FS_EmptySet DEF Active, TypeInv, WaitGroupCounts
<1> QED BY <1>1 DEF SpawnedInv, Active, Busy, TypeInv, TypeOK, TaskTypeOK

LEMMA SpawnedStep ==
  ASSUME TypeInv, SpawnedInv, [Next]_vars
  PROVE  SpawnedInv'
<1> USE DEF SpawnedInv, TypeInv, TypeOK, TaskTypeOK
<1>1. "idle" \notin Busy \cup Final
  BY DEF Busy, Final
<1>2. ASSUME NEW g \in NodeSets, Starts(g) \/ Works(g) \/ Finishes(g)
      PROVE  SpawnedInv'
  BY <1>1, <1>2 DEF Starts, Works, Finishes, Moves, Running
<1>3. CASE MainOnly \/ StartsOver
  BY <1>3, SettledAtZero DEF MainOnly, StartsOver
<1> QED BY <1>2, <1>3, Control

LEMMA Refines ==
  ASSUME TypeInv, SpawnedInv, [Next]_vars
  PROVE  [Promise!ANext]_(Promise!avars)
<1> USE DEF TypeInv, TypeOK, TaskTypeOK, Promise!avars, outcomeBar
<1>1. "idle" \notin Final /\ "start" \notin Final /\ Busy \cap Final = {}
  BY DEF Busy, Final
<1>2. ASSUME NEW g \in NodeSets, Starts(g)
      PROVE  UNCHANGED Promise!avars
  BY <1>1, <1>2 DEF Starts, Ended, Final
<1>3. ASSUME NEW g \in NodeSets, Works(g)
      PROVE  Promise!End \/ UNCHANGED Promise!avars
  <2>1. outcomeBar' = outcomeBar
    BY <1>1, <1>3 DEF Works, Moves, Final
  <2> QED BY <1>3, <2>1 DEF Works, Running, Ended, Promise!End
<1>4. ASSUME NEW g \in NodeSets, Finishes(g)
      PROVE  Promise!Settle(g)
  <2>1. PICK o \in Final : pc' = [pc EXCEPT ![g] = o]
    BY <1>4 DEF Finishes, Moves
  <2>2. outcomeBar' = [outcomeBar EXCEPT ![g] = o]
    BY <1>1, <2>1 DEF Final
  <2>3. outcomeBar[g] = "pending"
    BY <1>1, <1>4 DEF Finishes, Final
  <2> QED BY <1>4, <2>2, <2>3 DEF Finishes, Running, Ended, Promise!Settle, Final
<1>5. CASE MainOnly
  <2>1. outcomeBar' = outcomeBar
    BY <1>5 DEF MainOnly
  <2>2. CASE main = "setup" /\ main' = "aborted"
    <3>1. outcomeBar = Promise!Pending
      BY <2>2 DEF SpawnedInv, Promise!Pending
    <3> QED BY <2>1, <2>2, <3>1 DEF Ended, Promise!End, Promise!ANext
  <2>3. CASE main = "wait" /\ main' = "announced" /\ wg = 0
    <3>1. \A n \in NodeSets : pc[n] \in Final
      BY <2>3, SettledAtZero
    <3>2. \A n \in NodeSets : outcomeBar[n] # "pending"
      BY <3>1 DEF Final
    <3> QED BY <2>1, <2>3, <3>2 DEF Ended, Promise!End, Promise!ANext
  <2> QED BY <1>5, <2>1, <2>2, <2>3 DEF MainOnly, Ended
<1>6. CASE StartsOver
  <2>1. outcomeBar' = Promise!Pending
    BY <1>6 DEF StartsOver, Promise!Pending
  <2> QED BY <1>6, <2>1 DEF StartsOver, Ended, Promise!Again, Promise!ANext
<1> QED BY <1>2, <1>3, <1>4, <1>5, <1>6, Control DEF Promise!ANext

LEMMA SpawnedInvariant == Spec => []SpawnedInv
<1>1. Init => SpawnedInv
  BY DEF Init, SpawnedInv
<1>2. TypeInv /\ SpawnedInv /\ [Next]_vars => SpawnedInv'
  BY SpawnedStep
<1> QED BY <1>1, <1>2, TypeInvariant, PTL DEF Spec

(* What RunTest promises its caller: each node set is settled at most once  *)
(* per run, and the announcement waits for all of them (wg.Wait in          *)
(* dispatcher.go), whatever the goroutines do to each other.                *)
THEOREM ImplementsDeployment == Spec => RunTestKeepsItsPromise
<1>1. Init => Promise!AInit
  BY DEF Init, Promise!AInit, Promise!Pending, outcomeBar, Ended
<1>2. TypeInv /\ SpawnedInv /\ [Next]_vars => [Promise!ANext]_(Promise!avars)
  BY Refines
<1> QED
  BY <1>1, <1>2, TypeInvariant, SpawnedInvariant, PTL
     DEF Spec, RunTestKeepsItsPromise, Promise!ASpec
=============================================================================
