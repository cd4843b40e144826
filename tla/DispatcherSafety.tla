-------------------------- MODULE DispatcherSafety --------------------------
(***************************************************************************)
(* The safety of the goroutines on what they share: the installation of    *)
(* the two backends, and the worker pods built on top of them.  One        *)
(* inductive invariant per backend and one for the pods; RedisStep and     *)
(* MinioStep each disturb only their own, and every other step disturbs    *)
(* neither (Aside).                                                        *)
(***************************************************************************)
EXTENDS RunTestProofs

(* InstallingRedis holds only for the goroutine that created the Redis      *)
(* deployment, and each of its later calls finds what the earlier ones did. *)
RedisInv ==
  /\ \A g \in NodeSets :
       /\ InstallingRedis(g) => "redis-deployment" \in objs
       /\ pc[g] \in {"redisWait", "redisSvcGet", "redisSvcCreate"} => "redis-hpa" \in objs
       /\ pc[g] \in {"redisSvcGet", "redisSvcCreate"} => "redis-deployment" \in everReady
       /\ pc[g] = "redisSvcWait" => "redis-service" \in objs
  /\ \A g, h \in NodeSets : InstallingRedis(g) /\ InstallingRedis(h) => g = h
  /\ "redis-service" \in objs => "redis-deployment" \in everReady /\ "redis-hpa" \in objs

(* The same of MinIO, which has no autoscaler.                              *)
MinioInv ==
  /\ \A g \in NodeSets :
       /\ InstallingMinio(g) => "minio" \in objs
       /\ pc[g] \in {"minioSvcGet", "minioSvcCreate"} => "minio" \in everReady
       /\ pc[g] = "minioSvcWait" => "minio-service" \in objs
  /\ \A g, h \in NodeSets : InstallingMinio(g) /\ InstallingMinio(h) => g = h
  /\ "minio-service" \in objs => "minio" \in everReady

HealthInv == ready \subseteq everReady

InstallInv == HealthInv /\ RedisInv /\ MinioInv

(* A goroutine that gets past setupDependentServices without an error has   *)
(* seen both services, and no service is ever deleted.                      *)
SeenInv ==
  \A g \in NodeSets :
    /\ pc[g] \in MinioSteps \cup {"join"} =>
         errs[g]["redis"] # "none" \/ errs[g]["redisIP"] # "none" \/ "redis-service" \in objs
    /\ pc[g] = "join" =>
         errs[g]["minio"] # "none" \/ errs[g]["minioEp"] # "none" \/ "minio-service" \in objs
    /\ pc[g] = "files" => Services \subseteq objs

(* The volumes of the pod a goroutine builds are ConfigMaps it created in   *)
(* this run.                                                                *)
MountedInv ==
  \A g \in NodeSets : volumes[g] \subseteq configMaps \cap {<<g, m, run>> : m \in Mounts[g]}

PodInv == SeenInv /\ MountedInv /\ PodIsUsable

-----------------------------------------------------------------------------
(* What each half leaves alone.                                             *)

RedisObjs == {"redis-deployment", "redis-hpa", "redis-service"}
MinioObjs == {"minio", "minio-data", "minio-service"}

LEMMA RedisObjects ==
  ASSUME NEW g \in NodeSets, RedisStep(g)
  PROVE  objs \subseteq objs' /\ objs' \subseteq objs \cup RedisObjs
<1> USE DEF RedisObjs, Found, NotFound, GetBreaks, Created, NotCreated
<1>1. CASE CheckRedis(g)
  BY <1>1 DEF CheckRedis
<1>2. CASE CreateRedisDeployment(g)
  BY <1>2 DEF CreateRedisDeployment
<1>3. CASE CreateRedisAutoScaler(g)
  BY <1>3 DEF CreateRedisAutoScaler
<1>4. CASE WaitForRedisDeployment(g)
  BY <1>4 DEF WaitForRedisDeployment
<1>5. CASE GetRedisService(g)
  BY <1>5 DEF GetRedisService
<1>6. CASE CreateRedisService(g)
  BY <1>6 DEF CreateRedisService
<1>7. CASE WaitForRedisService(g)
  BY <1>7 DEF WaitForRedisService, DialFails
<1>8. CASE RedisIPPort(g)
  BY <1>8 DEF RedisIPPort
<1> QED BY <1>1, <1>2, <1>3, <1>4, <1>5, <1>6, <1>7, <1>8 DEF RedisStep

LEMMA MinioObjects ==
  ASSUME NEW g \in NodeSets, MinioStep(g)
  PROVE  objs \subseteq objs' /\ objs' \subseteq objs \cup MinioObjs
<1> USE DEF MinioObjs, Found, NotFound, GetBreaks, Created, NotCreated
<1>1. CASE CheckMinio(g)
  BY <1>1 DEF CheckMinio
<1>2. CASE GetPVC(g)
  BY <1>2 DEF GetPVC
<1>3. CASE ListPVs(g) \/ CreatePV(g)
  BY <1>3 DEF ListPVs, CreatePV
<1>4. CASE CreatePVC(g)
  BY <1>4 DEF CreatePVC
<1>5. CASE CreateMinioDeployment(g)
  BY <1>5 DEF CreateMinioDeployment
<1>6. CASE WaitForMinioDeployment(g)
  BY <1>6 DEF WaitForMinioDeployment
<1>7. CASE GetMinioService(g)
  BY <1>7 DEF GetMinioService
<1>8. CASE CreateMinioService(g)
  BY <1>8 DEF CreateMinioService
<1>9. CASE WaitForMinioService(g)
  BY <1>9 DEF WaitForMinioService, DialFails
<1>10. CASE GetMinioEndpoint(g)
  BY <1>10 DEF GetMinioEndpoint
<1> QED
  BY <1>1, <1>2, <1>3, <1>4, <1>5, <1>6, <1>7, <1>8, <1>9, <1>10 DEF MinioStep

(* Every other step leaves the objects, and takes no goroutine into the     *)
(* middle of an installation.                                               *)
AsideSteps ==
  {"idle", "start", "redisCheck", "files", "report", "deployed", "failed"}

LEMMA Aside ==
  ASSUME TaskTypeOK, [Next]_vars, \A g \in NodeSets : ~ServiceStep(g)
  PROVE  /\ objs' = objs /\ pvs' = pvs
         /\ everReady \subseteq everReady'
         /\ \A n \in NodeSets : pc'[n] = pc[n] \/ pc'[n] \in AsideSteps
<1> USE DEF AsideSteps, TaskTypeOK, At, Goto, Return, taskVars, healthVars
<1>1. ASSUME NEW g \in NodeSets, DeployNodeSet(g)
      PROVE  /\ UNCHANGED <<objs, pvs, everReady>>
             /\ \A n \in NodeSets : pc'[n] = pc[n] \/ pc'[n] \in AsideSteps
  <2>1. CASE Start(g)
    BY <2>1 DEF Start
  <2>2. CASE JoinServices(g)
    BY <2>2 DEF JoinServices
  <2>3. CASE AddConfigMap(g)
    BY <2>3 DEF AddConfigMap
  <2>4. CASE CreatePod(g)
    BY <2>4 DEF CreatePod
  <2>5. CASE Report(g)
    BY <2>5 DEF Report
  <2>6. CASE ReadNilWorker(g)
    BY <2>6 DEF ReadNilWorker
  <2> QED BY <1>1, <2>1, <2>2, <2>3, <2>4, <2>5, <2>6 DEF DeployNodeSet
<1>2. CASE RunTest
  BY <1>2 DEF RunTest, Setup, Spawn, EndSpawning, Announce
<1>3. ASSUME NEW d \in Deployments, ClusterStep(d)
      PROVE  UNCHANGED <<objs, pvs, pc>> /\ everReady \subseteq everReady'
  BY <1>3 DEF ClusterStep, Backends, BecomeReady, BecomeReachable, Evict
<1>4. CASE CancelCtx \/ Rerun
  BY <1>4 DEF CancelCtx, Rerun
<1>5. CASE UNCHANGED vars
  BY <1>5 DEF vars
<1> QED BY <1>1, <1>2, <1>3, <1>4, <1>5 DEF Next, Stopped

-----------------------------------------------------------------------------
(* The installation of Redis.                                               *)

InstallRedisSteps ==
  {"redisHPA", "redisWait", "redisSvcGet", "redisSvcCreate", "redisSvcWait"}

LEMMA RedisInvFrame ==
  ASSUME RedisInv, objs \subseteq objs', "redis-service" \in objs' => "redis-service" \in objs,
         everReady \subseteq everReady',
         \A n \in NodeSets : pc'[n] = pc[n] \/ pc'[n] \notin InstallRedisSteps
  PROVE  RedisInv'
BY DEF RedisInv, InstallingRedis, InstallRedisSteps

LEMMA RedisInvStep ==
  ASSUME TaskTypeOK, HealthInv, RedisInv, NEW g \in NodeSets, RedisStep(g),
         UNCHANGED everReady
  PROVE  RedisInv'
<1> USE DEF RedisInv, InstallingRedis, TaskTypeOK, At, Goto, Return, RedisFails
<1>1. CASE CheckRedis(g)
  BY <1>1 DEF CheckRedis, Found, NotFound, GetBreaks
<1>2. CASE CreateRedisDeployment(g)
  BY <1>2 DEF CreateRedisDeployment, Created, NotCreated
<1>3. CASE CreateRedisAutoScaler(g)
  BY <1>3 DEF CreateRedisAutoScaler, Created, NotCreated
<1>4. CASE WaitForRedisDeployment(g)
  BY <1>4 DEF WaitForRedisDeployment, HealthInv
<1>5. CASE GetRedisService(g)
  BY <1>5 DEF GetRedisService, Found, NotFound, GetBreaks
<1>6. CASE CreateRedisService(g)
  BY <1>6 DEF CreateRedisService, Created, NotCreated
<1>7. CASE WaitForRedisService(g)
  BY <1>7 DEF WaitForRedisService, DialFails, GetBreaks
<1>8. CASE RedisIPPort(g)
  BY <1>8 DEF RedisIPPort, Found, NotFound, GetBreaks
<1> QED BY <1>1, <1>2, <1>3, <1>4, <1>5, <1>6, <1>7, <1>8 DEF RedisStep

-----------------------------------------------------------------------------
(* The installation of MinIO.                                               *)

InstallMinioSteps == {"minioWait", "minioSvcGet", "minioSvcCreate", "minioSvcWait"}

LEMMA MinioInvFrame ==
  ASSUME MinioInv, objs \subseteq objs', "minio-service" \in objs' => "minio-service" \in objs,
         everReady \subseteq everReady',
         \A n \in NodeSets : pc'[n] = pc[n] \/ pc'[n] \notin InstallMinioSteps
  PROVE  MinioInv'
BY DEF MinioInv, InstallingMinio, InstallMinioSteps

LEMMA MinioInvStep ==
  ASSUME TaskTypeOK, HealthInv, MinioInv, NEW g \in NodeSets, MinioStep(g),
         UNCHANGED everReady
  PROVE  MinioInv'
<1> USE DEF MinioInv, InstallingMinio, TaskTypeOK, At, Goto, Return, MinioFails
<1>1. CASE CheckMinio(g)
  BY <1>1 DEF CheckMinio, Found, NotFound, GetBreaks
<1>2. CASE GetPVC(g)
  BY <1>2 DEF GetPVC, Found, NotFound, GetBreaks
<1>3. CASE ListPVs(g) \/ CreatePV(g)
  BY <1>3 DEF ListPVs, CreatePV
<1>4. CASE CreatePVC(g)
  BY <1>4 DEF CreatePVC, Created, NotCreated
<1>5. CASE CreateMinioDeployment(g)
  BY <1>5 DEF CreateMinioDeployment, Created, NotCreated
<1>6. CASE WaitForMinioDeployment(g)
  BY <1>6 DEF WaitForMinioDeployment, HealthInv
<1>7. CASE GetMinioService(g)
  BY <1>7 DEF GetMinioService, Found, NotFound, GetBreaks
<1>8. CASE CreateMinioService(g)
  BY <1>8 DEF CreateMinioService, Created, NotCreated
<1>9. CASE WaitForMinioService(g)
  BY <1>9 DEF WaitForMinioService, DialFails
<1>10. CASE GetMinioEndpoint(g)
  BY <1>10 DEF GetMinioEndpoint, Found, NotFound, GetBreaks
<1> QED
  BY <1>1, <1>2, <1>3, <1>4, <1>5, <1>6, <1>7, <1>8, <1>9, <1>10 DEF MinioStep

-----------------------------------------------------------------------------
(* Both, under every step.                                                  *)

LEMMA ServiceFrame ==
  ASSUME TaskTypeOK, NEW g \in NodeSets, ServiceStep(g)
  PROVE  /\ UNCHANGED healthVars
         /\ \A n \in NodeSets \ {g} : pc'[n] = pc[n]
<1>1. Moves(g, Steps)
  <2>1. CASE RedisStep(g)
    BY <2>1, RedisMoves DEF Moves, Steps, MinioSteps
  <2>2. CASE MinioStep(g)
    BY <2>2, MinioMoves DEF Moves, Steps
  <2>3. CASE LogNewPV(g) \/ ReadNodeAddress(g)
    BY <2>3 DEF LogNewPV, ReadNodeAddress, Moves, TaskTypeOK
  <2> QED BY <2>1, <2>2, <2>3 DEF ServiceStep
<1> QED BY <1>1 DEF ServiceStep, Moves, TaskTypeOK

LEMMA InstallStep ==
  ASSUME TypeInv, InstallInv, [Next]_vars
  PROVE  InstallInv'
<1> USE DEF InstallInv
<1>0. TaskTypeOK
  BY DEF TypeInv, TypeOK
<1>1. HealthInv'
  <2>1. ASSUME NEW d \in Deployments, ClusterStep(d)
        PROVE  HealthInv'
    BY <2>1 DEF ClusterStep, Backends, BecomeReady, BecomeReachable, Evict, HealthInv
  <2>2. ASSUME NEW g \in NodeSets, DeployNodeSet(g)
        PROVE  UNCHANGED healthVars
    BY <2>2 DEF DeployNodeSet, Start, ServiceStep, JoinServices, AddConfigMap, ReadNilWorker,
                CreatePod, Report
  <2>3. CASE RunTest \/ CancelCtx \/ Rerun \/ UNCHANGED vars
    BY <2>3 DEF RunTest, Setup, Spawn, EndSpawning, Announce, CancelCtx, Rerun, vars,
                healthVars, HealthInv
  <2> QED BY <2>1, <2>2, <2>3 DEF Next, Stopped, healthVars, HealthInv
<1>2. ASSUME NEW g \in NodeSets, ServiceStep(g)
      PROVE  RedisInv' /\ MinioInv'
  <2>1. UNCHANGED everReady /\ \A n \in NodeSets \ {g} : pc'[n] = pc[n]
    BY <1>0, <1>2, ServiceFrame DEF healthVars
  <2>2. CASE RedisStep(g)
    <3>1. pc'[g] \notin InstallMinioSteps
      BY <1>0, <2>2, RedisMoves DEF Moves, TaskTypeOK, RedisSteps, InstallMinioSteps
    <3>2. "minio-service" \in objs' => "minio-service" \in objs
      BY <2>2, RedisObjects DEF RedisObjs
    <3> QED BY <1>0, <2>1, <2>2, <3>1, <3>2, RedisInvStep, RedisObjects, MinioInvFrame
  <2>3. CASE MinioStep(g)
    <3>1. pc'[g] \notin InstallRedisSteps
      BY <1>0, <2>3, MinioMoves DEF Moves, TaskTypeOK, MinioSteps, InstallRedisSteps
    <3>2. "redis-service" \in objs' => "redis-service" \in objs
      BY <2>3, MinioObjects DEF MinioObjs
    <3> QED BY <1>0, <2>1, <2>3, <3>1, <3>2, MinioInvStep, MinioObjects, RedisInvFrame
  <2>4. CASE LogNewPV(g) \/ ReadNodeAddress(g)
    BY <2>1, <2>4, RedisInvFrame, MinioInvFrame DEF LogNewPV, ReadNodeAddress
  <2> QED BY <1>2, <2>2, <2>3, <2>4 DEF ServiceStep
<1>3. CASE \A g \in NodeSets : ~ServiceStep(g)
  <2>1. AsideSteps \cap (InstallRedisSteps \cup InstallMinioSteps) = {}
    BY DEF AsideSteps, InstallRedisSteps, InstallMinioSteps
  <2> QED BY <1>0, <1>1, <1>3, <2>1, Aside, RedisInvFrame, MinioInvFrame
<1> QED BY <1>1, <1>2, <1>3

LEMMA InstallInvariant == Spec => []InstallInv
<1>1. Init => InstallInv
  BY DEF Init, ClusterInit, InstallInv, HealthInv, RedisInv, MinioInv, InstallingRedis,
         InstallingMinio
<1>2. TypeInv /\ InstallInv /\ [Next]_vars => InstallInv'
  BY InstallStep
<1> QED BY <1>1, <1>2, TypeInvariant, PTL DEF Spec

(* However the goroutines interleave, and however many there are, one of    *)
(* them at most installs each backend.                                      *)
THEOREM OneInstaller == Spec => []SoleInstaller
<1>1. InstallInv => SoleInstaller
  BY DEF InstallInv, RedisInv, MinioInv, SoleInstaller
<1> QED BY <1>1, InstallInvariant, PTL

(* A service exists only in front of a backend that has been ready, in      *)
(* every run and after any number of broken calls.                          *)
THEOREM ServicesFollowBackends == Spec => []ServiceAfterBackend
<1>1. InstallInv => ServiceAfterBackend
  BY DEF InstallInv, RedisInv, MinioInv, ServiceAfterBackend, Deployments, ServiceOf
<1> QED BY <1>1, InstallInvariant, PTL

(* No goroutine waits for a backend or a service that is not there to come *)
(* up: the part of RunEnds that does not depend on the cluster's fairness. *)
THEOREM WaitsAreForWhatExists == Spec => []WaitedForExists
<1>1. InstallInv => WaitedForExists
  BY DEF InstallInv, RedisInv, MinioInv, WaitedForExists, InstallingRedis, InstallingMinio
<1> QED BY <1>1, InstallInvariant, PTL

-----------------------------------------------------------------------------
(* A stranded backend.                                                      *)

LEMMA StrandedStep ==
  ASSUME TaskTypeOK, [Next]_vars, NEW d \in Deployments, Stranded(d)
  PROVE  Stranded(d)'
<1>1. d = "redis-deployment" \/ d = "minio"
  BY DEF Deployments
<1> USE DEF Stranded, ServiceOf, InstallingRedis, InstallingMinio
<1>2. ASSUME NEW g \in NodeSets, ServiceStep(g)
      PROVE  Stranded(d)'
  <2>0. \A n \in NodeSets \ {g} : pc'[n] = pc[n]
    BY <1>2, ServiceFrame
  <2>1. CASE RedisStep(g)
    <3>1. pc'[g] \in RedisSteps \cup {"minioCheck"} /\ pc[g] \in RedisSteps
      BY <2>1, RedisMoves DEF Moves, TaskTypeOK
    <3>2. objs \subseteq objs' /\ objs' \subseteq objs \cup RedisObjs
      BY <2>1, RedisObjects
    <3>3. CASE d = "minio"
      BY <2>0, <3>1, <3>2, <3>3 DEF RedisObjs, RedisSteps
    <3>4. CASE d = "redis-deployment"
      <4>1. "redis-service" \notin objs' /\ ~InstallingRedis(g)'
        <5> USE DEF At, Goto, Return, RedisFails, TaskTypeOK
        <5>1. CASE CheckRedis(g)
          BY <3>4, <5>1 DEF CheckRedis, Found, NotFound, GetBreaks
        <5>2. CASE CreateRedisDeployment(g)
          BY <3>4, <5>2 DEF CreateRedisDeployment, Created, NotCreated
        <5>3. CASE RedisIPPort(g)
          BY <3>4, <5>3 DEF RedisIPPort, Found, NotFound, GetBreaks
        <5>4. CASE \/ CreateRedisAutoScaler(g) \/ WaitForRedisDeployment(g)
                   \/ GetRedisService(g) \/ CreateRedisService(g) \/ WaitForRedisService(g)
          BY <3>4, <5>4 DEF CreateRedisAutoScaler, WaitForRedisDeployment, GetRedisService,
                            CreateRedisService, WaitForRedisService
        <5> QED BY <2>1, <5>1, <5>2, <5>3, <5>4 DEF RedisStep
      <4> QED BY <2>0, <3>2, <3>4, <4>1
    <3> QED BY <1>1, <3>3, <3>4
  <2>2. CASE MinioStep(g)
    <3>1. pc'[g] \in MinioSteps \cup {"join"} /\ pc[g] \in MinioSteps
      BY <2>2, MinioMoves DEF Moves, TaskTypeOK
    <3>2. objs \subseteq objs' /\ objs' \subseteq objs \cup MinioObjs
      BY <2>2, MinioObjects
    <3>3. CASE d = "redis-deployment"
      BY <2>0, <3>1, <3>2, <3>3 DEF MinioObjs, MinioSteps
    <3>4. CASE d = "minio"
      <4>1. "minio-service" \notin objs' /\ ~InstallingMinio(g)'
        <5> USE DEF At, Goto, Return, MinioFails, TaskTypeOK
        <5>1. CASE CheckMinio(g)
          BY <3>4, <5>1 DEF CheckMinio, Found, NotFound, GetBreaks
        <5>2. CASE GetPVC(g) \/ ListPVs(g) \/ CreatePV(g)
          BY <3>4, <5>2 DEF GetPVC, ListPVs, CreatePV, Found, NotFound, GetBreaks
        <5>3. CASE CreatePVC(g)
          BY <3>4, <5>3 DEF CreatePVC, Created, NotCreated
        <5>4. CASE CreateMinioDeployment(g)
          BY <3>4, <5>4 DEF CreateMinioDeployment, Created, NotCreated
        <5>5. CASE GetMinioEndpoint(g)
          BY <3>4, <5>5 DEF GetMinioEndpoint, Found, NotFound, GetBreaks
        <5>6. CASE \/ WaitForMinioDeployment(g) \/ GetMinioService(g)
                   \/ CreateMinioService(g) \/ WaitForMinioService(g)
          BY <3>4, <5>6 DEF WaitForMinioDeployment, GetMinioService, CreateMinioService,
                            WaitForMinioService
        <5> QED BY <2>2, <5>1, <5>2, <5>3, <5>4, <5>5, <5>6 DEF MinioStep
      <4> QED BY <2>0, <3>2, <3>4, <4>1
    <3> QED BY <1>1, <3>3, <3>4
  <2>3. CASE LogNewPV(g) \/ ReadNodeAddress(g)
    BY <1>1, <2>3 DEF LogNewPV, ReadNodeAddress
  <2> QED BY <1>2, <2>1, <2>2, <2>3 DEF ServiceStep
<1>3. CASE \A g \in NodeSets : ~ServiceStep(g)
  BY <1>1, <1>3, Aside DEF AsideSteps
<1> QED BY <1>2, <1>3

(* No interleaving, and no later run of the dispatcher, completes a backend *)
(* whose installer gave up halfway.                                         *)
THEOREM StrandedForGood == Spec => StrandedStays
<1>1. TypeInv /\ [Next]_vars => [\A d \in Deployments : Stranded(d) => Stranded(d)']_vars
  BY StrandedStep DEF TypeInv, TypeOK
<1> QED BY <1>1, TypeInvariant, PTL DEF Spec, StrandedStays

-----------------------------------------------------------------------------
(* The volumes.                                                             *)

Making == {g \in NodeSets : pc[g] = "pvCreate"}

(* Every goroutine about to make a volume saw none; each one that did make  *)
(* its volume is no longer about to.                                        *)
VolumesInv ==
  IF InitialPVs > 0
  THEN pvs = InitialPVs /\ Making = {}
  ELSE pvs + Cardinality(Making) <= Cardinality(NodeSets)

LEMMA MakingIsFinite ==
  IsFiniteSet(Making) /\ Cardinality(Making) \in Nat /\ Cardinality(Making) <= Cardinality(NodeSets)
BY NodeSetsAssumption, FS_Subset, FS_CardinalityType DEF Making

LEMMA MakingPrimeIsFinite ==
  /\ IsFiniteSet(Making') /\ Cardinality(Making') \in Nat
  /\ Cardinality(Making') <= Cardinality(NodeSets)
BY NodeSetsAssumption, FS_Subset, FS_CardinalityType DEF Making

LEMMA FewerMaking ==
  ASSUME TypeInv, VolumesInv, Making' \subseteq Making, UNCHANGED pvs
  PROVE  VolumesInv'
<1>1. Cardinality(Making') <= Cardinality(Making)
  BY MakingIsFinite, FS_Subset
<1> QED
  BY <1>1, MakingIsFinite, MakingPrimeIsFinite, FS_CardinalityType, NodeSetsAssumption
     DEF VolumesInv, TypeInv, TypeOK, ClusterTypeOK

LEMMA ListStep ==
  ASSUME TypeInv, VolumesInv, NEW g \in NodeSets, ListPVs(g)
  PROVE  VolumesInv'
<1>1. CASE pvs = 0
  <2>1. InitialPVs = 0 /\ pvs' = 0
    BY <1>1, ClusterAssumption DEF VolumesInv, ClusterAssumption, ListPVs
  <2> QED BY <2>1, MakingPrimeIsFinite, FS_CardinalityType, NodeSetsAssumption DEF VolumesInv
<1>2. CASE pvs # 0
  <2>1. Making' \subseteq Making /\ pvs' = pvs
    BY <1>2 DEF ListPVs, Making, At, Goto, Return, MinioFails, TypeInv, TypeOK, TaskTypeOK
  <2> QED BY <2>1, FewerMaking
<1> QED BY <1>1, <1>2

LEMMA CreateStep ==
  ASSUME TypeInv, VolumesInv, NEW g \in NodeSets, CreatePV(g)
  PROVE  VolumesInv'
<1>1. g \in Making /\ Making' = Making \ {g} /\ pvs' \in {pvs, pvs + 1}
  BY DEF CreatePV, Making, At, Goto, Return, MinioFails, TypeInv, TypeOK, TaskTypeOK
<1>2. Cardinality(Making') = Cardinality(Making) - 1
  BY <1>1, MakingIsFinite, FS_RemoveElement
<1> QED
  BY <1>1, <1>2, MakingIsFinite, FS_CardinalityType, NodeSetsAssumption
     DEF VolumesInv, TypeInv, TypeOK, ClusterTypeOK

LEMMA VolumesStep ==
  ASSUME TypeInv, VolumesInv, [Next]_vars
  PROVE  VolumesInv'
<1>0. TaskTypeOK
  BY DEF TypeInv, TypeOK
<1>1. ASSUME NEW g \in NodeSets, ServiceStep(g)
      PROVE  VolumesInv'
  <2>1. \A n \in NodeSets \ {g} : pc'[n] = pc[n]
    BY <1>0, <1>1, ServiceFrame
  <2>2. CASE RedisStep(g)
    <3>1. pc'[g] # "pvCreate" /\ pvs' = pvs
      BY <1>0, <2>2, RedisMoves DEF Moves, TaskTypeOK, RedisSteps, RedisStep
    <3> QED BY <2>1, <3>1, FewerMaking DEF Making
  <2>3. CASE LogNewPV(g) \/ ReadNodeAddress(g)
    BY <2>3, FewerMaking DEF LogNewPV, ReadNodeAddress, Making
  <2>4. CASE /\ MinioStep(g)
             /\ ~ListPVs(g) /\ ~CreatePV(g)
    <3> USE DEF At, Goto, Return, MinioFails, TaskTypeOK
    <3>1. (pc'[g] # "pvCreate" \/ pc'[g] = pc[g]) /\ pvs' = pvs
      <4>1. CASE CheckMinio(g) \/ GetPVC(g) \/ CreatePVC(g)
        BY <1>0, <4>1 DEF CheckMinio, GetPVC, CreatePVC
      <4>2. CASE \/ CreateMinioDeployment(g) \/ WaitForMinioDeployment(g)
                 \/ GetMinioService(g) \/ CreateMinioService(g)
        BY <1>0, <4>2 DEF CreateMinioDeployment, WaitForMinioDeployment, GetMinioService,
                          CreateMinioService
      <4>3. CASE WaitForMinioService(g)
        BY <1>0, <4>3 DEF WaitForMinioService, DialFails
      <4>4. CASE GetMinioEndpoint(g)
        BY <1>0, <4>4 DEF GetMinioEndpoint
      <4> QED BY <2>4, <4>1, <4>2, <4>3, <4>4 DEF MinioStep
    <3> QED BY <2>1, <3>1, FewerMaking DEF Making
  <2> QED BY <1>1, <2>2, <2>3, <2>4, ListStep, CreateStep DEF ServiceStep
<1>2. CASE \A g \in NodeSets : ~ServiceStep(g)
  <2>1. pvs' = pvs /\ \A n \in NodeSets : pc'[n] = pc[n] \/ pc'[n] # "pvCreate"
    BY <1>0, <1>2, Aside DEF AsideSteps
  <2> QED BY <2>1, FewerMaking DEF Making
<1> QED BY <1>1, <1>2

LEMMA VolumesInvariant == Spec => []VolumesInv
<1>1. Init => VolumesInv
  <2> SUFFICES ASSUME Init PROVE VolumesInv
    OBVIOUS
  <2>1. Making = {} /\ pvs = InitialPVs
    BY DEF Init, ClusterInit, Making
  <2> QED
    BY <2>1, ClusterAssumption, FS_EmptySet, FS_CardinalityType, NodeSetsAssumption
       DEF VolumesInv, ClusterAssumption
<1>2. TypeInv /\ VolumesInv /\ [Next]_vars => VolumesInv'
  BY VolumesStep
<1> QED BY <1>1, <1>2, TypeInvariant, PTL DEF Spec

(* Of a run that finds no volume, no goroutine makes more than one; a run   *)
(* that finds one makes none.                                               *)
THEOREM FewVolumes == Spec => []VolumesAreBounded
<1>1. TypeInv /\ VolumesInv => VolumesAreBounded
  BY MakingIsFinite, FS_CardinalityType, NodeSetsAssumption
     DEF VolumesInv, VolumesAreBounded, TypeInv, TypeOK, ClusterTypeOK
<1> QED BY <1>1, VolumesInvariant, TypeInvariant, PTL

-----------------------------------------------------------------------------
(* The pods.                                                                *)

LEMMA RedisErrors ==
  ASSUME TaskTypeOK, NEW g \in NodeSets, RedisStep(g)
  PROVE  /\ \A n \in NodeSets \ {g} : errs'[n] = errs[n]
         /\ pc'[g] = "minioCheck" =>
              \/ errs'[g]["redis"] # "none" \/ errs'[g]["redisIP"] # "none"
              \/ "redis-service" \in objs'
<1> USE DEF TaskTypeOK, At, Goto, Return, RedisFails
<1>0. "redis" \in Slots /\ "redisIP" \in Slots
  BY DEF Slots
<1>1. CASE CheckRedis(g)
  BY <1>0, <1>1 DEF CheckRedis
<1>2. CASE CreateRedisDeployment(g)
  BY <1>0, <1>2 DEF CreateRedisDeployment
<1>3. CASE CreateRedisAutoScaler(g)
  BY <1>0, <1>3 DEF CreateRedisAutoScaler
<1>4. CASE WaitForRedisDeployment(g)
  BY <1>0, <1>4 DEF WaitForRedisDeployment
<1>5. CASE GetRedisService(g)
  BY <1>5 DEF GetRedisService
<1>6. CASE CreateRedisService(g)
  BY <1>0, <1>6 DEF CreateRedisService
<1>7. CASE WaitForRedisService(g)
  BY <1>0, <1>7 DEF WaitForRedisService, DialFails
<1>8. CASE RedisIPPort(g)
  BY <1>0, <1>8 DEF RedisIPPort, Found
<1> QED BY <1>1, <1>2, <1>3, <1>4, <1>5, <1>6, <1>7, <1>8 DEF RedisStep

LEMMA MinioErrors ==
  ASSUME TaskTypeOK, NEW g \in NodeSets, MinioStep(g)
  PROVE  /\ \A n \in NodeSets \ {g} : errs'[n] = errs[n]
         /\ errs'[g]["redis"] = errs[g]["redis"] /\ errs'[g]["redisIP"] = errs[g]["redisIP"]
         /\ pc'[g] = "join" =>
              \/ errs'[g]["minio"] # "none" \/ errs'[g]["minioEp"] # "none"
              \/ "minio-service" \in objs'
<1> USE DEF TaskTypeOK, At, Goto, Return, MinioFails
<1>0. {"redis", "redisIP", "minio", "minioEp"} \subseteq Slots
  BY DEF Slots
<1>1. CASE CheckMinio(g)
  BY <1>0, <1>1 DEF CheckMinio
<1>2. CASE GetPVC(g)
  BY <1>2 DEF GetPVC
<1>3. CASE ListPVs(g) \/ CreatePV(g)
  BY <1>0, <1>3 DEF ListPVs, CreatePV
<1>4. CASE CreatePVC(g)
  BY <1>0, <1>4 DEF CreatePVC
<1>5. CASE CreateMinioDeployment(g)
  BY <1>0, <1>5 DEF CreateMinioDeployment
<1>6. CASE WaitForMinioDeployment(g)
  BY <1>0, <1>6 DEF WaitForMinioDeployment
<1>7. CASE GetMinioService(g)
  BY <1>7 DEF GetMinioService
<1>8. CASE CreateMinioService(g)
  BY <1>0, <1>8 DEF CreateMinioService
<1>9. CASE WaitForMinioService(g)
  BY <1>0, <1>9 DEF WaitForMinioService, DialFails
<1>10. CASE GetMinioEndpoint(g)
  <2>1. \A r \in EndpointErrors : r[1] # "none"
    BY DEF EndpointErrors
  <2> QED BY <1>0, <1>10, <2>1 DEF GetMinioEndpoint, Found
<1> QED
  BY <1>1, <1>2, <1>3, <1>4, <1>5, <1>6, <1>7, <1>8, <1>9, <1>10 DEF MinioStep

LEMMA ObjectsStay ==
  ASSUME TaskTypeOK, [Next]_vars
  PROVE  objs \subseteq objs'
<1>1. ASSUME NEW g \in NodeSets, ServiceStep(g)
      PROVE  objs \subseteq objs'
  BY <1>1, RedisObjects, MinioObjects DEF ServiceStep, LogNewPV, ReadNodeAddress
<1> QED BY <1>1, Aside

LEMMA SeenStep ==
  ASSUME TypeInv, SeenInv, [Next]_vars
  PROVE  SeenInv'
<1>0. TaskTypeOK /\ objs \subseteq objs'
  BY ObjectsStay DEF TypeInv, TypeOK
<1>1. ASSUME NEW g \in NodeSets, ServiceStep(g)
      PROVE  SeenInv'
  <2>1. \A n \in NodeSets \ {g} : pc'[n] = pc[n]
    BY <1>0, <1>1, ServiceFrame
  <2>2. CASE RedisStep(g)
    <3>1. pc'[g] \in RedisSteps \cup {"minioCheck"}
      BY <1>0, <2>2, RedisMoves DEF Moves, TaskTypeOK
    <3>2. pc'[g] \notin {"join", "files"} /\ (pc'[g] \in MinioSteps => pc'[g] = "minioCheck")
      BY <3>1 DEF RedisSteps, MinioSteps
    <3> QED BY <1>0, <2>1, <2>2, <3>2, RedisErrors DEF SeenInv
  <2>3. CASE MinioStep(g)
    <3>1. pc'[g] # "files" /\ pc[g] \in MinioSteps
      BY <1>0, <2>3, MinioMoves DEF Moves, TaskTypeOK, MinioSteps
    <3> QED BY <1>0, <2>1, <2>3, <3>1, MinioErrors DEF SeenInv
  <2>4. CASE LogNewPV(g) \/ ReadNodeAddress(g)
    BY <2>4 DEF LogNewPV, ReadNodeAddress, SeenInv
  <2> QED BY <1>1, <2>2, <2>3, <2>4 DEF ServiceStep
<1>2. "idle" \notin MinioSteps /\ "start" \notin MinioSteps /\ "redisCheck" \notin MinioSteps
      /\ "files" \notin MinioSteps /\ "report" \notin MinioSteps
      /\ "deployed" \notin MinioSteps /\ "failed" \notin MinioSteps
  BY DEF MinioSteps
<1>3. ASSUME NEW g \in NodeSets,
             Start(g) \/ AddConfigMap(g) \/ ReadNilWorker(g) \/ CreatePod(g) \/ Report(g)
      PROVE  SeenInv'
  <2>1. \A n \in NodeSets \ {g} : pc'[n] = pc[n] /\ errs'[n] = errs[n]
    BY <1>0, <1>3 DEF Start, AddConfigMap, ReadNilWorker, CreatePod, Report, Goto, Return,
                      taskVars, TaskTypeOK
  <2>2. \/ pc'[g] = pc[g] /\ errs'[g] = errs[g]
        \/ pc'[g] \in {"redisCheck", "report", "deployed", "failed"}
    BY <1>0, <1>3 DEF Start, AddConfigMap, ReadNilWorker, CreatePod, Report, Goto, Return,
                      taskVars, TaskTypeOK
  <2> QED BY <1>0, <1>2, <2>1, <2>2 DEF SeenInv
<1>4. ASSUME NEW g \in NodeSets, JoinServices(g)
      PROVE  SeenInv'
  <2>1. \A n \in NodeSets \ {g} : pc'[n] = pc[n] /\ errs'[n] = errs[n]
    BY <1>0, <1>4 DEF JoinServices, Goto, Return, TaskTypeOK
  <2>2. CASE FirstError(g) = "none"
    <3>1. Services \subseteq objs /\ pc'[g] = "files"
      BY <1>0, <1>4, <2>2
         DEF JoinServices, FirstError, SeenInv, Services, At, Goto, TaskTypeOK
    <3> QED BY <1>0, <1>2, <2>1, <3>1 DEF SeenInv
  <2>3. CASE FirstError(g) # "none"
    <3>1. pc'[g] = "report"
      BY <1>0, <1>4, <2>3 DEF JoinServices, Return, TaskTypeOK
    <3> QED BY <1>0, <1>2, <2>1, <3>1 DEF SeenInv
  <2> QED BY <2>2, <2>3
<1>5. ASSUME NEW n \in NodeSets, Spawn(n)
      PROVE  SeenInv'
  BY <1>0, <1>2, <1>5 DEF Spawn, Goto, SeenInv, TaskTypeOK
<1>6. CASE Setup \/ EndSpawning \/ Announce \/ CancelCtx \/ UNCHANGED vars
  BY <1>6 DEF Setup, EndSpawning, Announce, CancelCtx, vars, taskVars, SeenInv
<1>7. ASSUME NEW d \in Deployments, ClusterStep(d)
      PROVE  SeenInv'
  BY <1>7 DEF ClusterStep, taskVars, SeenInv
<1>8. CASE Rerun
  BY <1>2, <1>8 DEF Rerun, SeenInv
<1>9. CASE RunTest
  BY <1>5, <1>6, <1>9 DEF RunTest
<1>10. ASSUME NEW g \in NodeSets, DeployNodeSet(g)
       PROVE  SeenInv'
  BY <1>1, <1>3, <1>4, <1>10 DEF DeployNodeSet
<1> QED BY <1>6, <1>7, <1>8, <1>9, <1>10 DEF Next, Stopped

LEMMA PodFrame ==
  ASSUME MountedInv, PodIsUsable, objs \subseteq objs', UNCHANGED <<run, podVars>>
  PROVE  MountedInv' /\ PodIsUsable'
BY DEF MountedInv, PodIsUsable, podVars

LEMMA PodStep ==
  ASSUME TypeInv, PodInv, [Next]_vars
  PROVE  MountedInv' /\ PodIsUsable'
<1> USE DEF PodInv
<1>0. objs \subseteq objs'
  BY ObjectsStay DEF TypeInv, TypeOK
<1>1. ASSUME NEW g \in NodeSets,
             \/ Start(g) \/ ServiceStep(g) \/ JoinServices(g)
             \/ ReadNilWorker(g) \/ Report(g)
      PROVE  MountedInv' /\ PodIsUsable'
  BY <1>0, <1>1, PodFrame DEF Start, ServiceStep, JoinServices, ReadNilWorker, Report
<1>2. ASSUME NEW g \in NodeSets, AddConfigMap(g)
      PROVE  MountedInv' /\ PodIsUsable'
  <2>1. configMaps \subseteq configMaps' /\ UNCHANGED <<run, pods>>
    BY <1>2 DEF AddConfigMap
  <2>2. PodIsUsable'
    BY <1>0, <2>1 DEF PodIsUsable
  <2>3. \/ UNCHANGED volumes
        \/ \E m \in Mounts[g] :
             /\ configMaps' = configMaps \cup {<<g, m, run>>}
             /\ volumes' = [volumes EXCEPT ![g] = @ \cup {<<g, m, run>>}]
    BY <1>2 DEF AddConfigMap, Unmounted
  <2>4. MountedInv'
    BY <2>1, <2>3 DEF MountedInv, TypeInv, TypeOK
  <2> QED BY <2>2, <2>4
<1>3. ASSUME NEW g \in NodeSets, CreatePod(g)
      PROVE  MountedInv' /\ PodIsUsable'
  <2> DEFINE pod == [name |-> g, vols |-> volumes[g]]
  <2>1. pods' \subseteq pods \cup {pod} /\ UNCHANGED <<run, volumes, configMaps>>
    BY <1>3 DEF CreatePod
  <2>2. Services \subseteq objs'
    BY <1>0, <1>3 DEF CreatePod, At, SeenInv
  <2>3. volumes[g] = {<<g, m, run>> : m \in Mounts[g]} /\ volumes[g] \subseteq configMaps
    BY <1>3 DEF CreatePod, Unmounted, MountedInv
  <2>4. run \in 1..run
    BY DEF TypeInv, TypeOK
  <2>5. PodIsUsable'
    BY <1>0, <2>1, <2>2, <2>3, <2>4 DEF PodIsUsable
  <2> QED BY <2>1, <2>5 DEF MountedInv
<1>4. CASE RunTest \/ CancelCtx \/ UNCHANGED vars
  BY <1>0, <1>4, PodFrame
     DEF RunTest, Setup, Spawn, EndSpawning, Announce, CancelCtx, vars
<1>5. ASSUME NEW d \in Deployments, ClusterStep(d)
      PROVE  MountedInv' /\ PodIsUsable'
  BY <1>0, <1>5, PodFrame DEF ClusterStep
<1>6. CASE Rerun
  <2>1. \A r \in 1..run : r \in 1..run'
    BY <1>6 DEF Rerun, TypeInv, TypeOK
  <2>2. UNCHANGED <<configMaps, pods>> /\ \A g \in NodeSets : volumes'[g] = {}
    BY <1>6 DEF Rerun
  <2> QED BY <1>0, <2>1, <2>2 DEF MountedInv, PodIsUsable
<1>7. ASSUME NEW g \in NodeSets, DeployNodeSet(g)
      PROVE  MountedInv' /\ PodIsUsable'
  BY <1>1, <1>2, <1>3, <1>7 DEF DeployNodeSet
<1> QED BY <1>4, <1>5, <1>6, <1>7 DEF Next, Stopped

(* A worker pod exists only with the services and the ConfigMaps it was     *)
(* configured with, however the calls that made them failed in between.     *)
THEOREM PodsAreUsable == Spec => []PodIsUsable
<1>1. Init => PodInv
  <2>1. Init => SeenInv
    BY DEF Init, SeenInv, MinioSteps
  <2>2. Init => MountedInv /\ PodIsUsable
    BY DEF Init, MountedInv, PodIsUsable
  <2> QED BY <2>1, <2>2 DEF PodInv
<1>2. TypeInv /\ PodInv /\ [Next]_vars => PodInv'
  BY SeenStep, PodStep DEF PodInv
<1>3. PodInv => PodIsUsable
  BY DEF PodInv
<1> QED BY <1>1, <1>2, <1>3, TypeInvariant, PTL DEF Spec
=============================================================================
