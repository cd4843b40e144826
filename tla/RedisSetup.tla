----------------------------- MODULE RedisSetup -----------------------------
(***************************************************************************)
(* The Redis half of setupDependentServices (pkg/dispatcher/redis.go):     *)
(* deployRedis and then RedisIPPort, one action per API call.  Whatever    *)
(* the result, the goroutine goes on to the MinIO half: the two closures   *)
(* are called one after the other, and the errors are looked at later.     *)
(***************************************************************************)
EXTENDS NodeSetTask

RedisFails(g, e, causes) == Return(g, "minioCheck", "redis", e, causes)

\* Mutant: any error of the Get is taken as NotFound, and no error as one.
NeverFindsRedis(g) ==
  At(g, "redisCheck") /\ Answers /\ UNCHANGED objs /\ Goto(g, "redisCreate")

\* isRedisDeployed: existence of the deployment is all that is looked at.
CheckRedis(g) ==
  /\ At(g, "redisCheck")
  /\ \/ Found("redis-deployment") /\ Goto(g, "redisIP")
     \/ NotFound("redis-deployment") /\ Goto(g, "redisCreate")
     \/ /\ GetBreaks
        /\ RedisFails(g, "ErrGettingDeployment",
                      Wrap(cause, "ErrGettingDeployment", "raw"))

\* Mutant: an existing deployment is taken as created.
CreateRedisIfAbsent(g) ==
  At(g, "redisCreate") /\ Answers /\ objs' = objs \cup {"redis-deployment"} /\ Goto(g, "redisHPA")

CreateRedisDeployment(g) ==
  /\ At(g, "redisCreate")
  /\ \/ Created("redis-deployment") /\ Goto(g, "redisHPA")
     \/ /\ NotCreated("redis-deployment")
        /\ RedisFails(g, "ErrCreatingDeployment",
                      Wrap(cause, "ErrCreatingDeployment", "raw"))

CreateRedisAutoScaler(g) ==
  /\ At(g, "redisHPA")
  /\ \/ Created("redis-hpa") /\ Goto(g, "redisWait")
     \/ /\ NotCreated("redis-hpa")
        /\ RedisFails(g, "ErrCreatingAutoScaler",
                      Wrap(cause, "ErrCreatingAutoScaler", "raw"))

\* Mutant: the wait is dropped.
SkipWaitForRedis(g) ==
  At(g, "redisWait") /\ UNCHANGED <<objs, faults>> /\ Goto(g, "redisSvcGet")

\* A poll that breaks or finds no ready replica sleeps and polls again: it
\* changes nothing.  Only the context ends the loop otherwise.
WaitForRedisDeployment(g) ==
  /\ At(g, "redisWait")
  /\ UNCHANGED <<objs, faults>>
  /\ \/ ~ctxDone /\ "redis-deployment" \in ready /\ Goto(g, "redisSvcGet")
     \/ /\ ctxDone
        /\ RedisFails(g, "ErrWaitingForRedis",
                      Wrap(cause, "ErrWaitingForRedis", "raw"))

\* createRedisService takes any error of this Get as "not there".
GetRedisService(g) ==
  /\ At(g, "redisSvcGet")
  /\ \/ Found("redis-service") /\ Goto(g, "redisSvcWait")
     \/ NotFound("redis-service") /\ Goto(g, "redisSvcCreate")
     \/ GetBreaks /\ Goto(g, "redisSvcCreate")

CreateRedisService(g) ==
  /\ At(g, "redisSvcCreate")
  /\ \/ Created("redis-service") /\ Goto(g, "redisSvcWait")
     \/ /\ NotCreated("redis-service")
        /\ RedisFails(g, "ErrCreatingService",
                      Wrap(cause, "ErrCreatingService", "raw"))

\* Get and dial until it connects.  The second Get, inside RedisIPPort, is
\* not retried when it breaks.
WaitForRedisService(g) ==
  /\ At(g, "redisSvcWait")
  /\ \/ /\ Answers /\ UNCHANGED objs
        /\ "redis-service" \in reachable
        /\ Goto(g, "redisIP")
     \/ DialFails("redis-service")
     \/ /\ GetBreaks
        /\ "redis-service" \in objs
        /\ RedisFails(g, "ErrWaitingForRedisService",
                      Wrap(Wrap(cause, "ErrGettingService", "raw"),
                           "ErrWaitingForRedisService", "ErrGettingService"))
     \/ /\ ctxDone /\ UNCHANGED <<objs, faults>>
        /\ RedisFails(g, "ErrWaitingForRedisService",
                      Wrap(Wrap(cause, "ErrTimeout", "raw"),
                           "ErrWaitingForRedisService", "ErrTimeout"))

\* RedisIPPort, for the address that goes into the workers' environment.
RedisIPPort(g) ==
  /\ At(g, "redisIP")
  /\ \/ Found("redis-service") /\ Goto(g, "minioCheck")
     \/ /\ NotFound("redis-service") \/ GetBreaks
        /\ Return(g, "minioCheck", "redisIP", "ErrGettingService",
                  Wrap(cause, "ErrGettingService", "raw"))

RedisStep(g) ==
  /\ \/ CheckRedis(g) \/ CreateRedisDeployment(g) \/ CreateRedisAutoScaler(g)
     \/ WaitForRedisDeployment(g) \/ GetRedisService(g) \/ CreateRedisService(g)
     \/ WaitForRedisService(g) \/ RedisIPPort(g)
  /\ UNCHANGED pvs

\* g has created the Redis deployment and is still installing the rest.
InstallingRedis(g) ==
  pc[g] \in {"redisHPA", "redisWait", "redisSvcGet", "redisSvcCreate", "redisSvcWait"}
=============================================================================
