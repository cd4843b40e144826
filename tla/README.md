# testwave: models, checks and proofs

testwave runs network tests on Kubernetes. `testwave start` builds the test
binary into an image and creates one *dispatcher* pod. The dispatcher takes the
playbook's node sets and deploys one pod of workers for each, together with
one Redis and one MinIO that all of them share. The workers find each other and
exchange messages through Redis, and files through MinIO. `testwave logs` follows
the containers of one node set.

This directory holds TLA+ modules of that system, TLC configurations that check
them on small instances, and proofs for every instance. `PROJECT.json` is the
index: which definition models which lines, what each run checks, which mutant
each property catches, and the hazards of the code.

## 1. Inventory

| component | state | operations | talks to | modelled by |
|---|---|---|---|---|
| RunTest (`pkg/dispatcher/dispatcher.go`) | WaitGroup, config map | Setup, one goroutine per node set, wait, announce | goroutines | `Dispatcher` |
| DeployNodeSet (`pkg/dispatcher/node_set.go`) | four error variables, the pod it builds | shared services, pod, ConfigMaps, Create | Redis half, MinIO half, API server | `NodeSetTask`, `Dispatcher` |
| Redis half (`redis.go`) | none of its own; the cluster's objects | check, deployment, autoscaler, wait, service, wait, address | API server, TCP dial | `RedisSetup` |
| MinIO half (`minio.go`) | same | check, claim and volume, deployment, wait, service, wait, endpoint | API server, TCP dial | `MinioSetup` |
| errors (`errors.go`) | one `Err` field per package variable, shared by all goroutines | `Wrap`, `Error` | - | `NodeSetTask` |
| cluster (external) | objects, volumes, readiness, endpoints | Get, Create, List; controllers; evictions | - | `Cluster` |
| addresses and waiting reads (`pkg/message`) | Redis keys | SetIP, GetIP, GetIPWaiting, Set, Get, GetWaiting | Redis replicas | `Registry` |
| publish and subscribe (`pkg/message`) | subscriptions, one goroutine per handler | Send, OnReceive, Receive, global forms | Redis replicas | `PubSub` |
| worker start (`cmd/testwave/worker.go`, `pkg/worker`) | worker identity | checks, ping, SetIP, RunWorker | messaging | `Registry` |
| pod specification (`node_set.go`) | environment slices, mounts, `UID` fields of shared workers | UIDs, environment, grouping and mounting of files, containers | API server | `PodSpec` |
| object store (`pkg/worker/minio.go`) | one bucket, objects | Push, Pull, URL | MinIO, messages | `ObjectStore`, `Transfer` |
| deployer and start (`pkg/deployer`, `cmd/testwave/start.go`, `dispatcher.go`) | image and pod name | build, push, Role, pod, first logs, all under one deadline | docker, image registry, API server | `StartCommand` |
| interactive logs (`cmd/testwave/logs.go`, `pkg/logs`) | menu numbering, signal channels, copying goroutines | list, choose, follow, interrupt | API server, terminal | `LogsMenu` |
| BitTwister (`pkg/worker/bittwister.go`) | three external loaders | set a limit, start | external XDP programs | not modelled |
| command line, playbook interface, constants | flags | parsing, formatting | - | not modelled |

### What is hard here

* **Races on shared services.** Every node set runs check-then-create against the
  same names with no lock. The check looks only at the *deployment*; the rest
  of the installation (autoscaler, wait, service, wait) happens after that.
* **Half installations.** An installer that fails leaves what it did. Nothing is
  rolled back, and the next check takes it as finished.
* **Sequential "goroutines".** The two halves of `setupDependentServices` are
  closures called one after the other. The second runs even if the first failed.
* **Errors that are variables.** `Wrap` writes the cause into the package variable
  and returns that variable, so goroutines overwrite each other's causes and a
  variable can come to wrap itself.
* **Panics.** A nil node set, a nil worker, a nil volume, a node without addresses, or an error
  that wraps itself ends the process and with it every other goroutine.
* **Waiting.** Polls under a context that is never cancelled (`context.TODO()`).
* **Redis is not one.** An autoscaler may run several Redis pods that share nothing
  behind one service, none of them with a volume. What a client sees depends on the pod
  its connection reached; what a pod held is gone when it is replaced.
* **Handlers are armed late.** `OnReceive` returns before its goroutine has
  subscribed, serves one message and then takes the subscription down while Redis may
  still be delivering.
* **Nobody listens.** Redis keeps no published message; the count of receivers is
  all a sender learns.
* **Reruns.** The dispatcher pod is not restarted, but a person may run the test
  again over what the last run left.
* **Workers that are shared.** One `*Worker` may be in two node sets whose goroutines run at once;
  both read and write its `UID`, a string of two words, without a lock.
* **Files that are mounted by directory.** Two mounts at one path, or one name twice, and the
  API server refuses the pod after everything else was made.
* **One bucket for all.** Every Push looks for it and makes it, with nothing in between.
* **start takes nothing back.** Its deadline may pass between the Role and the pod, or after
  the pod; its exit code is all the user sees.
* **A menu over things that move.** The number typed refers to the screen; pods have come and
  gone since. Signals, the copying goroutine and the menu's loop are three threads.

### What makes each component correct

* RunTest: the announcement waits for every goroutine; every goroutine reports
  exactly once; no announcement and no hang for want of a `Done`.
* The two halves: one installer each; a service only in front of a backend that
  has been ready; bounded leaks; waits that end.
* Worker pods: never in the cluster without what their environment and volumes
  refer to.
* Addresses: an address one gets was set by the node it asked for; whoever has met all peers of
  its run has met peers that came in; a wait whose context is done ends; without
  trouble all workers meet.
* Messages: a subscription is filled by the first message of its channel and by no
  other; one that was received is not received again; `nil` from Send means that
  somebody heard this very message.
* Pod specification: every container has its own environment, name and files; a pod is
  refused only for what the playbook or a failure put into it; a worker finds all the variables
  the worker command reads, and a UID of its own.
* Object store: an id stands for all of what was pushed; a Pull reads what the message
  told of; the race for the bucket costs a worker one Push; an exchange that repeats what
  failed comes to its end.
* start and logs: a test runs its own build; exit code 0 means that the test runs; the container
  followed is the one on the screen, until the user interrupts it; the menu is quiet.

## 2. Modules

```
Cluster            API server, controllers, the caller's context       (external)
  NodeSetTask      one goroutine's frame: pc, error slots, shared causes
    RedisSetup     deployRedis, RedisIPPort
    MinioSetup     deployMinio, createPVC, getMinioEndpoint
      Dispatcher   RunTest + DeployNodeSet over both: Init, Next, Spec
        DispatcherProperties   invariants, action and liveness properties
          MCDispatcher         constants for TLC
          RunTestProofs        proof: types, the WaitGroup, implements Deployment
            DispatcherSafety   proof: installers, services, volumes, pods
              DispatcherOutcomes   proof: crashes have causes, what is announced
Deployment         what RunTest promises, abstractly

Registry           workerCmd, SetIP, GetIP, GetIPWaiting over Redis replicas
  RegistryProperties
    MCRegistry     constants for TLC
    RegistryProofs proof: types, traced addresses, the barrier, one Redis

PubSub             Send, OnReceive, Receive over Redis replicas
  PubSubProperties
    MCPubSub       playbooks for TLC
    PubSubProofs   proof: types, order of receives, nil means heard, implements OneShot
OneShot            what a subscription promises, abstractly

ObjectStore        Push: bucket, object, id, reader
  Transfer         PubSub + ObjectStore: Push, a message with the id, Pull
    TransferProperties
      MCTransfer   an exchange for TLC
      TransferProofs     proof: is PubSub; ids resolve, pulls, the bucket race,
                         what is told is there

PodSpec            createPodForNodeSet: UIDs, environments, files, containers
  PodSpecProperties
    MCPodSpec      a playbook for TLC
    PodSpecProofs  proof: all of PodSpecProperties

StartCommand       start, deployer, the dispatcher's process and its images
  LogsMenu         the logs command over the same namespace
    ConsoleProperties    also what TLC runs
      ConsoleProofs      proof: all of it but the liveness
```

Two modules look at the worker pod. `Dispatcher` has the calls and their failures in the order the
code makes them, with a pod's volumes as names; `PodSpec` has what the pod holds, and
where `Dispatcher` has *a* ConfigMap per group, `PodSpec` says which files it has.
`PodSpec` begins where `setupDependentServices` has returned without an error.
`Registry` and `PubSub` are the two halves of `pkg/message`: they share the Redis client
and nothing else, since keys and channels have prefixes of their own. In `StartCommand`,
`RunTest` is one step: `Dispatcher` has its detail.

### The dispatcher against the code

* `objs`, `pvs`: the names that exist in the namespace, and the number of volumes
  of the size MinIO asks for. An object's contents are not kept: no
  property depends on them. A volume's name is generated by the server, so volumes are
  counted.
* `pc[g]`: the API call goroutine `g` makes next. One action is one call with all
  the code up to the next one, since between two calls a goroutine touches only its own
  variables and the shared error variables. Each `Wrap` is folded into the
  call whose failure it wraps.
* A data race on an `Err` field is taken as an atomic write. An interface value is two words, and a
  torn one pairs the type of one error with the data of another. While no call breaks, only
  `ErrAddingFileToPod` gets errors of two types (a file that does not open, an object that is refused), so a
  torn value of any other variable is one of the values written, or has no data yet, which `fmt` prints as
  `<nil>`. What formatting a mixed value of the rest would do is left out, so `CrashHasCause` is about values
  that were written.
* `errs[g]`: `redisErr`, `redisIpErr`, `minioErr`, `minioEpErr` of
  `setupDependentServices`, and the error handed to the log ("final").
* `cause`: the `Err` fields. `Prints(e)` says whether `e.Error()` returns.
* `main`: where `RunTest` is. `"crashed"` is a panic, or a stack overflow, anywhere in this code. A
  panic inside the user's `NodeSets()` or `Name()` is not among them.
* `NilSets`, `NilWorkers`, `EmptySets`: what the playbook's slices hold. A nil worker is read after
  the ConfigMaps of those before it (`ReadNilWorker`, `node_set.go:119`). `BareNodes`: the first node of
  the cluster may have no address yet, and `getMinioEndpoint` takes the first one (`ReadNodeAddress`,
  `minio.go:197`). Each of these is a choice of the run, apart from broken calls.
* `Refusable`: node sets with a file that may not open (`node_set.go:182`), or a ConfigMap or pod that
  the server may refuse for what is in it. That is an error path without a broken call, and so not
  counted in `faults`. `Deployable` are the node sets that are neither refusable nor empty.
* `volumes`, `configMaps`, `pods`: the pod being built, and what `AddFilesToPod`
  and `Pods().Create` left in the cluster. `Mounts[n]` are the groups of files of
  node set `n`; the order in which the code meets them (range over a map) is
  arbitrary, so `AddConfigMap` takes any that is left.
* A call is answered, refused or broken. A broken `Create` may have been applied. Polls
  inside `waitFor...` ignore broken calls and try again, which changes nothing, so a
  broken poll is not a step. The exception is the second Get of each service
  wait, whose error is returned; it is a step.
* `Rerun`: a new process starts over the same cluster. It and `CancelCtx` are external: a person
  starts the test again, and the context is another caller's, since `RunTest` passes
  `context.TODO()`.

### The registry against the code

* `store[r][v]`: the address under `ipKeyPrefix + v` on replica `r`. An address is the
  number of the run whose pod has it; two pods of one run are told apart by the key.
  `registered` is a history variable for the properties.
* `conn[w]`: go-redis keeps connections and takes a new one where it has none; the service sends
  a new connection to any replica. A broken command drops the connection and is not
  retried.
* `pc[w]`: the checks of `workerCmd` ("boot"), `SetIP`, `NetworkInterfaceByIP`, then the
  playbook ("run"), inside `GetWaiting` ("get", "tick"). `failsAt` says whose checks fail, and
  where; it is chosen from `FailsAt` anew in every run.
  A failed worker is not restarted: the pods are created with `RestartPolicyNever`.
* The playbook is code of the user. Here it asks, with or without a context, until it knows every
  peer; it repeats after `ErrMsgNotFound` and returns any other error.
* `Lose`, `Expire`, `ScaleUp`, `Reap`: what the cluster, the 24 hours of a key, the autoscaler
  and the connection pool may do at any moment, up to `MaxLosses`.

### The messages against the code

* `Program[n]`: the calls the playbook makes on worker `n`, in order. The proofs hold for
  every program; TLC runs two, and a third in `transfer`. A call that touches no message
  (`Other`) may take place anywhere between those that do.
* `sub[l]`: the subscription of one `OnReceive` or `Receive`: "subscribing" in its
  goroutine or in the caller, "listening" when Redis knows it, "handling" after
  `ReceiveMessage`, "left" between the client's going and Redis' knowing of it - after `Unsubscribe`, and
  as well after a connection or an `Unsubscribe` that broke (`TakenDown`) - and "closed".
* `at[l]`: the replica that knows it. `inbox[l]`: what Redis pushed and nobody has read.
* A message is its place in `log`. Payloads are not kept: they arrive as strings whatever was sent.
* `Channel` is prefix, UID and key as in the code, with nothing between them.
* With `retry`, a playbook repeats `Send` until it returns `nil`, the only way to
  reach a worker that has not subscribed yet.

### The object store against the code

* A call is known by its place in the program, as in `PubSub`. `stage[c]` is the next request
  of Push `c`: `BucketExists`, `MakeBucket`, `PutObject`. Each can break, and a broken
  `MakeBucket` or `PutObject` may have been carried out.
* `spent` are the Pushes whose reader somebody has read from. Only `PutObject` reads it, so a playbook
  may repeat a Push that failed before with the same reader, and opens its data anew ("reopen")
  after `ErrPushingDataToMinio`. An object put from a spent reader is not `whole`.
* Ids are fresh for every attempt (`uuid.NewRandom`); where none can be had (`NewIDFails`) the Push fails
  before anything is read. An attempt whose answer was lost leaves an
  object nobody knows the id of; such objects are in the model.
* `Pull` returns a reader and asks for nothing: whether the object is there shows when the
  playbook reads. The step is that read; one that breaks is repeated.
* `Transfer` binds the two: the id in a message is that of the Push that `carries` names, and a
  Pull looks at the message of the listener that `on` names. The parts meet only in the program,
  so a step is one of `PubSub` or leaves the messages alone - which `ImplementsPubSub` proves.

### The worker pod against the code

* `uid[w]` is the field of the `*Worker`, with the two words of a Go string: `len` and `ptr` say of which
  name each is. `SetUID` stores them one after the other, in either order, and the test of `ReadUID`
  looks at the length only. The test, the two stores and the two reads after them are five steps,
  since other goroutines may write in between. With the words of two names (`Garbled`) a pod may
  be accepted or refused; with a pointer not stored yet the process may die when the pod is
  sent, after which nothing happens. That is a playbook's that shares a `*Worker`, and not in `Dispatcher`.
* `DefaultEnvs` are the names in `defaultEnvs`, and `RequiredEnvs` those that `workerCmd`, `prepareMinio` and
  `prepareRedisClient` read. The password is `REDIS_PASS` there; `REDIS_PASSWORD` (`redis.go:35`) is what the
  container of Redis reads, which the mutant `EnvsOfRedis` mixes up.
* A Go slice is `[own, len, entries]`: while it has not outgrown the array of `defaultEnvs` it is a
  prefix of what everybody appends to (`spare`), and afterwards it has an array of its own.
  `DefaultSpare`, the room past the defaults, is 0 for a composite literal: that is what keeps
  environments apart, and the mutant `PreallocatedSpare` shows what it would cost otherwise.
* `gFilesMap`, `vols`: the groups of the worker in hand and the mounts made of them. The range over
  the map is in any order; of two files with one name in one directory either may win
  (`BinaryData`).
* `Accepted` is the API server's validation, external: container names differ, and so do the paths
  of a container's mounts.

### start and logs against the code

* `stage[s]`: the next call of start `s`; "done" is exit code 0 and "exited" is 1. A call fails,
  or the deadline passes, before or after it was carried out.
* `registry[i]`: whose build is under image name `i`. The registry is open to everybody
  (`ttl.sh`); only the UUID in the name keeps builds apart.
* `build`, `worker`: whose build the dispatcher's and the workers' containers were started from. The
  pod of the workers has a name from the playbook, so tests in one namespace compete for it.
* `menu`: the next step of the loop in `logsCmd`. `Refresh` is an empty line, the end of the input,
  or a line that is no number. `notified`, `stop`: a channel is registered for signals, and the latest
  one holds one. Registrations are never undone, so a signal at the menu goes into a
  channel that nobody reads any more.
* `copiers`: the goroutines in `io.Copy`; `open`: the streams not yet closed.

## 3. Runs

| run | shows |
|---|---|
| `dispatcher_races` | two node sets, a broken call anywhere: one installer each, services after backends; every run ends, and node sets that do not overlap are all deployed |
| `dispatcher_faults` | three node sets - one nil, one with a nil worker, one that may be refused -, nodes without addresses, no volume, one broken call anywhere, a second run: types, usable pods, bounded volumes, crashes only with a cause, stranded backends stay stranded, refinement of `Deployment` |
| `dispatcher_alone` | a node set that has the services to itself, beside one without workers, is deployed through two evictions; a cancelled context ends every wait, with backends that may never come up |
| `registry_safe` | two workers, each of which may fail before SetIP, after it or not at all, two replicas, two losses, two broken commands, contexts that end, two runs: types, traced addresses, the barrier |
| `registry_live` | two workers, two replicas, a loss, a broken command, contexts that end: waits end when their context does; on one Redis without trouble they end when the address is set, and all meet |
| `pubsub_stream` | two senders, a worker that receives twice and then sets a global handler, calls of another kind in between, two replicas, a break anywhere: types, order, heard messages, refinement of `OneShot` |
| `transfer` | three workers push at once, two hand data to each other and back, two broken calls to the store: ids resolve, pulls are right, the race costs one failure, the exchange ends |
| `pod_spec` | four node sets at once, two of which share a worker, one empty; a UID the playbook gave that is another's default, `WORKER_UID` among a worker's own variables, files that share a directory and a name; a broken call |
| `console` | two starts that may fail anywhere, and a user who lists, chooses, follows and interrupts, two logs long |
| `none_deployed` | *violated*: a run is announced as deployed with no pod at all, and no call broke |
| `volume_without_claim` | *violated*: having created a volume, the dispatcher panics before it makes the claim |
| `handler_not_set_yet` | *violated*: a message published after `OnReceive` returned is lost |

**Bounds.** The sizes of `NodeSets`, `Workers`, `Nodes` and `Starts`; `MaxFaults` and `MaxStoreFaults` broken
calls, `MaxEvictions` evictions, `MaxLosses` losses, `MaxRuns` starts, `MaxFollows` logs. Two goroutines are
enough for every race on one name, and `dispatcher_faults` has three. One broken call at any place
gives every half installation; two runs are enough to meet what a run left. Two replicas
are enough for a client on the wrong one; two workers, since what one gets of
another involves no third (`CameIn` is about pairs), and `TheAbsentAreNotMet` has it for all; in `registry_safe`
workers and replicas may be permuted (symmetry), as no constant tells them apart. The length of `log` is bounded by the programs. Three Pushes are enough for one to find
the bucket while two race for it, and two broken calls for one to fail twice. Two builds are enough to
mix up, and two logs for a signal that reaches an older channel and a copier that outlives its log.
`pod_spec` has one instance of each case the code tells apart; `PodSpecProofs` has the rest.

**Deadlock.** Checked, with `Stopped` or `Ended` as the one state in which nothing is left to do,
except in `pubsub_stream` and `handler_not_set_yet` (a `Receive` or an `Await` may rightly wait
for ever: a sender died, or the message was lost) and in `console` (a user may leave, and tests end).

**Fairness.** `Scheduling`: weak fairness of `RunTest` and of each goroutine - the Go
scheduler runs what is runnable, and client-go calls return. `ComesUp(d)`: a deployed
backend becomes ready and its service reachable - the controllers' job, assumed in
`FairSpec`, and as the premise of `LoneNodeSetIsDeployed`; `SchedSpec`, under which
`CancelEndsRun` is checked, assumes it of neither. The registry's
`FairSpec` has weak fairness of each worker: containers are scheduled, tickers tick, commands
return. That of the messages has it for each playbook and for each subscription,
whose steps are a goroutine's or Redis'; `FairTransferSpec` adds each Push and Pull, which repeat what
failed. In `console` the menu's loop is scheduled, and a copier whose stream was closed; the user owes
nothing, and a log may go on for ever. Evictions, breaks, losses, cancellation, interrupts and
the autoscaler are never fair.

`AllMeet`, `WaitEndsOnOneRedis`, `SerialRunsDeployAll` and `LoneNodeSetIsDeployed` are implications whose
premises (no loss, no break, one replica; no overlap; nobody cancels, backends come up) are met by
behaviours of their runs: the mutants listed for them violate them under the same premises.

### Where the code and its words disagree

Three are runs (above, and `findings` in PROJECT.json). Others met while modelling, which the
modules contain, but no run states:

* `dispatcher.go:51` logs that all worker nodes are deployed when all goroutines have *returned*;
  one whose `Create` lost a race has returned with an error.
* `node_set.go:53` speaks of "two different go routines"; the closures are called in turn, so MinIO is
  set up only after Redis.
* `node_set.go:32` logs the error about a nil node set by reading its `UID`, and panics.
* `message.go:83` and `:137` let a wait end by the value or the context only; any other error of
  `Get` ends it too. And a wait may not end at all: with the autoscaler of `redis.go:106` a worker
  may ask another replica than the one that has the address, and a Redis pod that was replaced holds
  none, and nobody sets one twice. `WaitEndsOnOneRedis` says what it takes.
* `message.go:82`: an address may be that of the pod that had the UID in an earlier
  run; keys live for 24 hours.
* `message.go:37`: a handler is called for the first message only; those that arrive while
  the subscription is taken down were counted as received and are dropped.
* `message.go:29`: the channels of worker `n-w1` with key `0q` and of `n-w10` with key `q` are one.

* `minio.go:62`: the `Expires` header says when a cached copy is stale; MinIO removes nothing because of it.
* `minio.go:73`: `Pull` of an id that does not exist returns a reader and no error.
* `minio.go:60`: a PutObject that failed has read from the reader; the next Push with the same reader
  stores what is left. An answer that is lost leaves an object without a known id.
* `node_set.go:120`: a default name may be one the playbook gave to another worker; two workers of one
  pod are then refused, and two of different pods share their keys in Redis.
* `start.go:72` prints the logs "even if the deploy fails"; `Deploy` returns none with an error.
* `deployer.go:69` makes a Role and binds it to nobody.
* `deployer.go:93`: a container that is not started yet has no logs; `start` then exits with 1 although
  the pod is there and the test will run. So `ZeroMeansStarted` has no converse.
* `logs.go:43` takes the kubeconfig of the start command's flags.
* `logs.go:57` defers a `cancel` in a loop that does not return.
* `logs.go:96`: at the end of the input `Scan` returns false for ever; the menu shows itself without end
  (`Refresh`), where `:99` speaks of the Enter key.
* `logs.go:131`: an interrupt at the menu does nothing once a log was followed; before, it ends the
  command.
* `logs.go:115`: a pod may have been replaced by one of the same name since the menu was shown; what is
  opened then has the name on the screen, not more.

## 4. Proofs

TLC evaluates the assumptions of the constants (`ClusterAssumption`, `NodeSetsAssumption`,
`PlaybookAssumption`, `RegistryAssumption`, `PubSubAssumption`, `StoreAssumption`,
`TransferAssumption`, `PodSpecAssumption`, `StartAssumption`, `LogsAssumption`) in the runs. All
are used. They say that the sets are finite, that markers such as `Nobody` are no members, and of which type the
tables are; `TransferAssumption` also says that messages on one channel all carry ids or none does.

**Dispatcher**, for every finite set of node sets, every `Mounts`, every number of broken
calls, evictions, volumes and runs:

* `TypeCorrect`. `wg \in Nat` is not inductive: `CreatePod` and `Report` take one
  off. It needs `wg = Cardinality(Active)`, the goroutines that have started and not
  finished. `Control` condenses the next-state relation to five shapes as seen
  from the WaitGroup; counting is then three set-cardinality facts.
* `ImplementsDeployment` (refinement). Uses the count (`wg = 0` means nobody is busy) and
  `SpawnedInv` (who is idle, and whom `Rerun` may start, at each place of `main`): together, at
  `Announce` all are settled.
* `OneInstaller`, `ServicesFollowBackends`. `RedisInv` and `MinioInv`: a goroutine
  inside an installation has created the deployment, so the deployment exists, so
  nobody else's Create can succeed. Each half disturbs only its own invariant
  (`RedisInvFrame`, `MinioInvFrame`), and `Aside` covers all other steps at once.
* `StrandedForGood` (action property): the only step that creates the service is the
  installer's.
* `FewVolumes`: `pvs` plus the goroutines about to make a volume never exceeds the
  number of node sets, because one gets there only after seeing none.
* `PodsAreUsable`: `SeenInv` (no error slot set means the services were seen, and
  objects never disappear) and `MountedInv` (a pod's volumes are this run's ConfigMaps).
* `WaitsAreForWhatExists`, the safety half of `RunEnds`: `RedisInv` and `MinioInv` again, which say at each
  wait what was created or found before it.
* `CrashesHaveCauses`: the process ends at one of four dereferences, or over `ErrCreatingService` wrapping
  itself, which takes a broken call or a context that is done. The hard case is the stack
  overflow: that `e.Error()` returns is a fact about the
  recursive function in `Prints`. `CausesInv`: the shared variables wrap each other in one order only
  (`WrapsInOrder`), but for that one variable (`Tangled`), and it cannot wrap itself by conflicts alone
  (`FreshService`). That every such chain has ended at its last link is shown on the
  least link that differs (`LeastNumber`), as an induction theorem that takes an operator is out of
  reach. `LoggedInv` covers the volume nobody claims.
* `CalmAnnouncementsHold`, the safety half of `SerialRunsDeployAll`, on nodes that have addresses and
  for playbooks without nil workers. `CalmInv`: while the node sets do not
  overlap and nothing breaks, whatever is begun is finished before another looks at it
  (`ServedAlone`), so error slots stay empty and `Create` succeeds. Its premise `Calm` is about every state of a
  behaviour, and met when the scheduler runs the goroutines in turn; the run
  `dispatcher_races` has such behaviours (the mutant of `SerialRunsDeployAll` is caught on one).

**Registry**, for any workers, replicas, failures, losses and reruns:

* `AddressesAreTraced`. The strengthening `Traced` says the same of the stores: what a replica
  holds under a key, the owner of the key has registered. A `Get` copies from there.
* `TheAbsentAreNotMet`: whoever finishes, in the first run or with an address of its own run, has met a peer
  that passed its early checks and whose SetIP was carried out. A worker before SetIP has registered
  nothing of its run (`UnregisteredYet`), nor has one that failed its early checks; whoever finished
  knows all (`FinishedKnows`), and with `Traced` only registered addresses.
  The peer may have ended since: a SetIP whose answer is lost ends the worker and leaves the address.
* `WhatIsSetIsFound`, `TheQuietDoNotFail`, the safety halves of `WaitEndsOnOneRedis` and `AllMeet`. With
  one replica up in every state it is always the same one, every connection leads there, and what was set
  stays; hence a `Get` that fails has asked for what was not set yet, and the playbook asks again.

**Messages**, for every program, number of nodes, replicas and breaks:

* `ReceivesAreOrdered`. A worker's own calls come in order, so a later subscription is opened only
  when an earlier `Receive` has its message (`Stage`, `Place`); what a subscription
  holds was published since it was opened, hence after that message (`Order`).
* `NilIsHeard`: the message of a Send that returned `nil`, its latest attempt (`LatestOf`), was pushed to a
  subscription of its channel (`PushedTo`). A Send returns `nil` only where one hears it, no later step
  of its sender is an attempt of that Send (`LatestStays`), and what was pushed stays in the queue or was
  read (`PushedStays`).
* `ImplementsOneShot` (refinement). The cell is what was read, or else the head of the
  queue of a subscription that still listens; every step opens, fills, reads or drops cells, or is
  invisible.

**Object store**, for every number of workers, calls, replicas and broken calls:

* `ImplementsPubSub` (refinement). A Push or a Pull is an `Other` call to the messages, or invisible:
  the three theorems on messages carry over to workers that transfer data.
* `IDsStayResolved`. `Kept`: an id that was returned stands for one whole object and for no other.
  Needs `Unread`: whoever is about to put has a reader nobody has read from.
* `RaceCostsOne`. `Lost`: who has lost a race has seen the bucket, and never makes it again.
* `PullsReadWhatWasPushed`. `Channelled`: what a subscription holds is of its channel, hence (by
  `TransferAssumption`) carries an id; `GotIsFinal`: the message a listener got stays what it was;
  `Kept` does the rest.
* `ToldDataIsThere`, the safety half of `TransferEnds`. `PushedFirst`: a worker is past a Push only once it has
  returned an id; `ToldLater`: a message is in the log only after the Push it tells of has returned. With
  `Kept`, that id names the whole object from then on, so nobody is told of data that is not there.

**Pod specification**, for every playbook - any workers, in any number of node sets, any files, any
variables - and any interleaving of the goroutines:

* One invariant carries all six theorems: `UIDs` (a given UID is never written, and the words of another are
  those of defaults of the worker's own places), `UIDRead` (what its goroutine has seen of it is still so: the
  length is not zero, and of a worker in one place both words are its own), `Untouched` (nobody has
  written the UID of such a worker before its turn), `EnvFor` (the environment is its own array with the worker's entries), `MountingFor` (every file is in a group that
  is left or in a mount that was made, and no directory is in both), `Finished` (all that of every
  container that was added). `Local` reduces each step to the node set that took it, since everything
  but `uid` belongs to one.
* `BootAsNamed` holds for shared workers too: what `UIDsOf` allows there is the length of one of the worker's own
  names, never zero, and the pointer of one or none. For all others it is one name, the same in the container
  and in the environment.
* `ClearNames` is pure: default names are places, so two that were not given away differ.
  `PodsRefusedForCause` needs it for `Create`, and `OneMountPerDir` for the mounts.

**Console**, for any number of starts in one namespace and of logs:

* `BuildsAreOwn`, `ZeroIsTrue`. `StartsInOrder`: each call of a start is made only after the one before
  succeeded, and nobody else writes the name its build is under, so whoever pulls that name at any later time
  gets that build. `WorkerOfOne`: the workers' pod belongs to one test at a time, and runs its build.
* `ScreenIsTrue`. Numbers on the screen are those of the list the menu read (`ScreenInv`); it is used with
  finitely many tests, so that they can be numbered.
* `NoStreamLeftOpen`. `OneStream`: only the log that is followed has an open stream; those of earlier logs
  were closed by their loops, whether or not their copiers have ended.
* `InterruptsAreKept`, `OnlyInterruptsEndALog`. `InterruptIsKept`: while a log is followed, the latest channel holds
  a signal if and only if one came since it was registered. One direction is the safety half of
  `InterruptReturns`, the other says why a log is left.

Only model-checked: all liveness, which is beyond the prover. It holds under fairness, and TLC checks it on
the instances of section 3. Of most of it the half that no state goes wrong is proved: for `RunEnds`
`WaitsAreForWhatExists`, for `SerialRunsDeployAll` `CalmAnnouncementsHold`, for `AllMeet`
`TheQuietDoNotFail`, for `WaitEndsOnOneRedis` `WhatIsSetIsFound`, for `TransferEnds` `ToldDataIsThere`,
for `InterruptReturns` `InterruptsAreKept`, for `QuietMenu` `NoStreamLeftOpen`. `CancelEndsRun`,
`LoneNodeSetIsDeployed` and `CtxEndsWait` have none.

## 5. Plan

Done, in this order: the dispatcher, its theorems and `Deployment`; `Registry` and its theorems; `PubSub` and
`OneShot`, theorems and refinement; `PodSpec` and its theorems; `ObjectStore` and `Transfer`, theorems and
the refinement of `PubSub`; `StartCommand` and `LogsMenu`; the causes of crashes, the console, and the
safety halves of the liveness properties.

Next:

1. The safety half of `LoneNodeSetIsDeployed`: with the services to itself a node set never has an error
   slot set, through any number of evictions.
2. `TransferEnds` once more with a break of a message, on a program that sends again what was not answered.

## 6. Not modelled

* `BitTwister`: each setter stores a value in a loader of another repository and calls its `Start`.
  What a second `Start` or the returned cancel function does to the network is decided there; nothing of
  it is in this repository, so a model would be about code that is not here.
* The command line (`root.go`, `testwave.go`, `utils.go`), `constants`, the playbook interface: wiring,
  flags, formatting. A playbook appears as a constant (`Program`, `Set`, `Files`, ...) instead.
* `Minio.URL` signs a string, and asks for nothing.
* What a message or a file contains, the colours and ages of the menu, the text of logs.
* Other parts of Kubernetes than those `pkg/dispatcher` and `pkg/deployer` use; Redis and MinIO beyond the
  commands sent to them.
