------------------------- MODULE PodSpecProperties --------------------------
(* What the pods of a playbook promise to the workers that start in them.  *)
EXTENDS PodSpec

TypeOK ==
  /\ pc \in [NodeSets -> {"readUID", "setUID", "setLen", "setPtr", "appendEnvs",
                          "addFiles", "create", "created", "failed"}]
  /\ DOMAIN uid = Workers
  /\ \A g \in NodeSets : Set[g] # <<>> => at[g] \in DOMAIN Set[g]
  /\ DOMAIN containers = NodeSets
  /\ pods \subseteq NodeSets
  /\ faults \in 0..MaxFaults

WorkerAt(p) == Set[p[1]][p[2]]

\* The worker is in one place only, so that one goroutine reads its UID.
Alone(w) == \A p, q \in Places : WorkerAt(p) = w /\ WorkerAt(q) = w => p = q

\* The container built for a place, and its entries past the defaults.
Built == {p \in Places : p[2] \in DOMAIN containers[p[1]]}
ContainerAt(p) == containers[p[1]][p[2]]
EnvAt(p) == Entries(p[1], ContainerAt(p).env)

\* EnvIsOwn: every container's environment still is the one that was put
\* together for its own worker -- the appends for a later worker of the node
\* set, which start from the same defaultEnvs, write into none of it.
EnvIsOwn ==
  \A p \in Built :
    LET env == EnvAt(p) IN
    /\ Len(env) = 1 + Len(UserEnvs[WorkerAt(p)])
    /\ env[1].name = "WORKER_UID"
    /\ Tail(env) = UserEntries(WorkerAt(p))

\* What workerCmd, prepareMinio and prepareRedisClient read.
RequiredEnvs ==
  {"TEST_PLAN", "WORKER_UID", "MINIO_ENDPOINT", "MINIO_ACCESS_KEY",
   "MINIO_SECRET_KEY", "REDIS_ADDR", "REDIS_DB", "REDIS_PASS"}

\* The value a container starts with: of two entries the later one counts.
StartsWith(env, name, value) ==
  \E i \in DOMAIN env :
    /\ env[i] = [name |-> name, value |-> value]
    /\ \A j \in DOMAIN env : env[j].name = name => j <= i

\* What the UID of the worker at p may read as: the one the playbook gave
\* it, the default of its place, or, where several places write defaults
\* into one worker at the same time, two words of theirs -- with the length
\* of one of them, and a pointer that may not have been stored yet.
UIDsOf(p) ==
  LET w    == WorkerAt(p)
      mine == {q \in Places : WorkerAt(q) = w}
  IN
  IF GivenUID[w] # NoUID THEN {Text(GivenUID[w])}
  ELSE IF Alone(w) THEN {Text(p)}
  ELSE [len : mine, ptr : mine \cup {NoUID}]

\* BootsAsNamed: a worker finds in its environment all that the worker
\* command reads before it starts.  Unless it renames itself through Envs,
\* it starts under a UID of its own, and so is its container named: the UID
\* that the playbook gave it or the default of its place, the same in both,
\* and for a worker that is in several node sets never an empty UID, nor
\* any part of the UID of another worker.
BootsAsNamed ==
  \A p \in Built :
    LET envs == UserEnvs[WorkerAt(p)]  env == EnvAt(p) IN
    /\ RequiredEnvs \subseteq DefaultEnvs \cup {env[i].name : i \in DOMAIN env}
    /\ ContainerAt(p).name \in UIDsOf(p)
    /\ (\A i \in DOMAIN envs : envs[i] # "WORKER_UID") =>
         \E name \in UIDsOf(p) : StartsWith(env, "WORKER_UID", name)

\* No other worker was given the name w goes by, a default one included.
Clear(p) ==
  /\ Alone(WorkerAt(p))
  /\ \A q \in Places \ {p} :
       /\ GivenUID[WorkerAt(q)] # NoUID =>
            GivenUID[WorkerAt(q)] \notin {p, GivenUID[WorkerAt(p)]}
       /\ GivenUID[WorkerAt(p)] # q

\* NamesIdentify: workers of one test have different names across all its
\* node sets -- the name is the worker's key and channel in Redis -- unless
\* the playbook itself gave two of them one name.
NamesIdentify ==
  \A p, q \in Built :
    Clear(p) /\ Clear(q) /\ ContainerAt(p).name = ContainerAt(q).name => p = q

\* RefusedForCause: a pod that was built is not refused for what the
\* dispatcher put into it: a node set fails because it is empty, because a
\* file or a call failed, or because the playbook gave a name twice.
RefusedForCause ==
  \A g \in NodeSets : pc[g] = "failed" =>
    \/ Set[g] = <<>>
    \/ faults > 0
    \/ \E i \in DOMAIN Set[g] : ~Clear(<<g, i>>)

\* FilesArrive: a container sees at every path its worker asked for a file
\* that was to go there, and no file of another worker of the pod.
FilesArrive ==
  \A p \in Built :
    LET mounts == ContainerAt(p).mounts  files == Files[WorkerAt(p)] IN
    /\ \A f \in files : \E m \in mounts :
         m.dir = f.dir /\ f.base \in DOMAIN m.files
    /\ \A m \in mounts : \A b \in DOMAIN m.files :
         [src |-> m.files[b], dir |-> m.dir, base |-> b] \in files
=============================================================================
