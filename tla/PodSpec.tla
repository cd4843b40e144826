------------------------------ MODULE PodSpec -------------------------------
(***************************************************************************)
(* What createPodForNodeSet puts into a worker pod (node_set.go in         *)
(* pkg/dispatcher), once the shared services are there: a container per    *)
(* worker with its name, its environment and the mounts of its files.      *)
(*                                                                         *)
(* The node sets are built at the same time, one goroutine each, over      *)
(* *Worker values that belong to the playbook; nothing keeps a playbook    *)
(* from putting one *Worker into two node sets.  Its UID is then written   *)
(* and read without order: a Go string is two words, a length and a        *)
(* pointer, and they are stored one after the other.  An environment is a  *)
(* Go slice: where append finds room it writes into the array it was       *)
(* given, and the first append of every worker is given the array of       *)
(* defaultEnvs.                                                            *)
(***************************************************************************)
EXTENDS Integers, Sequences, FiniteSets

CONSTANTS
  NodeSets,
  Workers,    \* the *Worker values of the playbook
  Set,        \* Set[g]: the workers of node set g, in order
  GivenUID,   \* GivenUID[w]: the UID the playbook gave w, or NoUID
  NoUID,
  UserEnvs,   \* UserEnvs[w]: the names in w.Envs, as the range meets them
  Files,      \* Files[w]: w.Files, [src, dir, base] for a file to mount
  MaxFaults   \* bound: files that do not open and calls that break

\* Every place a worker has in a node set.
Places == UNION {{g} \X DOMAIN Set[g] : g \in NodeSets}

ASSUME PodSpecAssumption ==
  /\ Set \in [NodeSets -> Seq(Workers)]
  /\ GivenUID = [w \in Workers |-> GivenUID[w]]
  /\ NoUID \notin Places
  /\ UserEnvs \in [Workers -> Seq(STRING)]
  /\ \A w \in Workers : \A f \in Files[w] : f = [src |-> f.src, dir |-> f.dir, base |-> f.base]
  /\ MaxFaults \in Nat

VARIABLES
  pc,          \* pc[g]: the next step of g
  uid,         \* uid[w]: the field UID of w, [len, ptr]: whose each word is
  at,          \* at[g]: the place in Set[g] of the worker in hand
  spare,       \* spare[g]: what was appended into the array of defaultEnvs
  wEnvs,       \* wEnvs[g]: the environment of the worker in hand
  gFilesMap,   \* gFilesMap[g]: the groups of its files yet to be mounted
  vols,        \* vols[g]: its mounts so far, each over a ConfigMap
  containers,  \* containers[g]: pod.Spec.Containers
  pods,        \* node sets whose pod was created
  faults

buildVars == <<spare, wEnvs, gFilesMap, vols>>
vars == <<pc, uid, at, buildVars, containers, pods, faults>>

Worker(g) == Set[g][at[g]]
Goto(g, step) == pc' = [pc EXCEPT ![g] = step]

-----------------------------------------------------------------------------
(* A Go slice that started as the array of defaultEnvs: past the defaults  *)
(* it is either a prefix of what others also append to, or an array of its *)
(* own.                                                                    *)

\* Mutant: defaultEnvs is made with room for the worker's own entries.
PreallocatedSpare == 2

\* A composite literal has no room past its length.
DefaultSpare == 0

NoEnvs == [own |-> FALSE, len |-> 0, entries |-> <<>>]

\* What a slice holds after the defaults, read now.
Entries(g, slice) ==
  IF slice.own THEN slice.entries ELSE SubSeq(spare[g], 1, slice.len)

AppendAll(entries) ==
  [own     |-> Len(entries) > DefaultSpare,
   len     |-> Len(entries),
   entries |-> IF Len(entries) > DefaultSpare THEN entries ELSE <<>>]

\* The array of defaultEnvs after entries were appended to it one by one.
WrittenOver(array, entries) ==
  LET n == IF Len(entries) < DefaultSpare THEN Len(entries) ELSE DefaultSpare IN
  SubSeq(entries, 1, n) \o SubSeq(array, n + 1, Len(array))

\* Mutant: the password goes under the name that the Redis container reads.
EnvsOfRedis ==
  {"TEST_PLAN", "POD_UID", "MINIO_ENDPOINT", "MINIO_ACCESS_KEY",
   "MINIO_SECRET_KEY", "REDIS_ADDR", "REDIS_DB", "REDIS_PASSWORD"}

\* The names in defaultEnvs.
DefaultEnvs ==
  {"TEST_PLAN", "POD_UID", "MINIO_ENDPOINT", "MINIO_ACCESS_KEY",
   "MINIO_SECRET_KEY", "REDIS_ADDR", "REDIS_DB", "REDIS_PASS"}

-----------------------------------------------------------------------------
(* createPodForNodeSet, one turn of the loop per worker.                   *)

\* A string whose words belong together.
Text(name) == [len |-> name, ptr |-> name]

Init ==
  /\ pc = [g \in NodeSets |-> IF Set[g] = <<>> THEN "failed" ELSE "readUID"]
  /\ uid = [w \in Workers |-> Text(GivenUID[w])]
  /\ at = [g \in NodeSets |-> 1]
  /\ spare = [g \in NodeSets |-> <<>>]
  /\ wEnvs = [g \in NodeSets |-> NoEnvs]
  /\ gFilesMap = [g \in NodeSets |-> {}]
  /\ vols = [g \in NodeSets |-> {}]
  /\ containers = [g \in NodeSets |-> <<>>]
  /\ pods = {}
  /\ faults = 0

\* A string is empty when its length is zero.
ReadUID(g) ==
  /\ pc[g] = "readUID"
  /\ Goto(g, IF uid[Worker(g)].len = NoUID THEN "setUID" ELSE "appendEnvs")
  /\ UNCHANGED <<uid, at, buildVars, containers, pods, faults>>

\* Mutant: the default UID leaves the node set out.
IndexOnly(g) == <<CHOOSE n \in NodeSets : TRUE, at[g]>>

\* "%s-w%d" of the node set and the index.
DefaultUID(g) == <<g, at[g]>>

\* The words are stored in the order the build chooses.
SetUID(g) ==
  /\ \/ pc[g] = "setUID" /\ uid' = [uid EXCEPT ![Worker(g)].len = DefaultUID(g)] /\ Goto(g, "setPtr")
     \/ pc[g] = "setUID" /\ uid' = [uid EXCEPT ![Worker(g)].ptr = DefaultUID(g)] /\ Goto(g, "setLen")
     \/ pc[g] = "setLen" /\ uid' = [uid EXCEPT ![Worker(g)].len = DefaultUID(g)] /\ Goto(g, "appendEnvs")
     \/ pc[g] = "setPtr" /\ uid' = [uid EXCEPT ![Worker(g)].ptr = DefaultUID(g)] /\ Goto(g, "appendEnvs")
  /\ UNCHANGED <<at, buildVars, containers, pods, faults>>

\* Mutant: every file gets a ConfigMap of its own.
GroupsOfOne(w) == {{f} : f \in Files[w]}

\* groupMountPoints: the files of one directory share a ConfigMap.
groupMountPoints(w) == {{f \in Files[w] : f.dir = e.dir} : e \in Files[w]}

UserEntries(w) == [i \in DOMAIN UserEnvs[w] |-> [name |-> UserEnvs[w][i], value |-> w]]

\* The worker's UID, then what the playbook gave it.
AppendEnvs(g) ==
  LET w       == Worker(g)
      entries == <<[name |-> "WORKER_UID", value |-> uid[w]]>> \o UserEntries(w)
  IN
  /\ pc[g] = "appendEnvs"
  /\ wEnvs' = [wEnvs EXCEPT ![g] = AppendAll(entries)]
  /\ spare' = [spare EXCEPT ![g] = WrittenOver(@, entries)]
  /\ gFilesMap' = [gFilesMap EXCEPT ![g] = groupMountPoints(w)]
  /\ vols' = [vols EXCEPT ![g] = {}]
  /\ Goto(g, "addFiles")
  /\ UNCHANGED <<uid, at, containers, pods, faults>>

\* What a ConfigMap can hold for a group: a file per name.
BinaryData(group) ==
  {data \in [{f.base : f \in group} -> {f.src : f \in group}] :
     \A b \in DOMAIN data : \E f \in group : f.base = b /\ f.src = data[b]}

Fails(g) ==
  /\ faults < MaxFaults
  /\ faults' = faults + 1
  /\ Goto(g, "failed")

\* One turn of the loop of AddFilesToPod.  A file may not open, and the
\* ConfigMap may not be created.
AddFiles(g) ==
  /\ pc[g] = "addFiles"
  /\ \E group \in gFilesMap[g] :
       \/ \E data \in BinaryData(group), f \in group :
            /\ vols' = [vols EXCEPT ![g] = @ \cup {[dir |-> f.dir, files |-> data]}]
            /\ gFilesMap' = [gFilesMap EXCEPT ![g] = @ \ {group}]
            /\ UNCHANGED <<pc, faults>>
       \/ Fails(g) /\ UNCHANGED <<gFilesMap, vols>>
  /\ UNCHANGED <<uid, at, spare, wEnvs, containers, pods>>

\* Mutant: the container mounts what the pod has, the files of the workers
\* before it included.
MountsOfPod(g) ==
  [name |-> uid[Worker(g)], env |-> wEnvs[g],
   mounts |-> vols[g] \cup UNION {containers[g][i].mounts : i \in DOMAIN containers[g]}]

Container(g) == [name |-> uid[Worker(g)], env |-> wEnvs[g], mounts |-> vols[g]]

\* Mutant: the index goes on past the last worker.
AddContainerAndCount(g) ==
  /\ pc[g] = "addFiles"
  /\ gFilesMap[g] = {}
  /\ containers' = [containers EXCEPT ![g] = Append(@, Container(g))]
  /\ Goto(g, IF at[g] = Len(Set[g]) THEN "create" ELSE "readUID")
  /\ at' = [at EXCEPT ![g] = @ + 1]
  /\ UNCHANGED <<uid, buildVars, pods, faults>>

AddContainer(g) ==
  /\ pc[g] = "addFiles"
  /\ gFilesMap[g] = {}
  /\ containers' = [containers EXCEPT ![g] = Append(@, Container(g))]
  /\ IF at[g] = Len(Set[g])
     THEN Goto(g, "create") /\ UNCHANGED at
     ELSE Goto(g, "readUID") /\ at' = [at EXCEPT ![g] = @ + 1]
  /\ UNCHANGED <<uid, buildVars, pods, faults>>

\* The API server wants the names of a pod's containers, and the paths of a
\* container's mounts, to differ.
Accepted(g) ==
  LET cs == containers[g] IN
  /\ \A i, j \in DOMAIN cs : cs[i].name = cs[j].name => i = j
  /\ \A i \in DOMAIN cs : \A m, n \in cs[i].mounts : m.dir = n.dir => m = n

\* A container got the length of one name and the pointer of another, or of
\* none.  Such a text may be a name as well as not; one without a pointer may
\* also end the process when the pod is sent, and nothing happens then.
Garbled(g) ==
  \E i \in DOMAIN containers[g] :
    LET name == containers[g][i].name IN name.len # name.ptr

\* Pods().Create in DeployNodeSet.
Create(g) ==
  /\ pc[g] = "create"
  /\ \/ Accepted(g) /\ pods' = pods \cup {g} /\ Goto(g, "created") /\ UNCHANGED faults
     \/ /\ ~Accepted(g) \/ Garbled(g)
        /\ Goto(g, "failed") /\ UNCHANGED <<pods, faults>>
     \/ Fails(g) /\ pods' \in {pods, IF Accepted(g) THEN pods \cup {g} ELSE pods}
  /\ UNCHANGED <<uid, at, buildVars, containers>>

DeployNodeSet(g) ==
  \/ ReadUID(g) \/ SetUID(g) \/ AppendEnvs(g)
  \/ AddFiles(g) \/ AddContainer(g) \/ Create(g)

Ended == (\A g \in NodeSets : pc[g] \in {"created", "failed"}) /\ UNCHANGED vars

Next == (\E g \in NodeSets : DeployNodeSet(g)) \/ Ended

Spec == Init /\ [][Next]_vars
=============================================================================
