--------------------------- MODULE PodSpecProofs ----------------------------
(***************************************************************************)
(* What a worker pod promises to its workers, for every playbook, any      *)
(* number of node sets that are built at once, and workers that are in     *)
(* several of them.                                                        *)
(***************************************************************************)
EXTENDS PodSpecProperties, TLAPS

\* The name the container of a worker should have.
NameOf(p) == IF GivenUID[WorkerAt(p)] = NoUID THEN p ELSE GivenUID[WorkerAt(p)]

\* What createPodForNodeSet appends to the defaults, given the UID it read.
EntriesOf(v, w) == <<[name |-> "WORKER_UID", value |-> v]>> \o UserEntries(w)

Names == Places \cup {GivenUID[w] : w \in Workers}
Texts == [len : Names, ptr : Names]
Entry == [name : {"WORKER_UID"} \cup STRING, value : Texts \cup Workers]
Slices == [own : BOOLEAN, len : Nat, entries : Seq(Entry)]

\* The mounts that the files of a worker can become.
MountsOf(w) ==
  UNION {{[dir |-> f.dir, files |-> data] : f \in group, data \in BinaryData(group)} :
           group \in groupMountPoints(w)}
AllMounts == UNION {MountsOf(w) : w \in Workers}

LEMMA TextFacts ==
  ASSUME NEW m, NEW n
  PROVE  /\ Text(n).len = n /\ Text(n).ptr = n
         /\ Text(m) = Text(n) => m = n
<1>1. \A x : Text(x).len = x /\ Text(x).ptr = x
  BY DEF Text
<1> QED BY <1>1

LEMMA EntriesFacts ==
  ASSUME NEW w \in Workers, NEW v \in Texts
  PROVE  /\ UserEntries(w) \in Seq(Entry) /\ EntriesOf(v, w) \in Seq(Entry)
         /\ Len(EntriesOf(v, w)) = 1 + Len(UserEnvs[w]) /\ Len(UserEnvs[w]) \in Nat
         /\ EntriesOf(v, w)[1] = [name |-> "WORKER_UID", value |-> v]
         /\ \A j \in DOMAIN EntriesOf(v, w) : j # 1 =>
              j - 1 \in DOMAIN UserEnvs[w] /\ EntriesOf(v, w)[j].name = UserEnvs[w][j - 1]
         /\ Tail(EntriesOf(v, w)) = UserEntries(w)
<1> DEFINE head == [name |-> "WORKER_UID", value |-> v]
           rest == UserEntries(w)
<1>1. /\ UserEnvs[w] \in Seq(STRING) /\ Len(UserEnvs[w]) \in Nat
      /\ DOMAIN UserEnvs[w] = 1..Len(UserEnvs[w])
  BY PodSpecAssumption DEF PodSpecAssumption
<1>2. head \in Entry /\ <<head>> \in Seq(Entry)
  <2>1. head \in Entry
    BY DEF Entry
  <2> QED BY <2>1
<1>3. /\ rest \in Seq(Entry) /\ Len(rest) = Len(UserEnvs[w])
      /\ \A i \in 1..Len(rest) : rest[i].name = UserEnvs[w][i]
  <2>1. \A i \in DOMAIN UserEnvs[w] : [name |-> UserEnvs[w][i], value |-> w] \in Entry
    BY <1>1 DEF Entry
  <2>2. rest \in [1..Len(UserEnvs[w]) -> Entry]
    BY <1>1, <2>1 DEF UserEntries
  <2> QED BY <1>1, <2>2 DEF UserEntries
<1> HIDE DEF head, rest
<1>4. /\ <<head>> \o rest \in Seq(Entry)
      /\ Len(<<head>> \o rest) = 1 + Len(rest) /\ (<<head>> \o rest)[1] = head
      /\ \A j \in 1..(1 + Len(rest)) : j # 1 => (<<head>> \o rest)[j] = rest[j - 1]
  BY <1>2, <1>3
<1>5. Tail(<<head>> \o rest) = rest
  <2>1. Len(Tail(<<head>> \o rest)) = Len(rest)
    BY <1>2, <1>3, <1>4
  <2>2. \A i \in 1..Len(rest) : Tail(<<head>> \o rest)[i] = rest[i]
    BY <1>2, <1>3, <1>4
  <2>3. Tail(<<head>> \o rest) \in Seq(Entry)
    BY <1>3, <1>4
  <2> QED BY <1>3, <2>1, <2>2, <2>3
<1>6. EntriesOf(v, w) = <<head>> \o rest
  BY DEF EntriesOf, head, rest
<1>7. \A j \in 1..(1 + Len(rest)) : j # 1 =>
        j - 1 \in DOMAIN UserEnvs[w] /\ (<<head>> \o rest)[j].name = UserEnvs[w][j - 1]
  BY <1>1, <1>3, <1>4
<1> QED BY <1>1, <1>3, <1>4, <1>5, <1>6, <1>7 DEF head, rest

-----------------------------------------------------------------------------
(* The invariant.                                                          *)

Steps == {"readUID", "setUID", "setLen", "setPtr", "appendEnvs", "addFiles",
          "create", "created", "failed"}
InLoop == {"readUID", "setUID", "setLen", "setPtr", "appendEnvs", "addFiles"}

\* An environment of its own, put together for the worker at p.
EnvFor(p, env) ==
  /\ env.own
  /\ \E v \in UIDsOf(p) : env.entries = EntriesOf(v, WorkerAt(p))

OneMountPerDir(mounts) == \A m, n \in mounts : m.dir = n.dir => m = n

Mounted(f, mounts) == \E m \in mounts : m.dir = f.dir /\ f.base \in DOMAIN m.files

MountsFor(w, mounts) ==
  /\ mounts \subseteq MountsOf(w)
  /\ OneMountPerDir(mounts)
  /\ \A f \in Files[w] : Mounted(f, mounts)

ContainerFor(p, c) ==
  /\ EnvFor(p, c.env)
  /\ c.name \in UIDsOf(p)
  /\ MountsFor(WorkerAt(p), c.mounts)

GroupOf(f, w) == {e \in Files[w] : e.dir = f.dir}

\* Every file is either in a group that is left or in a mount that was made,
\* and no directory is in both.
MountingFor(w, groups, mounts) ==
  /\ groups \subseteq groupMountPoints(w)
  /\ mounts \subseteq MountsOf(w)
  /\ OneMountPerDir(mounts)
  /\ \A m \in mounts, group \in groups : \A f \in group : f.dir # m.dir
  /\ \A f \in Files[w] : GroupOf(f, w) \in groups \/ Mounted(f, mounts)

Types ==
  /\ pc \in [NodeSets -> Steps]
  /\ uid \in [Workers -> Texts]
  /\ at \in [NodeSets -> Nat]
  /\ DOMAIN spare = NodeSets /\ DOMAIN gFilesMap = NodeSets
  /\ wEnvs \in [NodeSets -> Slices]
  /\ DOMAIN vols = NodeSets
  /\ containers \in [NodeSets -> Seq([name : Texts, env : Slices, mounts : SUBSET AllMounts])]
  /\ pods \subseteq NodeSets
  /\ faults \in 0..MaxFaults

Here(g) == <<g, at[g]>>

\* Where a node set is in its loop.
Turn(g) ==
  /\ pc[g] # "failed" => Set[g] # <<>>
  /\ Set[g] # <<>> => at[g] \in 1..Len(Set[g])
  /\ Len(containers[g]) <= Len(Set[g])
  /\ pc[g] \in InLoop => Len(containers[g]) + 1 = at[g]

\* A UID that is being set was not given, and one that was found or set is
\* not empty.  That of a worker in one place is only ever set by its node
\* set, when its turn has come.
UIDRead(g) ==
  /\ pc[g] \in {"setUID", "setLen", "setPtr"} => GivenUID[Worker(g)] = NoUID
  /\ pc[g] \in {"setPtr", "appendEnvs", "addFiles"} => uid[Worker(g)].len # NoUID
  /\ Alone(Worker(g)) =>
       /\ pc[g] = "setPtr" => uid[Worker(g)].len = Here(g)
       /\ pc[g] = "setLen" => uid[Worker(g)].ptr = Here(g)
       /\ pc[g] \in {"appendEnvs", "addFiles"} => uid[Worker(g)] = Text(NameOf(Here(g)))

\* Those whose turn has not come.
Ahead(g) ==
  {i \in DOMAIN Set[g] : i > at[g] \/ (i = at[g] /\ pc[g] \in {"readUID", "setUID"})}

Untouched(g) ==
  \A i \in Ahead(g) : Alone(Set[g][i]) => uid[Set[g][i]] = Text(GivenUID[Set[g][i]])

UIDsKept(g) == UIDRead(g) /\ Untouched(g)

InHand(g) ==
  pc[g] = "addFiles" =>
    EnvFor(Here(g), wEnvs[g]) /\ MountingFor(Worker(g), gFilesMap[g], vols[g])

Finished(g) == \A i \in DOMAIN containers[g] : ContainerFor(<<g, i>>, containers[g][i])

Failed(g) ==
  pc[g] = "failed" =>
    Set[g] = <<>> \/ faults > 0 \/ \E i \in DOMAIN Set[g] : ~Clear(<<g, i>>)

\* A given UID is never written; the words of another are those of defaults
\* of its own places.
UIDs ==
  \A w \in Workers :
    LET mine == {q \in Places : WorkerAt(q) = w} IN
    IF GivenUID[w] # NoUID THEN uid[w] = Text(GivenUID[w])
    ELSE uid[w] \in [len : mine \cup {NoUID}, ptr : mine \cup {NoUID}]

Own(g) == Turn(g) /\ InHand(g) /\ Finished(g) /\ Failed(g)

Inv ==
  /\ Types /\ UIDs
  /\ \A g \in NodeSets : Own(g) /\ UIDsKept(g)

LEMMA PlaceFacts ==
  ASSUME Types, NEW g \in NodeSets, Turn(g), pc[g] # "failed"
  PROVE  /\ Here(g) \in Places /\ WorkerAt(Here(g)) = Worker(g) /\ Worker(g) \in Workers
         /\ Set[g] \in Seq(Workers) /\ at[g] \in 1..Len(Set[g]) /\ Len(Set[g]) \in Nat
         /\ NameOf(Here(g)) \in Names
<1>1. Set[g] \in Seq(Workers)
  BY PodSpecAssumption DEF PodSpecAssumption
<1>2. at[g] \in 1..Len(Set[g]) /\ Len(Set[g]) \in Nat /\ at[g] \in DOMAIN Set[g]
  BY <1>1 DEF Turn
<1>3. Here(g) \in Places
  BY <1>2 DEF Places, Here
<1>4. Worker(g) \in Workers /\ WorkerAt(Here(g)) = Worker(g)
  BY <1>1, <1>2 DEF Worker, WorkerAt, Here
<1>5. NameOf(Here(g)) \in Names
  BY <1>3, <1>4 DEF NameOf, Names
<1> QED BY <1>1, <1>2, <1>3, <1>4, <1>5

\* What a worker may go by is a text of names, and of its own name alone
\* where it is in one place.
LEMMA UIDsOfFacts ==
  ASSUME NEW p \in Places
  PROVE  /\ WorkerAt(p) \in Workers
         /\ UIDsOf(p) \subseteq Texts
         /\ Alone(WorkerAt(p)) => UIDsOf(p) = {Text(NameOf(p))}
<1>1. WorkerAt(p) \in Workers
  BY PodSpecAssumption DEF PodSpecAssumption, Places, WorkerAt
<1>2. Alone(WorkerAt(p)) => UIDsOf(p) = {Text(NameOf(p))}
  BY DEF UIDsOf, NameOf
<1>3. UIDsOf(p) \subseteq Texts
  <2>1. GivenUID[WorkerAt(p)] \in Names /\ p \in Names
    BY <1>1 DEF Names
  <2>2. \A n \in Names : Text(n) \in Texts
    BY DEF Text, Texts
  <2>3. CASE GivenUID[WorkerAt(p)] # NoUID
    BY <2>1, <2>2, <2>3 DEF UIDsOf
  <2>4. CASE GivenUID[WorkerAt(p)] = NoUID /\ Alone(WorkerAt(p))
    BY <2>1, <2>2, <2>4 DEF UIDsOf
  <2>5. CASE GivenUID[WorkerAt(p)] = NoUID /\ ~Alone(WorkerAt(p))
    <3> DEFINE mine == {q \in Places : WorkerAt(q) = WorkerAt(p)}
    <3>1. UIDsOf(p) = [len : mine, ptr : mine \cup {NoUID}]
      BY <2>5 DEF UIDsOf
    <3>2. mine \subseteq Names /\ NoUID \in Names
      BY <2>1, <2>5 DEF Names
    <3> QED BY <3>1, <3>2 DEF Texts
  <2> QED BY <2>3, <2>4, <2>5
<1> QED BY <1>1, <1>2, <1>3

\* A step of one node set leaves what belongs to the others as it is.
LEMMA OthersOwn ==
  ASSUME Inv, NEW g \in NodeSets, NEW h \in NodeSets \ {g}, faults' \in Nat, faults' >= faults,
         pc'[h] = pc[h], at'[h] = at[h], wEnvs'[h] = wEnvs[h], gFilesMap'[h] = gFilesMap[h],
         vols'[h] = vols[h], containers'[h] = containers[h]
  PROVE  Own(h)'
<1>1. Own(h) /\ faults \in Nat
  BY PodSpecAssumption DEF Inv, Types, PodSpecAssumption
<1>2. Turn(h)' /\ Finished(h)'
  BY <1>1 DEF Own, Turn, Finished
<1>3. Worker(h)' = Worker(h) /\ Here(h)' = Here(h)
  BY DEF Worker, Here
<1>4. InHand(h)'
  BY <1>1, <1>3 DEF Own, InHand
<1>5. Failed(h)'
  <2>1. faults > 0 => faults' > 0
    BY <1>1
  <2>2. Failed(h) /\ (pc'[h] = "failed" <=> pc[h] = "failed")
    BY <1>1 DEF Own
  <2> QED BY <2>1, <2>2, Zenon DEF Failed
<1> QED BY <1>2, <1>4, <1>5 DEF Own
-----------------------------------------------------------------------------
(* The steps.                                                              *)

\* What belongs to the node sets other than g stays.
Aside(g) ==
  \A h \in NodeSets \ {g} :
    /\ pc'[h] = pc[h] /\ at'[h] = at[h] /\ wEnvs'[h] = wEnvs[h]
    /\ gFilesMap'[h] = gFilesMap[h] /\ vols'[h] = vols[h] /\ containers'[h] = containers[h]

LEMMA StepsAside ==
  ASSUME Types, NEW g \in NodeSets, DeployNodeSet(g)
  PROVE  Aside(g) /\ faults' \in 0..MaxFaults /\ faults' >= faults
<1>0. /\ DOMAIN pc = NodeSets /\ DOMAIN at = NodeSets /\ DOMAIN wEnvs = NodeSets
      /\ DOMAIN gFilesMap = NodeSets /\ DOMAIN vols = NodeSets /\ DOMAIN containers = NodeSets
      /\ faults \in 0..MaxFaults /\ MaxFaults \in Nat
  BY PodSpecAssumption DEF Types, PodSpecAssumption
<1>1. CASE ReadUID(g)
  BY <1>0, <1>1 DEF ReadUID, Goto, buildVars, Aside
<1>2. CASE SetUID(g)
  BY <1>0, <1>2 DEF SetUID, Goto, buildVars, Aside
<1>3. CASE AppendEnvs(g)
  BY <1>0, <1>3 DEF AppendEnvs, Goto, Aside
<1>4. CASE AddFiles(g)
  <2>1. /\ UNCHANGED <<at, wEnvs, containers>>
        /\ \/ UNCHANGED <<pc, faults>>
           \/ Fails(g) /\ UNCHANGED <<gFilesMap, vols>>
        /\ \/ UNCHANGED <<gFilesMap, vols>>
           \/ \E x, y : /\ vols' = [vols EXCEPT ![g] = x]
                        /\ gFilesMap' = [gFilesMap EXCEPT ![g] = y]
    BY <1>4 DEF AddFiles
  <2>2. \A h \in NodeSets \ {g} : gFilesMap'[h] = gFilesMap[h] /\ vols'[h] = vols[h]
    BY <1>0, <2>1
  <2> QED BY <1>0, <2>1, <2>2 DEF Fails, Goto, Aside
<1>5. CASE AddContainer(g)
  BY <1>0, <1>5 DEF AddContainer, Goto, buildVars, Aside
<1>6. CASE Create(g)
  <2>1. UNCHANGED <<at, buildVars, containers>>
    BY <1>6 DEF Create
  <2>2. pc' = [pc EXCEPT ![g] = "created"] \/ pc' = [pc EXCEPT ![g] = "failed"]
    BY <1>6 DEF Create, Goto, Fails
  <2>3. UNCHANGED faults \/ (faults < MaxFaults /\ faults' = faults + 1)
    BY <1>6 DEF Create, Fails
  <2> QED BY <1>0, <2>1, <2>2, <2>3 DEF buildVars, Aside
<1> QED BY <1>1, <1>2, <1>3, <1>4, <1>5, <1>6 DEF DeployNodeSet

\* It is enough to look at the node set that took the step.
LEMMA Local ==
  ASSUME Inv, NEW g \in NodeSets, DeployNodeSet(g), UNCHANGED uid,
         Types', Own(g)', UIDsKept(g)'
  PROVE  Inv'
<1>1. Aside(g) /\ faults' \in Nat /\ faults' >= faults
  BY StepsAside, PodSpecAssumption DEF Inv, PodSpecAssumption
<1>2. ASSUME NEW h \in NodeSets \ {g}
      PROVE  Own(h)' /\ UIDsKept(h)'
  <2>1. Own(h)'
    BY <1>1, OthersOwn DEF Aside
  <2>2. UIDsKept(h)'
    BY <1>1 DEF Inv, UIDsKept, UIDRead, Untouched, Ahead, Aside, Worker, Here
  <2> QED BY <2>1, <2>2
<1>3. UIDs'
  BY DEF Inv, UIDs
<1> QED BY <1>2, <1>3 DEF Inv

\* In one place only: whoever has the worker in hand is at that place.
LEMMA AloneHere ==
  ASSUME Inv, NEW g \in NodeSets, NEW h \in NodeSets, pc[g] # "failed", pc[h] # "failed",
         Worker(g) = Worker(h), Alone(Worker(g))
  PROVE  g = h
<1>1. /\ Here(g) \in Places /\ WorkerAt(Here(g)) = Worker(g)
      /\ Here(h) \in Places /\ WorkerAt(Here(h)) = Worker(h)
  BY PlaceFacts DEF Inv, Own
<1>2. Here(g) = Here(h)
  BY <1>1 DEF Alone
<1> QED BY <1>2 DEF Here

\* What is read once a UID was found or set is a UID of the worker's own.
LEMMA ReadUIDs ==
  ASSUME Inv, NEW g \in NodeSets, pc[g] \in {"appendEnvs", "addFiles"}
  PROVE  uid[Worker(g)] \in UIDsOf(Here(g))
<1> DEFINE w    == Worker(g)
           mine == {q \in Places : WorkerAt(q) = w}
<1>1. Here(g) \in Places /\ WorkerAt(Here(g)) = w /\ w \in Workers
  BY PlaceFacts DEF Inv, Own
<1>2. uid[w].len # NoUID /\ (Alone(w) => uid[w] = Text(NameOf(Here(g))))
  BY DEF Inv, UIDsKept, UIDRead
<1>3. CASE GivenUID[w] # NoUID
  BY <1>1, <1>3 DEF Inv, UIDs, UIDsOf
<1>4. CASE GivenUID[w] = NoUID /\ Alone(w)
  <2>1. UIDsOf(Here(g)) = {Text(NameOf(Here(g)))}
    BY <1>1, <1>4, UIDsOfFacts
  <2> QED BY <1>2, <1>4, <2>1
<1>5. CASE GivenUID[w] = NoUID /\ ~Alone(w)
  <2>1. uid[w] \in [len : mine \cup {NoUID}, ptr : mine \cup {NoUID}]
    BY <1>1, <1>5 DEF Inv, UIDs
  <2>2. UIDsOf(Here(g)) = [len : mine, ptr : mine \cup {NoUID}]
    BY <1>1, <1>5 DEF UIDsOf
  <2> HIDE DEF w, mine
  <2>3. uid[w] = [len |-> uid[w].len, ptr |-> uid[w].ptr]
    BY <2>1
  <2>4. uid[w].len \in mine /\ uid[w].ptr \in mine \cup {NoUID}
    BY <1>2, <2>1
  <2> QED BY <2>2, <2>3, <2>4 DEF w
<1> QED BY <1>3, <1>4, <1>5

LEMMA ReadUIDStep ==
  ASSUME Inv, NEW g \in NodeSets, ReadUID(g)
  PROVE  Inv'
<1>1. /\ pc[g] = "readUID" /\ UNCHANGED <<uid, at, spare, wEnvs, gFilesMap, vols, containers, pods, faults>>
      /\ pc' = [pc EXCEPT ![g] = IF uid[Worker(g)].len = NoUID THEN "setUID" ELSE "appendEnvs"]
  BY DEF ReadUID, Goto, buildVars
<1>2. Types /\ Own(g)
  BY DEF Inv
<1>3. Types' /\ pc'[g] = IF uid[Worker(g)].len = NoUID THEN "setUID" ELSE "appendEnvs"
  BY <1>1, <1>2 DEF Types, Steps
<1>4. Own(g)'
  BY <1>1, <1>2, <1>3 DEF Own, Turn, InHand, Finished, Failed, InLoop
<1>5. Worker(g)' = Worker(g) /\ Here(g)' = Here(g)
  BY <1>1 DEF Worker, Here
<1>6. /\ WorkerAt(Here(g)) = Worker(g) /\ Here(g) \in Places /\ Worker(g) \in Workers
      /\ at[g] \in DOMAIN Set[g] /\ Worker(g) = Set[g][at[g]]
  BY <1>1, <1>2, PlaceFacts DEF Own, Worker
<1>7. Alone(Worker(g)) => uid[Worker(g)] = Text(GivenUID[Worker(g)])
  BY <1>1, <1>6 DEF Inv, UIDsKept, Untouched, Ahead
<1>8. UIDRead(g)'
  <2>1. GivenUID[Worker(g)] # NoUID => uid[Worker(g)].len = GivenUID[Worker(g)]
    BY <1>6, TextFacts DEF Inv, UIDs
  <2>2. Alone(Worker(g)) => uid[Worker(g)].len = GivenUID[Worker(g)]
    BY <1>7, TextFacts
  <2> QED BY <1>1, <1>3, <1>5, <1>6, <1>7, <2>1, <2>2 DEF UIDRead, NameOf
<1>9. Untouched(g)'
  <2>1. Ahead(g)' \subseteq Ahead(g)
    BY <1>1, <1>3 DEF Ahead
  <2> QED BY <1>1, <2>1 DEF Inv, UIDsKept, Untouched
<1> QED BY <1>1, <1>3, <1>4, <1>8, <1>9, Local DEF UIDsKept, DeployNodeSet

LEMMA SetUIDStep ==
  ASSUME Inv, NEW g \in NodeSets, SetUID(g)
  PROVE  Inv'
<1> DEFINE w == Worker(g)
<1>1. /\ pc[g] \in {"setUID", "setLen", "setPtr"}
      /\ UNCHANGED <<at, spare, wEnvs, gFilesMap, vols, containers, pods, faults>>
      /\ \/ /\ pc[g] \in {"setUID", "setLen"} /\ uid' = [uid EXCEPT ![w].len = Here(g)]
            /\ pc' = [pc EXCEPT ![g] = IF pc[g] = "setUID" THEN "setPtr" ELSE "appendEnvs"]
         \/ /\ pc[g] \in {"setUID", "setPtr"} /\ uid' = [uid EXCEPT ![w].ptr = Here(g)]
            /\ pc' = [pc EXCEPT ![g] = IF pc[g] = "setUID" THEN "setLen" ELSE "appendEnvs"]
  BY DEF SetUID, Goto, buildVars, DefaultUID, Here
<1>2. Types /\ Own(g) /\ UIDRead(g)
  BY DEF Inv, UIDsKept
<1>3. /\ Here(g) \in Places /\ WorkerAt(Here(g)) = w /\ w \in Workers /\ Here(g) \in Names
      /\ at[g] \in 1..Len(Set[g]) /\ DOMAIN Set[g] \subseteq Nat
  BY <1>1, <1>2, PlaceFacts DEF Own, Names
<1>4. /\ GivenUID[w] = NoUID /\ Here(g) # NoUID /\ NameOf(Here(g)) = Here(g)
      /\ pc[g] = "setPtr" => uid[w].len # NoUID
      /\ Alone(w) => /\ pc[g] = "setPtr" => uid[w].len = Here(g)
                     /\ pc[g] = "setLen" => uid[w].ptr = Here(g)
  BY <1>1, <1>2, <1>3, PodSpecAssumption DEF UIDRead, NameOf, PodSpecAssumption
<1>5. Worker(g)' = w /\ Here(g)' = Here(g)
  BY <1>1 DEF Worker, Here
<1> HIDE DEF w
<1>6. /\ \A v \in Workers \ {w} : uid'[v] = uid[v]
      /\ uid[w] \in Texts /\ uid' \in [Workers -> Texts]
      /\ \/ /\ uid'[w].len = Here(g) /\ uid'[w].ptr = uid[w].ptr
            /\ <<pc[g], pc'[g]>> \in {<<"setUID", "setPtr">>, <<"setLen", "appendEnvs">>}
         \/ /\ uid'[w].ptr = Here(g) /\ uid'[w].len = uid[w].len
            /\ <<pc[g], pc'[g]>> \in {<<"setUID", "setLen">>, <<"setPtr", "appendEnvs">>}
  <2>1. pc \in [NodeSets -> Steps] /\ uid \in [Workers -> Texts]
    BY <1>2 DEF Types
  <2>2. CASE /\ pc[g] \in {"setUID", "setLen"} /\ uid' = [uid EXCEPT ![w].len = Here(g)]
             /\ pc' = [pc EXCEPT ![g] = IF pc[g] = "setUID" THEN "setPtr" ELSE "appendEnvs"]
    <3>1. uid'[w] = [uid[w] EXCEPT !.len = Here(g)] /\ \A v \in Workers \ {w} : uid'[v] = uid[v]
      BY <1>3, <2>1, <2>2
    <3>2. /\ uid[w] \in Texts /\ uid'[w] \in Texts
          /\ uid'[w].len = Here(g) /\ uid'[w].ptr = uid[w].ptr
      BY <1>3, <2>1, <3>1 DEF Texts
    <3>3. uid' \in [Workers -> Texts]
      BY <2>1, <2>2, <3>1, <3>2
    <3> QED BY <2>1, <2>2, <3>1, <3>2, <3>3
  <2>3. CASE /\ pc[g] \in {"setUID", "setPtr"} /\ uid' = [uid EXCEPT ![w].ptr = Here(g)]
             /\ pc' = [pc EXCEPT ![g] = IF pc[g] = "setUID" THEN "setLen" ELSE "appendEnvs"]
    <3>1. uid'[w] = [uid[w] EXCEPT !.ptr = Here(g)] /\ \A v \in Workers \ {w} : uid'[v] = uid[v]
      BY <1>3, <2>1, <2>3
    <3>2. /\ uid[w] \in Texts /\ uid'[w] \in Texts
          /\ uid'[w].ptr = Here(g) /\ uid'[w].len = uid[w].len
      BY <1>3, <2>1, <3>1 DEF Texts
    <3>3. uid' \in [Workers -> Texts]
      BY <2>1, <2>3, <3>1, <3>2
    <3> QED BY <2>1, <2>3, <3>1, <3>2, <3>3
  <2> QED BY <1>1, <2>2, <2>3
<1>7. Types' /\ pc'[g] \in {"setLen", "setPtr", "appendEnvs"}
  BY <1>1, <1>2, <1>6 DEF Types, Steps
<1>8. UIDs'
  <2> SUFFICES ASSUME NEW v \in Workers
               PROVE  LET mine == {q \in Places : WorkerAt(q) = v} IN
                      IF GivenUID[v] # NoUID THEN uid'[v] = Text(GivenUID[v])
                      ELSE uid'[v] \in [len : mine \cup {NoUID}, ptr : mine \cup {NoUID}]
    BY DEF UIDs
  <2>1. CASE v # w
    BY <1>6, <2>1 DEF Inv, UIDs
  <2>2. CASE v = w
    <3> DEFINE mine == {q \in Places : WorkerAt(q) = w}
    <3>1. uid[w] \in [len : mine \cup {NoUID}, ptr : mine \cup {NoUID}] /\ Here(g) \in mine
      BY <1>3, <1>4 DEF Inv, UIDs
    <3>2. uid'[w] = [len |-> uid'[w].len, ptr |-> uid'[w].ptr]
      BY <1>3, <1>6 DEF Texts
    <3> HIDE DEF mine
    <3>3. uid'[w].len \in mine \cup {NoUID} /\ uid'[w].ptr \in mine \cup {NoUID}
      BY <1>6, <3>1
    <3>4. uid'[w] \in [len : mine \cup {NoUID}, ptr : mine \cup {NoUID}]
      BY <3>2, <3>3
    <3> QED BY <1>4, <2>2, <3>4 DEF mine
  <2> QED BY <2>1, <2>2
<1>9. Own(g)'
  BY <1>1, <1>2, <1>7 DEF Own, Turn, InHand, Finished, Failed, InLoop
<1>10. UIDRead(g)'
  <2>1. pc'[g] \in {"setPtr", "appendEnvs"} => uid'[w].len # NoUID
    BY <1>4, <1>6
  <2>2. ASSUME Alone(w)
        PROVE  /\ pc'[g] = "setPtr" => uid'[w].len = Here(g)
               /\ pc'[g] = "setLen" => uid'[w].ptr = Here(g)
               /\ pc'[g] = "appendEnvs" => uid'[w] = Text(Here(g))
    <3>1. pc'[g] = "appendEnvs" => uid'[w].len = Here(g) /\ uid'[w].ptr = Here(g)
      BY <1>4, <1>6, <2>2
    <3>2. uid'[w] = [len |-> uid'[w].len, ptr |-> uid'[w].ptr]
      BY <1>3, <1>6 DEF Texts
    <3> QED BY <1>6, <3>1, <3>2 DEF Text
  <2> QED BY <1>4, <1>5, <1>7, <2>1, <2>2 DEF UIDRead, NameOf
<1>11. ASSUME NEW h \in NodeSets, NEW i \in DOMAIN Set[h], <<h, i>> # Here(g), Alone(Set[h][i])
       PROVE  uid'[Set[h][i]] = uid[Set[h][i]]
  <2>1. <<h, i>> \in Places /\ WorkerAt(<<h, i>>) = Set[h][i] /\ Set[h][i] \in Workers
    BY PodSpecAssumption DEF PodSpecAssumption, Places, WorkerAt
  <2>2. Set[h][i] # w
    BY <1>3, <1>11, <2>1 DEF Alone
  <2> QED BY <1>6, <2>1, <2>2
<1>12. Untouched(g)'
  <2> SUFFICES ASSUME NEW i \in Ahead(g)', Alone(Set[g][i])
               PROVE  uid'[Set[g][i]] = Text(GivenUID[Set[g][i]])
    BY DEF Untouched
  <2>1. i \in DOMAIN Set[g] /\ i > at[g]
    BY <1>1, <1>7 DEF Ahead
  <2>2. i \in Ahead(g) /\ <<g, i>> # Here(g)
    BY <1>3, <2>1 DEF Ahead, Here
  <2> QED BY <1>11, <2>1, <2>2 DEF Inv, UIDsKept, Untouched
<1>13. ASSUME NEW h \in NodeSets \ {g}
       PROVE  Own(h)' /\ UIDsKept(h)'
  <2>1. Aside(g) /\ faults' \in Nat /\ faults' >= faults
    BY StepsAside, PodSpecAssumption DEF Inv, PodSpecAssumption, DeployNodeSet
  <2>2. Own(h)'
    BY <2>1, OthersOwn DEF Aside
  <2>3. Worker(h)' = Worker(h) /\ Here(h)' = Here(h) /\ pc'[h] = pc[h] /\ Ahead(h)' = Ahead(h)
    BY <2>1 DEF Worker, Here, Aside, Ahead
  <2>4. UIDRead(h)'
    <3>1. UIDRead(h)
      BY DEF Inv, UIDsKept
    <3>2. CASE pc[h] \in {"setUID", "setLen", "setPtr", "appendEnvs", "addFiles"}
      <4>1. Worker(h) \in Workers
        BY <1>2, <3>2, PlaceFacts DEF Inv, Own
      <4>2. uid[Worker(h)].len # NoUID => uid'[Worker(h)].len # NoUID
        BY <1>4, <1>6, <4>1
      <4>3. Alone(Worker(h)) => uid'[Worker(h)] = uid[Worker(h)]
        <5>1. Alone(Worker(h)) => Worker(h) # Worker(g)
          BY <1>1, <3>2, AloneHere
        <5> QED BY <1>6, <4>1, <5>1 DEF w
      <4> QED BY <2>3, <3>1, <4>2, <4>3 DEF UIDRead
    <3>3. CASE pc[h] \notin {"setUID", "setLen", "setPtr", "appendEnvs", "addFiles"}
      BY <2>3, <3>3 DEF UIDRead
    <3> QED BY <3>2, <3>3
  <2>5. Untouched(h)'
    <3>1. \A i \in Ahead(h) : i \in DOMAIN Set[h] /\ <<h, i>> # Here(g)
      BY DEF Ahead, Here
    <3> QED BY <1>11, <2>3, <3>1 DEF Inv, UIDsKept, Untouched
  <2> QED BY <2>2, <2>4, <2>5 DEF UIDsKept
<1> QED BY <1>7, <1>8, <1>9, <1>10, <1>12, <1>13 DEF Inv, UIDsKept

LEMMA AppendAllFacts ==
  ASSUME NEW w \in Workers, NEW v \in Texts
  PROVE  /\ AppendAll(EntriesOf(v, w)) \in Slices
         /\ AppendAll(EntriesOf(v, w)).own
         /\ AppendAll(EntriesOf(v, w)).entries = EntriesOf(v, w)
<1>1. EntriesOf(v, w) \in Seq(Entry) /\ Len(EntriesOf(v, w)) \in Nat /\ Len(EntriesOf(v, w)) > 0
  <2>1. /\ EntriesOf(v, w) \in Seq(Entry) /\ Len(UserEnvs[w]) \in Nat
        /\ Len(EntriesOf(v, w)) = 1 + Len(UserEnvs[w])
    BY EntriesFacts
  <2> QED BY <2>1
<1>2. AppendAll(EntriesOf(v, w)) =
        [own |-> TRUE, len |-> Len(EntriesOf(v, w)), entries |-> EntriesOf(v, w)]
  BY <1>1 DEF AppendAll, DefaultSpare
<1> QED BY <1>1, <1>2 DEF Slices

LEMMA AppendEnvsStep ==
  ASSUME Inv, NEW g \in NodeSets, AppendEnvs(g)
  PROVE  Inv'
<1> DEFINE w == Worker(g)
<1>1. /\ pc[g] = "appendEnvs" /\ UNCHANGED <<uid, at, containers, pods, faults>>
      /\ wEnvs' = [wEnvs EXCEPT ![g] = AppendAll(EntriesOf(uid[w], w))]
      /\ gFilesMap' = [gFilesMap EXCEPT ![g] = groupMountPoints(w)]
      /\ vols' = [vols EXCEPT ![g] = {}]
      /\ pc' = [pc EXCEPT ![g] = "addFiles"] /\ DOMAIN spare' = DOMAIN spare
  BY DEF AppendEnvs, Goto, EntriesOf
<1>2. Types /\ Own(g) /\ UIDsKept(g)
  BY DEF Inv
<1>3. /\ Here(g) \in Places /\ WorkerAt(Here(g)) = w /\ w \in Workers
      /\ uid[w] \in Texts /\ uid[w] \in UIDsOf(Here(g))
      /\ Worker(g)' = w /\ Here(g)' = Here(g)
  BY <1>1, <1>2, PlaceFacts, ReadUIDs DEF Own, Types, Worker, Here
<1> HIDE DEF w
<1>4. /\ wEnvs'[g].own /\ wEnvs'[g].entries = EntriesOf(uid[w], w)
      /\ wEnvs' \in [NodeSets -> Slices]
  BY <1>1, <1>2, <1>3, AppendAllFacts DEF Types
<1>5. /\ gFilesMap'[g] = groupMountPoints(w) /\ vols'[g] = {} /\ pc'[g] = "addFiles"
      /\ Types'
  BY <1>1, <1>2, <1>4 DEF Types, Steps
<1>6. EnvFor(Here(g), wEnvs'[g])
  BY <1>3, <1>4 DEF EnvFor
<1>7. MountingFor(w, gFilesMap'[g], vols'[g])
  <2>1. \A f \in Files[w] : GroupOf(f, w) \in groupMountPoints(w)
    BY DEF GroupOf, groupMountPoints
  <2> QED BY <1>5, <2>1 DEF MountingFor, OneMountPerDir
<1>8. InHand(g)'
  BY <1>3, <1>6, <1>7 DEF InHand, w
<1>9. Turn(g)' /\ Finished(g)' /\ Failed(g)'
  BY <1>1, <1>2, <1>3, <1>5 DEF Own, Turn, Finished, Failed, InLoop
<1>10. UIDsKept(g)'
  BY <1>1, <1>2, <1>3, <1>5 DEF UIDsKept, UIDRead, Untouched, Ahead, w
<1> QED BY <1>1, <1>5, <1>8, <1>9, <1>10, Local DEF Own, DeployNodeSet

\* A directory's group becomes one mount.
LEMMA MountGroup ==
  ASSUME NEW w \in Workers, NEW groups, NEW mounts, MountingFor(w, groups, mounts),
         NEW group \in groups, NEW f \in group, NEW data \in BinaryData(group)
  PROVE  MountingFor(w, groups \ {group}, mounts \cup {[dir |-> f.dir, files |-> data]})
<1> DEFINE new == [dir |-> f.dir, files |-> data]
           more == mounts \cup {new}
<1>1. PICK e \in Files[w] : group = {d \in Files[w] : d.dir = e.dir}
  BY DEF MountingFor, groupMountPoints
<1>2. f \in Files[w] /\ group = GroupOf(f, w) /\ group \in groupMountPoints(w)
  BY <1>1 DEF GroupOf, groupMountPoints
<1>3. new \in MountsOf(w) /\ new.dir = f.dir /\ new.files = data
  BY <1>2 DEF MountsOf
<1>4. DOMAIN data = {d.base : d \in group}
  BY DEF BinaryData
<1> HIDE DEF new
<1>5. groups \ {group} \subseteq groupMountPoints(w) /\ more \subseteq MountsOf(w)
  BY <1>3 DEF MountingFor
<1>6. OneMountPerDir(more)
  BY <1>3 DEF MountingFor, OneMountPerDir
<1>7. ASSUME NEW m \in more, NEW other \in groups \ {group}, NEW d \in other
      PROVE  d.dir # m.dir
  <2>1. CASE m \in mounts
    BY <1>7, <2>1 DEF MountingFor
  <2>2. CASE m = new
    <3>1. PICK x \in Files[w] : other = {y \in Files[w] : y.dir = x.dir}
      BY DEF MountingFor, groupMountPoints
    <3> QED BY <1>1, <1>3, <2>2, <3>1
  <2> QED BY <2>1, <2>2
<1>8. ASSUME NEW d \in Files[w]
      PROVE  GroupOf(d, w) \in groups \ {group} \/ Mounted(d, more)
  <2>1. CASE GroupOf(d, w) = group
    <3>1. d \in group /\ d.dir = f.dir
      BY <1>2, <2>1 DEF GroupOf
    <3> QED BY <1>3, <1>4, <3>1 DEF Mounted
  <2>2. CASE Mounted(d, mounts)
    BY <2>2 DEF Mounted
  <2> QED BY <2>1, <2>2 DEF MountingFor
<1> QED BY <1>5, <1>6, <1>7, <1>8 DEF MountingFor, new

LEMMA AddFilesStep ==
  ASSUME Inv, NEW g \in NodeSets, AddFiles(g)
  PROVE  Inv'
<1>1. /\ pc[g] = "addFiles" /\ UNCHANGED <<uid, at, spare, wEnvs, containers, pods>>
  BY DEF AddFiles
<1>2. Types /\ Own(g) /\ UIDsKept(g)
  BY DEF Inv
<1>3. /\ Worker(g) \in Workers /\ Worker(g)' = Worker(g) /\ Here(g)' = Here(g)
  BY <1>1, <1>2, PlaceFacts DEF Own, Worker, Here
<1>4. faults' \in 0..MaxFaults
  BY <1>2, StepsAside DEF DeployNodeSet
<1>5. ASSUME Fails(g), UNCHANGED <<gFilesMap, vols>>
      PROVE  Inv'
  <2>1. pc' = [pc EXCEPT ![g] = "failed"] /\ faults' > 0
    BY <1>2, <1>5, PodSpecAssumption DEF Fails, Goto, Types, PodSpecAssumption
  <2>2. Types' /\ pc'[g] = "failed"
    BY <1>1, <1>2, <1>4, <1>5, <2>1 DEF Types, Steps
  <2>3. Own(g)'
    BY <1>1, <1>2, <1>3, <2>1, <2>2 DEF Own, Turn, InHand, Finished, Failed, InLoop
  <2>4. UIDsKept(g)'
    BY <1>1, <1>2, <2>2 DEF UIDsKept, UIDRead, Untouched, Ahead
  <2> QED BY <1>1, <2>2, <2>3, <2>4, Local DEF DeployNodeSet
<1>6. ASSUME NEW group \in gFilesMap[g], NEW data \in BinaryData(group), NEW f \in group,
             vols' = [vols EXCEPT ![g] = @ \cup {[dir |-> f.dir, files |-> data]}],
             gFilesMap' = [gFilesMap EXCEPT ![g] = @ \ {group}], UNCHANGED <<pc, faults>>
      PROVE  Inv'
  <2>1. Types'
    BY <1>1, <1>2, <1>6 DEF Types
  <2>2. /\ vols'[g] = vols[g] \cup {[dir |-> f.dir, files |-> data]}
        /\ gFilesMap'[g] = gFilesMap[g] \ {group}
    BY <1>2, <1>6 DEF Types
  <2>3. MountingFor(Worker(g), gFilesMap'[g], vols'[g])
    BY <1>1, <1>2, <1>3, <2>2, MountGroup DEF Own, InHand
  <2>4. InHand(g)'
    BY <1>1, <1>2, <1>3, <2>3 DEF Own, InHand
  <2>5. Turn(g)' /\ Finished(g)' /\ Failed(g)'
    BY <1>1, <1>2, <1>3, <1>6 DEF Own, Turn, Finished, Failed, InLoop
  <2>6. UIDsKept(g)'
    BY <1>1, <1>2, <1>3, <1>6 DEF UIDsKept, UIDRead, Untouched, Ahead
  <2> QED BY <1>1, <2>1, <2>4, <2>5, <2>6, Local DEF Own, DeployNodeSet
<1> QED BY <1>5, <1>6 DEF AddFiles

LEMMA AddContainerStep ==
  ASSUME Inv, NEW g \in NodeSets, AddContainer(g)
  PROVE  Inv'
<1> DEFINE c == Container(g)
           cs == containers[g]
<1>1. /\ pc[g] = "addFiles" /\ gFilesMap[g] = {}
      /\ UNCHANGED <<uid, spare, wEnvs, gFilesMap, vols, pods, faults>>
      /\ containers' = [containers EXCEPT ![g] = Append(cs, c)]
      /\ \/ at[g] = Len(Set[g]) /\ pc' = [pc EXCEPT ![g] = "create"] /\ UNCHANGED at
         \/ /\ at[g] # Len(Set[g]) /\ pc' = [pc EXCEPT ![g] = "readUID"]
            /\ at' = [at EXCEPT ![g] = @ + 1]
  BY DEF AddContainer, Goto, buildVars
<1>2. Types /\ Own(g) /\ UIDsKept(g)
  BY DEF Inv
<1>3. /\ WorkerAt(Here(g)) = Worker(g) /\ Worker(g) \in Workers
      /\ at[g] \in 1..Len(Set[g]) /\ Len(Set[g]) \in Nat
      /\ Set[g] # <<>> /\ Len(cs) + 1 = at[g] /\ uid[Worker(g)] \in Texts
  BY <1>1, <1>2, PlaceFacts DEF Own, Turn, InLoop, Types
<1>4. /\ EnvFor(Here(g), wEnvs[g])
      /\ MountingFor(Worker(g), {}, vols[g])
  BY <1>1, <1>2 DEF Own, InHand
<1>5. c.name = uid[Worker(g)] /\ c.env = wEnvs[g] /\ c.mounts = vols[g]
  BY DEF Container
<1>6. ContainerFor(Here(g), c)
  <2>1. MountsFor(Worker(g), vols[g])
    BY <1>4 DEF MountingFor, MountsFor
  <2>2. c.name \in UIDsOf(Here(g))
    BY <1>1, <1>5, ReadUIDs
  <2> QED BY <1>3, <1>4, <1>5, <2>1, <2>2 DEF ContainerFor
<1>7. c \in [name : Texts, env : Slices, mounts : SUBSET AllMounts]
  <2>1. vols[g] \subseteq AllMounts
    BY <1>3, <1>4 DEF MountingFor, AllMounts
  <2>2. wEnvs[g] \in Slices
    BY <1>2 DEF Types
  <2> QED BY <1>3, <2>1, <2>2 DEF Container
<1> HIDE DEF c
<1>8. /\ cs \in Seq([name : Texts, env : Slices, mounts : SUBSET AllMounts])
      /\ containers'[g] = Append(cs, c)
  BY <1>1, <1>2 DEF Types
<1> HIDE DEF cs
<1>9. /\ Append(cs, c) \in Seq([name : Texts, env : Slices, mounts : SUBSET AllMounts])
      /\ Len(Append(cs, c)) = at[g] /\ Append(cs, c)[at[g]] = c
      /\ \A i \in DOMAIN Append(cs, c) :
           i # at[g] => i \in DOMAIN cs /\ Append(cs, c)[i] = cs[i]
  BY <1>3, <1>7, <1>8
<1>10. Types'
  <2>1. containers' \in
          [NodeSets -> Seq([name : Texts, env : Slices, mounts : SUBSET AllMounts])]
    BY <1>1, <1>2, <1>9 DEF Types
  <2>2. pc' \in [NodeSets -> Steps]
    BY <1>1, <1>2 DEF Types, Steps
  <2>3. at' \in [NodeSets -> Nat]
    <3>1. at \in [NodeSets -> Nat] /\ (UNCHANGED at \/ at' = [at EXCEPT ![g] = @ + 1])
      BY <1>1, <1>2 DEF Types
    <3> QED BY <3>1
  <2> QED BY <1>1, <1>2, <2>1, <2>2, <2>3 DEF Types
<1>11. Finished(g)'
  <2>1. \A i \in DOMAIN cs : ContainerFor(<<g, i>>, cs[i])
    BY <1>2 DEF Own, Finished, cs
  <2> QED BY <1>6, <1>8, <1>9, <2>1 DEF Finished, Here
<1>12. pc'[g] \in {"create", "readUID"}
  BY <1>1, <1>2 DEF Types
<1>13. Turn(g)'
  <2>1. CASE at[g] = Len(Set[g])
    <3>1. pc'[g] = "create" /\ UNCHANGED at
      BY <1>1, <1>2, <2>1 DEF Types
    <3> QED BY <1>3, <1>8, <1>9, <2>1, <3>1 DEF Turn, InLoop
  <2>2. CASE at[g] # Len(Set[g])
    <3>1. pc'[g] = "readUID" /\ at'[g] = at[g] + 1
      BY <1>1, <1>2, <2>2 DEF Types
    <3> QED BY <1>3, <1>8, <1>9, <2>2, <3>1 DEF Turn, InLoop
  <2> QED BY <2>1, <2>2
<1>14. InHand(g)' /\ Failed(g)' /\ UIDRead(g)'
  BY <1>12 DEF InHand, Failed, UIDRead
<1>15. Untouched(g)'
  <2>1. at'[g] >= at[g] /\ (pc'[g] = "readUID" => at'[g] > at[g]) /\ at[g] \in Nat /\ at'[g] \in Nat
    BY <1>1, <1>2, <1>10 DEF Types
  <2>2. DOMAIN Set[g] \subseteq Nat
    BY PodSpecAssumption DEF PodSpecAssumption
  <2>3. Ahead(g)' \subseteq Ahead(g)
    BY <1>12, <2>1, <2>2 DEF Ahead
  <2> QED BY <1>1, <1>2, <2>3 DEF UIDsKept, Untouched
<1> QED BY <1>1, <1>10, <1>11, <1>13, <1>14, <1>15, Local DEF Own, UIDsKept, DeployNodeSet

\* Clear places have names of their own.
LEMMA ClearNames ==
  ASSUME NEW p \in Places, NEW q \in Places, Clear(p), Clear(q), NameOf(p) = NameOf(q)
  PROVE  p = q
BY DEF Clear, NameOf

\* The API server refuses a pod only for names that the playbook gave, or
\* of workers that it put into several places.
LEMMA RefusedNames ==
  ASSUME Inv, NEW g \in NodeSets, ~Accepted(g) \/ Garbled(g)
  PROVE  \E i \in DOMAIN Set[g] : ~Clear(<<g, i>>)
<1> DEFINE cs == containers[g]
<1>1. /\ DOMAIN cs \subseteq DOMAIN Set[g]
      /\ \A i \in DOMAIN cs : ContainerFor(<<g, i>>, cs[i])
  <2>1. /\ Set[g] \in Seq(Workers) /\ Len(cs) <= Len(Set[g])
        /\ cs \in Seq([name : Texts, env : Slices, mounts : SUBSET AllMounts])
    BY PodSpecAssumption DEF PodSpecAssumption, Inv, Types, Own, Turn
  <2>2. \A i \in DOMAIN cs : ContainerFor(<<g, i>>, cs[i])
    BY DEF Inv, Own, Finished
  <2> QED BY <2>1, <2>2
<1>2. \A i \in DOMAIN cs : OneMountPerDir(cs[i].mounts)
  BY <1>1 DEF ContainerFor, MountsFor
<1>3. ASSUME NEW i \in DOMAIN cs, Clear(<<g, i>>)
      PROVE  <<g, i>> \in Places /\ cs[i].name = Text(NameOf(<<g, i>>))
  <2>1. <<g, i>> \in Places
    BY <1>1 DEF Places
  <2> QED BY <1>1, <1>3, <2>1, UIDsOfFacts DEF ContainerFor, Clear
<1>4. CASE ~Accepted(g)
  <2>1. PICK i \in DOMAIN cs, j \in DOMAIN cs : cs[i].name = cs[j].name /\ i # j
    BY <1>2, <1>4 DEF Accepted, OneMountPerDir
  <2>2. ASSUME Clear(<<g, i>>), Clear(<<g, j>>)
        PROVE  FALSE
    <3>1. <<g, i>> \in Places /\ <<g, j>> \in Places /\ NameOf(<<g, i>>) = NameOf(<<g, j>>)
      BY <1>3, <2>1, <2>2, TextFacts
    <3>2. <<g, i>> = <<g, j>>
      BY <2>2, <3>1, ClearNames
    <3> QED BY <2>1, <3>2
  <2> QED BY <1>1, <2>1, <2>2
<1>5. CASE Garbled(g)
  <2>1. PICK i \in DOMAIN cs : cs[i].name.len # cs[i].name.ptr
    BY <1>5 DEF Garbled
  <2>2. ~Clear(<<g, i>>)
    BY <1>3, <2>1, TextFacts
  <2> QED BY <1>1, <2>1, <2>2
<1> QED BY <1>4, <1>5

LEMMA CreateStep ==
  ASSUME Inv, NEW g \in NodeSets, Create(g)
  PROVE  Inv'
<1>1. /\ pc[g] = "create"
      /\ UNCHANGED <<uid, at, spare, wEnvs, gFilesMap, vols, containers>>
  BY DEF Create, buildVars
<1>2. Types /\ Own(g)
  BY DEF Inv
<1>3. /\ pods' \subseteq NodeSets
      /\ \/ pc' = [pc EXCEPT ![g] = "created"]
         \/ /\ pc' = [pc EXCEPT ![g] = "failed"]
            /\ ~Accepted(g) \/ Garbled(g) \/ faults' > 0
  <2>1. \/ pods' = pods \cup {g} /\ pc' = [pc EXCEPT ![g] = "created"]
        \/ /\ ~Accepted(g) \/ Garbled(g)
           /\ pc' = [pc EXCEPT ![g] = "failed"] /\ UNCHANGED pods
        \/ Fails(g) /\ pods' \in {pods, IF Accepted(g) THEN pods \cup {g} ELSE pods}
    BY DEF Create, Goto
  <2>2. faults \in Nat
    BY <1>2, PodSpecAssumption DEF Types, PodSpecAssumption
  <2> QED BY <1>2, <2>1, <2>2 DEF Fails, Goto, Types
<1>4. faults' \in 0..MaxFaults
  BY <1>2, StepsAside DEF DeployNodeSet
<1>5. Types' /\ pc'[g] \in {"created", "failed"}
  BY <1>1, <1>2, <1>3, <1>4 DEF Types, Steps
<1>6. Turn(g)' /\ InHand(g)' /\ Finished(g)'
  BY <1>1, <1>2, <1>5 DEF Own, Turn, InHand, Finished, InLoop
<1>7. Failed(g)'
  BY <1>2, <1>3, RefusedNames DEF Failed, Types
<1>8. UIDsKept(g)'
  BY <1>1, <1>5 DEF Inv, UIDsKept, UIDRead, Untouched, Ahead
<1> QED BY <1>1, <1>5, <1>6, <1>7, <1>8, Local DEF Own, DeployNodeSet

LEMMA NextInv == Inv /\ [Next]_vars => Inv'
<1> SUFFICES ASSUME Inv, [Next]_vars PROVE Inv'
  OBVIOUS
<1>1. CASE UNCHANGED vars
  <2>1. Types' /\ UIDs'
    BY <1>1 DEF vars, buildVars, Inv, Types, UIDs
  <2>2. ASSUME NEW g \in NodeSets
        PROVE  Own(g)' /\ UIDsKept(g)'
    <3>1. Own(g)'
      BY <1>1 DEF vars, buildVars, Inv, Own, Turn, InHand, Finished, Failed, Worker, Here
    <3>2. UIDsKept(g)'
      BY <1>1 DEF vars, buildVars, Inv, UIDsKept, UIDRead, Untouched, Ahead, Worker, Here
    <3> QED BY <3>1, <3>2
  <2> QED BY <2>1, <2>2 DEF Inv
<1> QED BY <1>1, ReadUIDStep, SetUIDStep, AppendEnvsStep, AddFilesStep, AddContainerStep,
           CreateStep DEF Next, DeployNodeSet, Ended

LEMMA InitInv == Init => Inv
<1> SUFFICES ASSUME Init PROVE Inv
  OBVIOUS
<1>1. /\ Set \in [NodeSets -> Seq(Workers)] /\ GivenUID = [w \in Workers |-> GivenUID[w]] /\ MaxFaults \in Nat
  BY PodSpecAssumption DEF PodSpecAssumption
<1>2. pc \in [NodeSets -> Steps] /\ at \in [NodeSets -> Nat] /\ faults \in 0..MaxFaults
  BY <1>1 DEF Init, Steps
<1>3. uid \in [Workers -> Texts] /\ \A w \in Workers : uid[w] = Text(GivenUID[w])
  <2>1. \A w \in Workers : Text(GivenUID[w]) \in Texts
    BY DEF Text, Texts, Names
  <2> QED BY <2>1 DEF Init
<1>4. wEnvs \in [NodeSets -> Slices]
  BY DEF Init, Slices, NoEnvs
<1>5. /\ containers \in
            [NodeSets -> Seq([name : Texts, env : Slices, mounts : SUBSET AllMounts])]
      /\ \A g \in NodeSets : containers[g] = <<>> /\ Len(containers[g]) = 0
  BY DEF Init
<1>6. Types
  BY <1>2, <1>3, <1>4, <1>5 DEF Init, Types
<1>7. UIDs
  BY <1>3 DEF UIDs, Text
<1>8. ASSUME NEW g \in NodeSets
      PROVE  Own(g) /\ UIDsKept(g)
  <2>1. /\ pc[g] = IF Set[g] = <<>> THEN "failed" ELSE "readUID"
        /\ at[g] = 1 /\ Set[g] \in Seq(Workers)
    BY <1>1 DEF Init
  <2>2. Len(Set[g]) \in Nat /\ (Set[g] # <<>> => Len(Set[g]) >= 1)
    BY <2>1
  <2>3. Turn(g)
    BY <1>5, <2>1, <2>2 DEF Turn, InLoop
  <2>4. DOMAIN containers[g] = {}
    BY <1>5
  <2>5. Own(g)
    BY <2>1, <2>3, <2>4 DEF Own, InHand, Finished, Failed
  <2>6. \A i \in DOMAIN Set[g] : Set[g][i] \in Workers
    BY <2>1
  <2>7. UIDsKept(g)
    BY <1>3, <2>1, <2>6 DEF UIDsKept, UIDRead, Untouched, Ahead
  <2> QED BY <2>5, <2>7
<1> QED BY <1>6, <1>7, <1>8 DEF Inv

LEMMA Invariant == Spec => []Inv
BY InitInv, NextInv, PTL DEF Spec

-----------------------------------------------------------------------------
(* What follows from it.                                                   *)

LEMMA BuiltFacts ==
  ASSUME Inv, NEW p \in Built
  PROVE  /\ p \in Places /\ WorkerAt(p) \in Workers
         /\ ContainerFor(p, ContainerAt(p))
         /\ EnvAt(p) = ContainerAt(p).env.entries
<1>1. p \in Places /\ p[1] \in NodeSets /\ p = <<p[1], p[2]>> /\ p[2] \in DOMAIN containers[p[1]]
  BY DEF Built, Places
<1>2. WorkerAt(p) \in Workers
  BY <1>1, PodSpecAssumption DEF PodSpecAssumption, Places, WorkerAt
<1>3. ContainerFor(p, ContainerAt(p))
  BY <1>1 DEF Inv, Own, Finished, ContainerAt
<1>4. EnvAt(p) = ContainerAt(p).env.entries
  BY <1>3 DEF EnvAt, Entries, ContainerFor, EnvFor
<1> QED BY <1>1, <1>2, <1>3, <1>4

\* TypeCorrect: every state of every playbook's pods is well typed.
THEOREM TypeCorrect == Spec => []TypeOK
<1>1. ASSUME Inv PROVE TypeOK
  <2>1. \A g \in NodeSets : Set[g] # <<>> => at[g] \in DOMAIN Set[g]
    <3>1. \A g \in NodeSets : Set[g] \in Seq(Workers)
      BY PodSpecAssumption DEF PodSpecAssumption
    <3> QED BY <1>1, <3>1 DEF Inv, Own, Turn
  <2> QED BY <1>1, <2>1 DEF Inv, Types, Steps, TypeOK
<1> QED BY <1>1, Invariant, PTL

\* EnvsAreOwn: no worker's environment is written into by the appends for
\* another, for any number of workers and entries.
THEOREM EnvsAreOwn == Spec => []EnvIsOwn
<1>1. ASSUME Inv, NEW p \in Built
      PROVE  LET env == EnvAt(p) IN
             /\ Len(env) = 1 + Len(UserEnvs[WorkerAt(p)])
             /\ env[1].name = "WORKER_UID"
             /\ Tail(env) = UserEntries(WorkerAt(p))
  <2>1. PICK v \in Texts : EnvAt(p) = EntriesOf(v, WorkerAt(p))
    BY <1>1, BuiltFacts, UIDsOfFacts DEF ContainerFor, EnvFor
  <2>2. WorkerAt(p) \in Workers
    BY <1>1, BuiltFacts
  <2> DEFINE env == EntriesOf(v, WorkerAt(p))
  <2>3. /\ Len(env) = 1 + Len(UserEnvs[WorkerAt(p)])
        /\ env[1] = [name |-> "WORKER_UID", value |-> v]
        /\ Tail(env) = UserEntries(WorkerAt(p))
    BY <2>2, EntriesFacts
  <2>4. env[1].name = "WORKER_UID"
    BY <2>3
  <2> QED BY <2>1, <2>3, <2>4
<1>2. Inv => EnvIsOwn
  BY <1>1 DEF EnvIsOwn
<1> QED BY <1>2, Invariant, PTL

\* BootAsNamed: every worker finds all that the worker command reads, and
\* starts under a UID of its own, whatever the goroutines of the node sets do
\* to it and to other workers, those in several node sets included.
THEOREM BootAsNamed == Spec => []BootsAsNamed
<1>1. ASSUME Inv, NEW p \in Built
      PROVE  LET envs == UserEnvs[WorkerAt(p)]  env == EnvAt(p) IN
             /\ RequiredEnvs \subseteq DefaultEnvs \cup {env[i].name : i \in DOMAIN env}
             /\ ContainerAt(p).name \in UIDsOf(p)
             /\ (\A i \in DOMAIN envs : envs[i] # "WORKER_UID") =>
                  \E name \in UIDsOf(p) : StartsWith(env, "WORKER_UID", name)
  <2> DEFINE w   == WorkerAt(p)
             env == EnvAt(p)
  <2>1. w \in Workers /\ p \in Places /\ ContainerAt(p).name \in UIDsOf(p)
    BY <1>1, BuiltFacts DEF ContainerFor
  <2>2. PICK v \in UIDsOf(p) : env = EntriesOf(v, w)
    BY <1>1, BuiltFacts DEF ContainerFor, EnvFor
  <2>3. v \in Texts
    BY <2>1, UIDsOfFacts
  <2> HIDE DEF w, env
  <2>4. /\ env \in Seq(Entry) /\ Len(env) = 1 + Len(UserEnvs[w]) /\ Len(UserEnvs[w]) \in Nat
        /\ env[1] = [name |-> "WORKER_UID", value |-> v]
        /\ \A j \in DOMAIN env : j # 1 =>
             j - 1 \in DOMAIN UserEnvs[w] /\ env[j].name = UserEnvs[w][j - 1]
    BY <2>1, <2>2, <2>3, EntriesFacts
  <2>5. 1 \in DOMAIN env
    BY <2>4
  <2>6. RequiredEnvs \subseteq DefaultEnvs \cup {env[i].name : i \in DOMAIN env}
    <3>1. "WORKER_UID" \in {env[i].name : i \in DOMAIN env}
      BY <2>4, <2>5
    <3> QED BY <3>1 DEF RequiredEnvs, DefaultEnvs
  <2>7. ASSUME \A i \in DOMAIN UserEnvs[w] : UserEnvs[w][i] # "WORKER_UID"
        PROVE  StartsWith(env, "WORKER_UID", v)
    <3>1. \A j \in DOMAIN env : env[j].name = "WORKER_UID" => j = 1
      BY <2>4, <2>7
    <3> QED BY <2>4, <2>5, <3>1 DEF StartsWith
  <2> QED BY <2>1, <2>6, <2>7 DEF w, env
<1>2. Inv => BootsAsNamed
  BY <1>1 DEF BootsAsNamed
<1> QED BY <1>2, Invariant, PTL

\* NamesAreOwn: default names never meet, in one node set or in two, and
\* nobody but the playbook can give a name twice.
THEOREM NamesAreOwn == Spec => []NamesIdentify
<1>1. ASSUME Inv, NEW p \in Built, NEW q \in Built, Clear(p), Clear(q),
             ContainerAt(p).name = ContainerAt(q).name
      PROVE  p = q
  <2>1. p \in Places /\ q \in Places
    BY DEF Built
  <2>2. ContainerAt(p).name = Text(NameOf(p)) /\ ContainerAt(q).name = Text(NameOf(q))
    BY <1>1, <2>1, BuiltFacts, UIDsOfFacts DEF ContainerFor, Clear
  <2>3. NameOf(p) = NameOf(q)
    BY <1>1, <2>2, TextFacts
  <2> QED BY <1>1, <2>1, <2>3, ClearNames
<1>2. Inv => NamesIdentify
  BY <1>1 DEF NamesIdentify
<1> QED BY <1>2, Invariant, PTL

\* PodsRefusedForCause: the API server never refuses a pod for the mounts
\* or the default names that the dispatcher chose.
THEOREM PodsRefusedForCause == Spec => []RefusedForCause
<1>1. Inv => RefusedForCause
  BY DEF Inv, Own, Failed, RefusedForCause
<1> QED BY <1>1, Invariant, PTL

\* AllFilesArrive: every file a worker asked for is in one of its mounts,
\* and nothing else is, for any files in any directories.
THEOREM AllFilesArrive == Spec => []FilesArrive
<1>1. ASSUME Inv, NEW p \in Built
      PROVE  LET mounts == ContainerAt(p).mounts  files == Files[WorkerAt(p)] IN
             /\ \A f \in files : \E m \in mounts : m.dir = f.dir /\ f.base \in DOMAIN m.files
             /\ \A m \in mounts : \A b \in DOMAIN m.files :
                  [src |-> m.files[b], dir |-> m.dir, base |-> b] \in files
  <2>1. WorkerAt(p) \in Workers /\ MountsFor(WorkerAt(p), ContainerAt(p).mounts)
    BY <1>1, BuiltFacts DEF ContainerFor
  <2>2. ASSUME NEW m \in ContainerAt(p).mounts, NEW b \in DOMAIN m.files
        PROVE  [src |-> m.files[b], dir |-> m.dir, base |-> b] \in Files[WorkerAt(p)]
    <3>0. PICK group \in groupMountPoints(WorkerAt(p)) :
            m \in {[dir |-> f.dir, files |-> data] : f \in group, data \in BinaryData(group)}
      BY <2>1 DEF MountsFor, MountsOf
    <3>1. PICK f \in group, data \in BinaryData(group) : m = [dir |-> f.dir, files |-> data]
      BY <3>0
    <3>2. PICK e \in Files[WorkerAt(p)] :
            group = {d \in Files[WorkerAt(p)] : d.dir = e.dir}
      BY DEF groupMountPoints
    <3>3. PICK d \in group : d.base = b /\ d.src = data[b]
      BY <2>2, <3>1 DEF BinaryData
    <3>4. d \in Files[WorkerAt(p)] /\ d.dir = m.dir
      BY <3>1, <3>2
    <3>5. d = [src |-> d.src, dir |-> d.dir, base |-> d.base]
      BY <2>1, <3>4, PodSpecAssumption DEF PodSpecAssumption
    <3> QED BY <3>1, <3>3, <3>4, <3>5
  <2> QED BY <2>1, <2>2 DEF MountsFor, Mounted
<1>2. Inv => FilesArrive
  BY <1>1 DEF FilesArrive
<1> QED BY <1>2, Invariant, PTL
=============================================================================
