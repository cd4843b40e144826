--------------------------- MODULE RegistryProofs ---------------------------
(***************************************************************************)
(* Type correctness of the registry, and where the addresses come from.    *)
(***************************************************************************)
EXTENDS RegistryProperties, FiniteSetTheorems, TLAPS

USE DEF thisRun

LEMMA InitTypes == Init => TypeOK
BY RegistryAssumption DEF RegistryAssumption, Init, TypeOK, Addresses, NobodyKnown

(* What a command of w does to the connection and to the bound on faults.   *)
Command(w) == (\E r \in up : Reaches(w, r)) \/ Breaks(w) \/ UNCHANGED <<conn, faults>>

LEMMA CommandTypes ==
  ASSUME TypeOK, NEW w \in Workers, Command(w)
  PROVE  conn' \in [Workers -> Replicas \cup {NoReplica}] /\ faults' \in 0..MaxFaults
<1>1. conn \in [Workers -> Replicas \cup {NoReplica}] /\ up \subseteq Replicas
  BY DEF TypeOK
<1>2. faults \in 0..MaxFaults /\ MaxFaults \in Nat
  BY RegistryAssumption DEF TypeOK, RegistryAssumption
<1>3. ASSUME NEW r \in up, Reaches(w, r)
      PROVE  conn' \in [Workers -> Replicas \cup {NoReplica}] /\ faults' \in 0..MaxFaults
  BY <1>1, <1>2, <1>3 DEF Reaches
<1>4. CASE Breaks(w)
  BY <1>1, <1>2, <1>4 DEF Breaks
<1> QED BY <1>1, <1>2, <1>3, <1>4 DEF Command

LEMMA StepsAreCommands ==
  ASSUME NEW w \in Workers, Step(w)
  PROVE  Command(w) /\ UNCHANGED <<up, ctxDone, thisRun, losses>>
<1>1. CASE Boot(w)
  BY <1>1 DEF Boot, Command
<1>2. CASE SetIP(w)
  BY <1>2 DEF SetIP, Command
<1>3. CASE NetworkInterfaceByIP(w) \/ Finish(w) \/ Tick(w)
  BY <1>3 DEF NetworkInterfaceByIP, Finish, Tick, Command, Returns, Turns
<1>4. ASSUME NEW v \in Workers, NEW withCtx \in BOOLEAN, GetIPWaiting(w, v, withCtx)
      PROVE  Command(w) /\ UNCHANGED <<up, ctxDone, thisRun, losses>>
  BY <1>4 DEF GetIPWaiting, Command
<1>5. CASE Get(w)
  BY <1>5 DEF Get, GetFrom, Command, Returns, Turns
<1> QED BY <1>1, <1>2, <1>3, <1>4, <1>5 DEF Step

(* What a step of w does to the addresses: it sets its own, which it        *)
(* registers, or it gets one that a replica holds.                          *)
Stores(w) ==
  \/ UNCHANGED <<store, registered>>
  \/ /\ \E r \in up : store' = [store EXCEPT ![r][w] = run]
     /\ registered' = [registered EXCEPT ![w] = @ \cup {run}]

Learns(w) ==
  \/ UNCHANGED known
  \/ \E r \in up : known' = [known EXCEPT ![w][peer[w]] = store[r][peer[w]]]

LEMMA StepsStoreAndLearn ==
  ASSUME NEW w \in Workers, Step(w)
  PROVE  Stores(w) /\ Learns(w)
<1>1. CASE Boot(w)
  BY <1>1 DEF Boot, Stores, Learns
<1>2. CASE SetIP(w)
  BY <1>2 DEF SetIP, Stores, Learns
<1>3. CASE NetworkInterfaceByIP(w) \/ Finish(w) \/ Tick(w)
  BY <1>3 DEF NetworkInterfaceByIP, Finish, Tick, Stores, Learns, Returns, Turns
<1>4. ASSUME NEW v \in Workers, NEW withCtx \in BOOLEAN, GetIPWaiting(w, v, withCtx)
      PROVE  Stores(w) /\ Learns(w)
  BY <1>4 DEF GetIPWaiting, Stores, Learns
<1>5. CASE Get(w)
  BY <1>5 DEF Get, GetFrom, Stores, Learns, Returns, Turns
<1> QED BY <1>1, <1>2, <1>3, <1>4, <1>5 DEF Step

LEMMA AddressTypes ==
  ASSUME TypeOK, NEW w \in Workers, Stores(w), Learns(w)
  PROVE  /\ store' \in [Replicas -> [Workers -> Addresses \cup {None}]]
         /\ registered' \in [Workers -> SUBSET Addresses]
         /\ known' \in [Workers -> [Workers -> Addresses \cup {None}]]
<1> DEFINE Held == [Workers -> Addresses \cup {None}]
<1>0. run \in Addresses /\ up \subseteq Replicas
  BY DEF TypeOK, Addresses
<1>1. store' \in [Replicas -> Held]
  <2>1. store \in [Replicas -> Held]
    BY DEF TypeOK
  <2>2. ASSUME NEW r \in up, store' = [store EXCEPT ![r][w] = run]
        PROVE  store' \in [Replicas -> Held]
    <3>1. [store[r] EXCEPT ![w] = run] \in Held
      BY <1>0, <2>1
    <3> HIDE DEF Held
    <3> QED BY <1>0, <2>1, <2>2, <3>1
  <2> QED BY <2>1, <2>2 DEF Stores
<1>2. registered' \in [Workers -> SUBSET Addresses]
  <2>1. registered \in [Workers -> SUBSET Addresses]
    BY DEF TypeOK
  <2> QED BY <1>0, <2>1 DEF Stores
<1>3. known' \in [Workers -> [Workers -> Addresses \cup {None}]]
  <2>1. CASE UNCHANGED known
    BY <2>1 DEF TypeOK
  <2>2. ASSUME NEW r \in up, known' = [known EXCEPT ![w][peer[w]] = store[r][peer[w]]]
        PROVE  known' \in [Workers -> [Workers -> Addresses \cup {None}]]
    <3>1. peer[w] \in Workers /\ r \in Replicas
      BY DEF TypeOK
    <3>2. store[r][peer[w]] \in Addresses \cup {None}
      BY <3>1 DEF TypeOK
    <3> QED BY <2>2, <3>1, <3>2 DEF TypeOK
  <2> QED BY <2>1, <2>2 DEF Learns
<1> QED BY <1>1, <1>2, <1>3

ClientTypes ==
  /\ pc \in [Workers ->
       {"boot", "setIP", "interface", "run", "get", "tick", "finished", "failed"}]
  /\ peer \in [Workers -> Workers]
  /\ waits \in [Workers -> BOOLEAN]

LEMMA CallTypes ==
  ASSUME ClientTypes, NEW w \in Workers, NEW step \in {"run", "get", "tick", "failed"},
         Returns(w, step) \/ Turns(w, step)
  PROVE  ClientTypes'
<1>1. pc' = [pc EXCEPT ![w] = step]
  BY DEF Returns, Turns, Goto
<1>2. peer' \in [Workers -> Workers] /\ waits' \in [Workers -> BOOLEAN]
  <2>1. CASE Returns(w, step)
    BY <2>1 DEF Returns, ClientTypes
  <2>2. CASE Turns(w, step)
    BY <2>2 DEF Turns, ClientTypes
  <2> QED BY <2>1, <2>2
<1> QED BY <1>1, <1>2 DEF ClientTypes

LEMMA StepClientTypes ==
  ASSUME ClientTypes, NEW w \in Workers, Step(w)
  PROVE  ClientTypes'
<1> USE DEF ClientTypes, Goto
<1>1. CASE Boot(w)
  BY <1>1 DEF Boot
<1>2. CASE SetIP(w)
  BY <1>2 DEF SetIP
<1>3. CASE NetworkInterfaceByIP(w) \/ Finish(w)
  BY <1>3 DEF NetworkInterfaceByIP, Finish
<1>4. ASSUME NEW v \in Workers, NEW withCtx \in BOOLEAN, GetIPWaiting(w, v, withCtx)
      PROVE  ClientTypes'
  BY <1>4 DEF GetIPWaiting
<1>5. CASE Get(w)
  <2>1. \E step \in {"run", "tick", "failed"} : Returns(w, step) \/ Turns(w, step)
    BY <1>5 DEF Get, GetFrom
  <2> QED BY <2>1, CallTypes
<1>6. CASE Tick(w)
  <2>1. \E step \in {"get", "failed"} : Returns(w, step) \/ Turns(w, step)
    BY <1>6 DEF Tick
  <2> QED BY <2>1, CallTypes
<1> QED BY <1>1, <1>2, <1>3, <1>4, <1>5, <1>6 DEF Step

LEMMA StepTypes ==
  ASSUME TypeOK, NEW w \in Workers, Step(w)
  PROVE  TypeOK'
<1>1. ClientTypes'
  BY StepClientTypes DEF TypeOK, ClientTypes
<1>2. Command(w) /\ UNCHANGED <<up, ctxDone, thisRun, losses>>
  BY StepsAreCommands
<1>3. Stores(w) /\ Learns(w)
  BY StepsStoreAndLearn
<1>4. conn' \in [Workers -> Replicas \cup {NoReplica}] /\ faults' \in 0..MaxFaults
  BY <1>2, CommandTypes
<1>5. /\ store' \in [Replicas -> [Workers -> Addresses \cup {None}]]
      /\ registered' \in [Workers -> SUBSET Addresses]
      /\ known' \in [Workers -> [Workers -> Addresses \cup {None}]]
  BY <1>3, AddressTypes
<1> QED BY <1>1, <1>2, <1>4, <1>5 DEF TypeOK, ClientTypes, Addresses

(* What Redis loses leaves the stores and the connections typed.            *)
LEMMA LossTypes ==
  ASSUME TypeOK, NEW r \in Replicas, Lose(r) \/ \E v \in Workers : Expire(r, v)
  PROVE  /\ store' \in [Replicas -> [Workers -> Addresses \cup {None}]]
         /\ conn' \in [Workers -> Replicas \cup {NoReplica}]
         /\ up' \subseteq Replicas /\ up' # {}
<1> DEFINE Held == [Workers -> Addresses \cup {None}]
<1>1. /\ store \in [Replicas -> Held] /\ conn \in [Workers -> Replicas \cup {NoReplica}]
      /\ up \subseteq Replicas /\ up # {}
  BY DEF TypeOK
<1>2. [v \in Workers |-> None] \in Held
  OBVIOUS
<1>3. ASSUME NEW v \in Workers
      PROVE  [store[r] EXCEPT ![v] = None] \in Held
  BY <1>1
<1> HIDE DEF Held
<1>4. ASSUME Lose(r)
      PROVE  /\ store' \in [Replicas -> Held]
             /\ conn' \in [Workers -> Replicas \cup {NoReplica}]
             /\ up' \subseteq Replicas /\ up' # {}
  <2>1. store' \in [Replicas -> Held]
    BY <1>1, <1>2, <1>4 DEF Lose
  <2>2. conn' \in [Workers -> Replicas \cup {NoReplica}]
    BY <1>1, <1>4 DEF Lose
  <2>3. CASE up = {r}
    BY <1>1, <1>4, <2>1, <2>2, <2>3 DEF Lose
  <2>4. CASE up # {r}
    <3>1. PICK s \in up : s # r
      BY <1>1, <1>4, <2>4 DEF Lose
    <3> QED BY <1>1, <1>4, <2>1, <2>2, <2>4, <3>1 DEF Lose
  <2> QED BY <2>3, <2>4
<1>5. ASSUME NEW v \in Workers, Expire(r, v)
      PROVE  /\ store' \in [Replicas -> Held]
             /\ conn' \in [Workers -> Replicas \cup {NoReplica}]
             /\ up' \subseteq Replicas /\ up' # {}
  <2>1. store' \in [Replicas -> Held]
    BY <1>1, <1>3, <1>5 DEF Expire
  <2> QED BY <1>1, <1>5, <2>1 DEF Expire
<1> QED BY <1>4, <1>5 DEF Held

LEMMA NextTypes == TypeOK /\ [Next]_vars => TypeOK'
<1> SUFFICES ASSUME TypeOK, [Next]_vars PROVE TypeOK'
  OBVIOUS
<1> USE RegistryAssumption DEF TypeOK, RegistryAssumption, Addresses, clientVars
<1>1. ASSUME NEW w \in Workers, Cancel(w) \/ Reap(w)
      PROVE  TypeOK'
  BY <1>1 DEF Cancel, Reap
<1>2. ASSUME NEW r \in Replicas, ScaleUp(r)
      PROVE  TypeOK'
  BY <1>2 DEF ScaleUp
<1>3. ASSUME NEW r \in Replicas, Lose(r) \/ \E v \in Workers : Expire(r, v)
      PROVE  TypeOK'
  <2>1. losses' \in 0..MaxLosses
    BY <1>3 DEF Lose, Expire
  <2>2. UNCHANGED <<clientVars, ctxDone, thisRun, faults, registered>>
    BY <1>3 DEF Lose, Expire
  <2> QED BY <1>3, <2>1, <2>2, LossTypes
<1>4. CASE NextRun
  BY <1>4 DEF NextRun, NobodyKnown
<1>5. CASE UNCHANGED vars
  BY <1>5 DEF vars
<1> QED BY <1>1, <1>2, <1>3, <1>4, <1>5, StepTypes DEF Next, RedisStep, Stopped

(* Every state of the registry is well typed; in particular some replica    *)
(* always serves.                                                           *)
THEOREM TypeCorrect == Spec => []TypeOK
BY InitTypes, NextTypes, PTL DEF Spec

-----------------------------------------------------------------------------
(* Where the addresses come from.                                           *)

Traced ==
  /\ \A r \in Replicas, v \in Workers : store[r][v] # None => store[r][v] \in registered[v]
  /\ AddressWasRegistered

LEMMA StepTraced ==
  ASSUME TypeOK, Traced, NEW w \in Workers, Step(w)
  PROVE  Traced'
<1>1. /\ store \in [Replicas -> [Workers -> Addresses \cup {None}]]
      /\ known \in [Workers -> [Workers -> Addresses \cup {None}]]
      /\ registered \in [Workers -> SUBSET Addresses]
      /\ up \subseteq Replicas /\ peer[w] \in Workers
  BY DEF TypeOK
<1>2. Stores(w) /\ Learns(w)
  BY StepsStoreAndLearn
<1>3. \A v \in Workers : registered[v] \subseteq registered'[v]
  <2>1. CASE registered' = [registered EXCEPT ![w] = @ \cup {run}]
    BY <1>1, <2>1
  <2> QED BY <1>2, <2>1 DEF Stores
<1>4. ASSUME NEW r \in Replicas, NEW v \in Workers, store'[r][v] # None
      PROVE  store'[r][v] \in registered'[v]
  <2>1. CASE UNCHANGED <<store, registered>>
    BY <1>4, <2>1 DEF Traced
  <2>2. ASSUME NEW s \in up, store' = [store EXCEPT ![s][w] = run],
               registered' = [registered EXCEPT ![w] = @ \cup {run}]
        PROVE  store'[r][v] \in registered'[v]
    <3>1. CASE s = r /\ v = w
      BY <1>1, <2>2, <3>1
    <3>2. CASE s # r \/ v # w
      <4>1. store'[r][v] = store[r][v]
        BY <1>1, <2>2, <3>2
      <4> QED BY <1>3, <1>4, <4>1 DEF Traced
    <3> QED BY <3>1, <3>2
  <2> QED BY <1>2, <2>1, <2>2 DEF Stores
<1>5. ASSUME NEW x \in Workers, NEW v \in Workers, known'[x][v] # None
      PROVE  known'[x][v] \in registered'[v]
  <2>1. CASE UNCHANGED known
    BY <1>3, <1>5, <2>1 DEF Traced, AddressWasRegistered
  <2>2. ASSUME NEW s \in up, known' = [known EXCEPT ![w][peer[w]] = store[s][peer[w]]]
        PROVE  known'[x][v] \in registered'[v]
    <3>1. known'[x][v] \in {known[x][v], store[s][v]} /\ s \in Replicas
      BY <1>1, <2>2
    <3> QED BY <1>3, <1>5, <3>1 DEF Traced, AddressWasRegistered
  <2> QED BY <1>2, <2>1, <2>2 DEF Learns
<1> QED BY <1>4, <1>5 DEF Traced, AddressWasRegistered

LEMMA NextTraced == TypeOK /\ Traced /\ [Next]_vars => Traced'
<1> SUFFICES ASSUME TypeOK, Traced, [Next]_vars PROVE Traced'
  OBVIOUS
<1>1. store \in [Replicas -> [Workers -> Addresses \cup {None}]]
  BY DEF TypeOK
<1>2. ASSUME NEW w \in Workers, Cancel(w) \/ Reap(w)
      PROVE  Traced'
  BY <1>2 DEF Cancel, Reap, clientVars, Traced, AddressWasRegistered
<1>3. ASSUME NEW r \in Replicas, ScaleUp(r)
      PROVE  Traced'
  BY <1>3 DEF ScaleUp, clientVars, Traced, AddressWasRegistered
<1>4. ASSUME NEW r \in Replicas, Lose(r)
      PROVE  Traced'
  BY <1>1, <1>4 DEF Lose, clientVars, Traced, AddressWasRegistered
<1>5. ASSUME NEW r \in Replicas, NEW v \in Workers, Expire(r, v)
      PROVE  Traced'
  BY <1>1, <1>5 DEF Expire, clientVars, Traced, AddressWasRegistered
<1>6. CASE NextRun
  BY <1>6 DEF NextRun, NobodyKnown, Traced, AddressWasRegistered
<1>7. CASE UNCHANGED vars
  BY <1>7 DEF vars, clientVars, Traced, AddressWasRegistered
<1> QED BY <1>2, <1>3, <1>4, <1>5, <1>6, <1>7, StepTraced DEF Next, RedisStep, Stopped

LEMMA InitTraced == Init => Traced
BY DEF Init, NobodyKnown, Traced, AddressWasRegistered

(* Every address that a worker got was set by the node it asked for: for    *)
(* any replicas, losses, broken commands and reruns.  The stores hold only  *)
(* what their owners registered, and that is what the strengthening adds.   *)
THEOREM AddressesAreTraced == Spec => []AddressWasRegistered
<1>1. Traced => AddressWasRegistered
  BY DEF Traced
<1> QED BY <1>1, InitTypes, NextTypes, InitTraced, NextTraced, PTL DEF Spec

-----------------------------------------------------------------------------
(* The barrier.                                                             *)

\* Addresses are of this run or an earlier one, and a worker that has not come
\* to SetIP, or never will, has not registered the one of this run.
UnregisteredYet ==
  \A v \in Workers :
    /\ \A n \in registered[v] : n <= run
    /\ failsAt[v] = "early" => pc[v] \in {"boot", "failed"} /\ run \notin registered[v]
    /\ pc[v] \in {"boot", "setIP"} => run \notin registered[v]

FinishedKnows ==
  \A w, v \in Workers : pc[w] = "finished" /\ v # w => known[w][v] # None

Barrier == UnregisteredYet /\ FinishedKnows

LEMMA StepBarrier ==
  ASSUME TypeOK, Barrier, NEW w \in Workers, Step(w)
  PROVE  Barrier'
<1> USE DEF Barrier, UnregisteredYet, FinishedKnows, Goto, Returns, Turns, Addresses
<1>0. /\ pc \in [Workers ->
          {"boot", "setIP", "interface", "run", "get", "tick", "finished", "failed"}]
      /\ registered \in [Workers -> SUBSET Addresses]
      /\ known \in [Workers -> [Workers -> Addresses \cup {None}]]
      /\ run \in 1..MaxRuns /\ MaxRuns \in Nat
  BY RegistryAssumption DEF TypeOK, RegistryAssumption
<1>1. CASE Boot(w)
  BY <1>0, <1>1 DEF Boot
<1>2. CASE SetIP(w)
  BY <1>0, <1>2 DEF SetIP
<1>3. CASE NetworkInterfaceByIP(w)
  BY <1>0, <1>3 DEF NetworkInterfaceByIP
<1>4. CASE Finish(w)
  BY <1>0, <1>4 DEF Finish
<1>5. ASSUME NEW v \in Workers, NEW withCtx \in BOOLEAN, GetIPWaiting(w, v, withCtx)
      PROVE  Barrier'
  BY <1>0, <1>5 DEF GetIPWaiting
<1>6. CASE Get(w)
  <2>1. pc[w] = "get" /\ pc'[w] \in {"run", "tick", "failed"} /\ UNCHANGED <<thisRun, registered>>
    BY <1>0, <1>6 DEF Get, GetFrom
  <2>2. \A v \in Workers \ {w} : pc'[v] = pc[v] /\ known'[v] = known[v]
    BY <1>0, <1>6 DEF Get, GetFrom
  <2> QED BY <2>1, <2>2
<1>7. CASE Tick(w)
  BY <1>0, <1>7 DEF Tick
<1> QED BY <1>1, <1>2, <1>3, <1>4, <1>5, <1>6, <1>7 DEF Step

LEMMA NextBarrier == TypeOK /\ Barrier /\ [Next]_vars => Barrier'
<1> SUFFICES ASSUME TypeOK, Barrier, [Next]_vars PROVE Barrier'
  OBVIOUS
<1>1. ASSUME UNCHANGED <<pc, known, thisRun, registered>>
      PROVE  Barrier'
  BY <1>1 DEF Barrier, UnregisteredYet, FinishedKnows
<1>2. ASSUME NEW w \in Workers, Cancel(w) \/ Reap(w)
      PROVE  Barrier'
  BY <1>1, <1>2 DEF Cancel, Reap, clientVars
<1>3. CASE RedisStep
  BY <1>1, <1>3 DEF RedisStep, ScaleUp, Lose, Expire, clientVars
<1>4. CASE NextRun
  <2>1. run \in 1..MaxRuns /\ MaxRuns \in Nat /\ registered \in [Workers -> SUBSET Addresses]
    BY RegistryAssumption DEF RegistryAssumption, TypeOK
  <2> QED BY <1>4, <2>1 DEF NextRun, Barrier, UnregisteredYet, FinishedKnows, Addresses
<1>5. CASE UNCHANGED vars
  BY <1>1, <1>5 DEF vars, clientVars
<1> QED BY <1>2, <1>3, <1>4, <1>5, StepBarrier DEF Next, Stopped

LEMMA InitBarrier == Init => Barrier
BY DEF Init, Barrier, UnregisteredYet, FinishedKnows

(* Whoever finishes the first run has met every other worker, and whoever   *)
(* finishes a later one has met those whose address of that run it got: and *)
(* all of these have passed their early checks and set their address.  For  *)
(* any number of workers, any failing checks and any faults.                *)
THEOREM TheAbsentAreNotMet == Spec => []NobodyMeetsTheAbsent
<1>1. TypeOK /\ Traced /\ Barrier => NobodyMeetsTheAbsent
  <2> SUFFICES ASSUME TypeOK, Traced, Barrier, NEW w \in Workers, NEW v \in Workers,
                      pc[w] = "finished", v # w, run = 1 \/ known[w][v] = run
               PROVE  CameIn(v)
    BY DEF NobodyMeetsTheAbsent
  <2>1. known[w][v] \in registered[v] /\ known[w][v] \in Addresses
    BY DEF TypeOK, Traced, AddressWasRegistered, Barrier, FinishedKnows
  <2>2. known[w][v] = run
    <3>1. known[w][v] <= run /\ MaxRuns \in Nat
      BY <2>1, RegistryAssumption DEF RegistryAssumption, Barrier, UnregisteredYet
    <3> QED BY <2>1, <3>1 DEF Addresses
  <2> QED BY <2>1, <2>2 DEF CameIn, Barrier, UnregisteredYet
<1> QED BY <1>1, InitTypes, NextTypes, InitTraced, NextTraced, InitBarrier, NextBarrier, PTL
         DEF Spec

-----------------------------------------------------------------------------
(* One Redis that keeps what it has.                                        *)

LEMMA OneIsUp ==
  ASSUME IsFiniteSet(up), OneRedis
  PROVE  \E r \in up : up = {r}
<1>1. PICK r \in up : TRUE
  BY FS_EmptySet DEF OneRedis
<1>2. Cardinality({r}) = 1 /\ {r} \in SUBSET up
  BY FS_Singleton
<1> QED BY <1>2, FS_Subset DEF OneRedis

(* The service has no other pod to send anybody to, and this one is not     *)
(* replaced.                                                                *)
LEMMA NoLossStep ==
  ASSUME TypeOK, IsFiniteSet(up), OneRedis, OneRedis', [Next]_vars
  PROVE  UNCHANGED up /\ (UNCHANGED store \/ \E w \in Workers : Step(w))
<1>1. losses = 0 /\ losses' = 0
  BY DEF OneRedis
<1>2. ASSUME NEW r \in Replicas, Lose(r) \/ \E v \in Workers : Expire(r, v)
      PROVE  FALSE
  BY <1>1, <1>2 DEF Lose, Expire
<1>3. ASSUME NEW r \in Replicas, ScaleUp(r)
      PROVE  FALSE
  <2>1. r \notin up /\ up' = up \cup {r} /\ Cardinality(up) = 1 /\ Cardinality(up') = 1
    BY <1>3 DEF ScaleUp, OneRedis
  <2>2. Cardinality(up \cup {r}) = Cardinality(up) + 1
    BY <2>1, FS_AddElement
  <2> QED BY <2>1, <2>2
<1>4. ASSUME NEW w \in Workers, Step(w)
      PROVE  UNCHANGED up
  BY <1>4, StepsAreCommands
<1>5. ASSUME NEW w \in Workers, Cancel(w) \/ Reap(w)
      PROVE  UNCHANGED <<up, store>>
  BY <1>5 DEF Cancel, Reap
<1>6. CASE NextRun \/ UNCHANGED vars
  BY <1>6 DEF NextRun, vars
<1> QED BY <1>2, <1>3, <1>4, <1>5, <1>6 DEF Next, RedisStep, Stopped

LEMMA FoundStep ==
  ASSUME TypeOK, IsFiniteSet(up), SetIsFound, OneRedis, OneRedis', [Next]_vars
  PROVE  SetIsFound' /\ IsFiniteSet(up)'
<1> USE DEF SetIsFound, Registers, Goto, Returns, Turns
<1>0. /\ pc \in [Workers ->
          {"boot", "setIP", "interface", "run", "get", "tick", "finished", "failed"}]
      /\ store \in [Replicas -> [Workers -> Addresses \cup {None}]]
      /\ up \subseteq Replicas /\ run \in Nat \ {None}
  BY RegistryAssumption DEF TypeOK, RegistryAssumption, None
<1>1. UNCHANGED up /\ (UNCHANGED store \/ \E w \in Workers : Step(w))
  BY NoLossStep
<1>2. ASSUME NEW w \in Workers, Step(w)
      PROVE  SetIsFound'
  <2>1. CASE Boot(w)
    BY <1>0, <1>1, <2>1 DEF Boot
  <2>2. CASE SetIP(w)
    <3>1. PICK r \in up : up = {r}
      BY OneIsUp
    <3>2. CASE store' = [store EXCEPT ![r][w] = run]
      <4>1. \A v \in Workers : store'[r][v] = IF v = w THEN run ELSE store[r][v]
        BY <1>0, <3>2
      <4>2. \A v \in Workers \ {w} : pc'[v] = pc[v]
        BY <1>0, <2>2 DEF SetIP
      <4> QED BY <1>0, <1>1, <3>1, <4>1, <4>2
    <3>3. CASE UNCHANGED store /\ pc' = [pc EXCEPT ![w] = "failed"]
      BY <1>0, <1>1, <3>3
    <3> QED BY <2>2, <3>1, <3>2, <3>3 DEF SetIP
  <2>3. CASE NetworkInterfaceByIP(w) \/ Finish(w) \/ Tick(w)
    BY <1>0, <1>1, <2>3 DEF NetworkInterfaceByIP, Finish, Tick
  <2>4. ASSUME NEW v \in Workers, NEW withCtx \in BOOLEAN, GetIPWaiting(w, v, withCtx)
        PROVE  SetIsFound'
    BY <1>0, <1>1, <2>4 DEF GetIPWaiting
  <2>5. CASE Get(w)
    <3>1. UNCHANGED store /\ pc[w] = "get" /\ \A v \in Workers \ {w} : pc'[v] = pc[v]
      BY <1>0, <2>5 DEF Get, GetFrom
    <3> QED BY <1>1, <3>1
  <2> QED BY <1>2, <2>1, <2>2, <2>3, <2>4, <2>5 DEF Step
<1>3. ASSUME UNCHANGED <<store, pc>>
      PROVE  SetIsFound'
  BY <1>1, <1>3
<1>4. ASSUME NEW w \in Workers, Cancel(w) \/ Reap(w)
      PROVE  SetIsFound'
  BY <1>3, <1>4 DEF Cancel, Reap, clientVars
<1>5. CASE RedisStep
  BY <1>1, <1>5 DEF RedisStep, ScaleUp, Lose, Expire, clientVars, OneRedis
<1>6. CASE NextRun
  BY <1>0, <1>6 DEF NextRun
<1>7. CASE UNCHANGED vars
  BY <1>3, <1>7 DEF vars, clientVars
<1> QED BY <1>1, <1>2, <1>4, <1>5, <1>6, <1>7 DEF Next, Stopped

(* As long as there is one Redis pod that keeps what it has, whatever a     *)
(* node has set is found by whoever asks: in all runs, through broken       *)
(* commands, cancelled contexts and any number of new connections.          *)
THEOREM WhatIsSetIsFound == Spec /\ []OneRedis => []SetIsFound
<1>1. Init => SetIsFound /\ IsFiniteSet(up)
  BY FS_Singleton DEF Init, SetIsFound, Registers
<1>2. TypeOK /\ IsFiniteSet(up) /\ SetIsFound /\ OneRedis /\ OneRedis' /\ [Next]_vars
        => SetIsFound' /\ IsFiniteSet(up)'
  BY FoundStep
<1> QED BY <1>1, <1>2, TypeCorrect, PTL DEF Spec

(* Where nothing breaks and everybody starts, nobody fails: of the ways     *)
(* out of workerCmd and of the waits only the good one is left.  With what  *)
(* is found, AllMeet asks of the rest only that the workers are scheduled.  *)
THEOREM TheQuietDoNotFail == Spec /\ [](AllStart /\ Quiet) => []NobodyFails
<1>1. Init => NobodyFails
  BY DEF Init, NobodyFails
<1>2. TypeOK /\ NobodyFails /\ (AllStart /\ Quiet) /\ (AllStart /\ Quiet)' /\ [Next]_vars => NobodyFails'
  <2> SUFFICES ASSUME TypeOK, NobodyFails, AllStart, Quiet, Quiet', [Next]_vars
               PROVE  NobodyFails'
    OBVIOUS
  <2> USE DEF NobodyFails, Goto, Returns, Turns
  <2>0. /\ pc \in [Workers ->
            {"boot", "setIP", "interface", "run", "get", "tick", "finished", "failed"}]
        /\ \A w \in Workers : failsAt[w] = "no" /\ ~CtxIsDone(w) /\ ~Breaks(w)
    BY DEF TypeOK, AllStart, Quiet, CtxIsDone, Breaks
  <2>1. ASSUME NEW w \in Workers, Step(w)
        PROVE  NobodyFails'
    <3>1. CASE Boot(w)
      BY <2>0, <3>1 DEF Boot
    <3>2. CASE SetIP(w)
      BY <2>0, <3>2 DEF SetIP
    <3>3. CASE NetworkInterfaceByIP(w) \/ Finish(w) \/ Tick(w)
      BY <2>0, <3>3 DEF NetworkInterfaceByIP, Finish, Tick
    <3>4. ASSUME NEW v \in Workers, NEW withCtx \in BOOLEAN, GetIPWaiting(w, v, withCtx)
          PROVE  NobodyFails'
      BY <2>0, <3>4 DEF GetIPWaiting
    <3>5. CASE Get(w)
      BY <2>0, <3>5 DEF Get, GetFrom
    <3> QED BY <2>1, <3>1, <3>2, <3>3, <3>4, <3>5 DEF Step
  <2>2. ASSUME UNCHANGED pc
        PROVE  NobodyFails'
    BY <2>2
  <2>3. ASSUME NEW w \in Workers, Cancel(w) \/ Reap(w)
        PROVE  NobodyFails'
    BY <2>2, <2>3 DEF Cancel, Reap, clientVars
  <2>4. CASE RedisStep
    BY <2>2, <2>4 DEF RedisStep, ScaleUp, Lose, Expire, clientVars
  <2>5. CASE NextRun
    BY <2>0, <2>5 DEF NextRun
  <2>6. CASE UNCHANGED vars
    BY <2>2, <2>6 DEF vars, clientVars
  <2> QED BY <2>1, <2>3, <2>4, <2>5, <2>6 DEF Next, Stopped
<1> QED BY <1>1, <1>2, TypeCorrect, PTL DEF Spec
=============================================================================
