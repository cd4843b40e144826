------------------------------- MODULE Cluster -------------------------------
(***************************************************************************)
(* The Kubernetes API server and the two backends that run on it, as       *)
(* pkg/dispatcher uses them through client-go.  Nothing here is under      *)
(* src/: it is the environment of the dispatcher, external to it.          *)
(*                                                                         *)
(* An object is known by its name.  A client call has one of three ends:   *)
(* the server answers it as asked, the server refuses it (NotFound,        *)
(* AlreadyExists), or it breaks on the way -- and a Create that breaks may *)
(* or may not have been applied.  The number of broken calls and of pod    *)
(* evictions is bounded so that the state space is finite.                 *)
(***************************************************************************)
EXTENDS Integers, FiniteSets

CONSTANTS
  InitialPVs,     \* volumes of the wanted size that exist before the first run
  MaxFaults,      \* bound: API calls that break
  MaxEvictions,   \* bound: times a backend loses its only ready replica
  BareNodes,      \* may the list of nodes be empty, or its first node have no address?
  CtxCancellable  \* may the context be cancelled? FALSE for context.TODO()

ASSUME ClusterAssumption ==
  /\ InitialPVs \in Nat
  /\ MaxFaults \in Nat
  /\ MaxEvictions \in Nat
  /\ BareNodes \in BOOLEAN
  /\ CtxCancellable \in BOOLEAN

VARIABLES
  objs,       \* names of the objects that exist
  pvs,        \* number of volumes of the size MinIO asks for
  ready,      \* deployments with ReadyReplicas > 0
  everReady,  \* history: deployments that have been ready at some time
  reachable,  \* services that accept a TCP connection
  faults,     \* calls broken so far
  evictions,  \* evictions so far
  ctxDone     \* the context given to every call is done

healthVars == <<ready, everReady, reachable, evictions>>

Deployments == {"redis-deployment", "minio"}
Services    == {"redis-service", "minio-service"}
Objects     == Deployments \cup Services \cup {"redis-hpa", "minio-data"}

\* The service in front of a deployment, by its label selector.
ServiceOf(d) == IF d = "minio" THEN "minio-service" ELSE "redis-service"

ClusterTypeOK ==
  /\ objs \subseteq Objects
  /\ pvs \in Nat
  /\ ready \subseteq Deployments
  /\ everReady \subseteq Deployments
  /\ reachable \subseteq Services
  /\ faults \in 0..MaxFaults
  /\ evictions \in 0..MaxEvictions
  /\ ctxDone \in BOOLEAN

ClusterInit ==
  /\ objs = {}
  /\ pvs = InitialPVs
  /\ ready = {} /\ everReady = {} /\ reachable = {}
  /\ faults = 0 /\ evictions = 0
  /\ ctxDone = FALSE

-----------------------------------------------------------------------------
(* One API call.                                                           *)

Answers == ~ctxDone /\ UNCHANGED faults

Breaks ==
  \/ ctxDone /\ UNCHANGED faults
  \/ ~ctxDone /\ faults < MaxFaults /\ faults' = faults + 1

Found(o)    == Answers /\ o \in objs /\ UNCHANGED objs
NotFound(o) == Answers /\ o \notin objs /\ UNCHANGED objs
GetBreaks   == Breaks /\ UNCHANGED objs
Created(o)  == Answers /\ o \notin objs /\ objs' = objs \cup {o}

\* The client sees an error: AlreadyExists, or a broken call whose effect on
\* the server is unknown.
NotCreated(o) ==
  \/ Answers /\ o \in objs /\ UNCHANGED objs
  \/ Breaks /\ objs' \in {objs, objs \cup {o}}

-----------------------------------------------------------------------------
(* The kubelet, the endpoints controller and the caller's context.         *)

BecomeReady(d) ==
  /\ d \in objs \ ready
  /\ ready' = ready \cup {d}
  /\ everReady' = everReady \cup {d}
  /\ UNCHANGED <<reachable, evictions>>

BecomeReachable(d) ==
  /\ d \in ready
  /\ ServiceOf(d) \in objs \ reachable
  /\ reachable' = reachable \cup {ServiceOf(d)}
  /\ UNCHANGED <<ready, everReady, evictions>>

Evict(d) ==
  /\ d \in ready
  /\ evictions < MaxEvictions
  /\ evictions' = evictions + 1
  /\ ready' = ready \ {d}
  /\ reachable' = reachable \ {ServiceOf(d)}
  /\ UNCHANGED everReady

Backends(d) == BecomeReady(d) \/ BecomeReachable(d) \/ Evict(d)
=============================================================================
