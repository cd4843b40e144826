------------------------- MODULE DispatcherOutcomes -------------------------
(***************************************************************************)
(* How a run of the dispatcher may end: what it takes to kill the process, *)
(* and what it takes for "all worker nodes deployed" to be true.           *)
(***************************************************************************)
EXTENDS DispatcherSafety

(* The least-number principle, for a set.                                   *)
LEMMA LeastNumber ==
  ASSUME NEW S, S \subseteq Nat, S # {}
  PROVE  \E x \in S : \A y \in S : x <= y
<1>1. \E x \in S : \A y \in S : <<y, x>> \notin OpToRel(<, Nat)
  BY NatLessThanWellFounded, WFMin
<1>2. \A x, y \in S : y < x => <<y, x>> \in OpToRel(<, Nat)
  BY DEF OpToRel
<1>3. PICK x \in S : \A y \in S : ~(y < x)
  BY <1>1, <1>2
<1>4. \A y \in S : x <= y
  BY <1>3
<1> QED BY <1>4

\* chain is the recursive function of Prints(e).
Chases(chain, e) ==
  chain = [i \in 0..Cardinality(Errs) |-> IF i = 0 THEN e ELSE CauseOf[chain[i - 1]]]

LEMMA PrintsIsChase ==
  ASSUME NEW e
  PROVE  Prints(e) <=> (CHOOSE chain : Chases(chain, e))[Cardinality(Errs)] \notin Errs
BY DEF Prints, Chases

LEMMA ErrsAreFinite == IsFiniteSet(Errs)
<1> DEFINE name ==
  <<"ErrNilNodeSet", "ErrNoWorkersInNodeSet", "ErrAddingFileToPod",
    "ErrGettingDeployment", "ErrCreatingDeployment", "ErrCreatingAutoScaler",
    "ErrWaitingForRedis", "ErrWaitingForMinio", "ErrCreatingService",
    "ErrGettingService", "ErrWaitingForRedisService",
    "ErrWaitingForMinioService", "ErrTimeout", "ErrFailedConnection",
    "ErrGettingNodes", "ErrNoNodesFound", "ErrGettingMinioEndpoint",
    "ErrListingPersistentVolumes", "ErrCreatingPersistentVolume",
    "ErrCreatingPersistentVolumeClaim">>
<1>1. name \in [1..20 -> Errs]
  BY DEF Errs
<1>2. \A e \in Errs : \E i \in 1..20 : name[i] = e
  <2>1. Errs = {name[i] : i \in {1, 2, 3, 4, 5, 6, 7, 8, 9, 10, 11, 12, 13, 14, 15, 16, 17,
                                18, 19, 20}}
    BY DEF Errs
  <2>2. {1, 2, 3, 4, 5, 6, 7, 8, 9, 10, 11, 12, 13, 14, 15, 16, 17, 18, 19, 20} \subseteq 1..20
    OBVIOUS
  <2> HIDE DEF name
  <2> QED BY <2>1, <2>2
<1>3. name \in Surjection(1..20, Errs)
  BY <1>1, <1>2 DEF Surjection
<1>4. IsFiniteSet(1..20)
  <2>1. 1 \in Int /\ 20 \in Int
    OBVIOUS
  <2> QED BY <2>1, FS_Interval, Zenon
<1> HIDE DEF name
<1> QED BY <1>3, <1>4, FS_Surjection

LEMMA ErrsAreThree == Cardinality(Errs) \in Nat /\ Cardinality(Errs) >= 3
<1> DEFINE three == {"ErrTimeout", "ErrGettingNodes", "ErrNilNodeSet"}
<1>1. IsFiniteSet(three) /\ Cardinality(three) = 3
  <2>1. IsFiniteSet({"ErrTimeout"}) /\ Cardinality({"ErrTimeout"}) = 1
    BY FS_Singleton
  <2> DEFINE two == {"ErrTimeout"} \cup {"ErrGettingNodes"}
  <2>2. IsFiniteSet(two) /\ Cardinality(two) = 2
    <3>1. "ErrGettingNodes" \notin {"ErrTimeout"}
      OBVIOUS
    <3> QED BY <2>1, <3>1, FS_AddElement
  <2>3. three = two \cup {"ErrNilNodeSet"} /\ "ErrNilNodeSet" \notin two
    OBVIOUS
  <2> HIDE DEF two, three
  <2>4. IsFiniteSet(two \cup {"ErrNilNodeSet"})
        /\ Cardinality(two \cup {"ErrNilNodeSet"}) = Cardinality(two) + 1
    BY <2>2, <2>3, FS_AddElement
  <2> QED BY <2>2, <2>3, <2>4
<1>2. three \subseteq Errs
  BY DEF Errs
<1>3. IsFiniteSet(Errs)
  BY ErrsAreFinite
<1>4. Cardinality(three) <= Cardinality(Errs)
  <2> HIDE DEF three
  <2> QED BY <1>2, <1>3, FS_Subset
<1> QED BY <1>1, <1>3, <1>4, FS_CardinalityType

-----------------------------------------------------------------------------
(* Which of the package's errors may come to wrap which.                    *)

Wrapped ==
  {<<"ErrWaitingForRedisService", "ErrGettingService">>,
   <<"ErrWaitingForRedisService", "ErrTimeout">>,
   <<"ErrWaitingForMinio", "ErrTimeout">>,
   <<"ErrGettingMinioEndpoint", "ErrGettingService">>,
   <<"ErrGettingMinioEndpoint", "ErrGettingNodes">>,
   <<"ErrGettingMinioEndpoint", "ErrNoNodesFound">>,
   <<"ErrWaitingForMinioService", "ErrGettingMinioEndpoint">>,
   <<"ErrWaitingForMinioService", "ErrTimeout">>,
   <<"ErrCreatingService", "ErrCreatingService">>}

InOrder(c) == \A e \in Errs : c[e] \in Errs => <<e, c[e]>> \in Wrapped

WrapsInOrder == InOrder(cause)

(* Whoever is about to create the MinIO service saw none, and nobody else   *)
(* makes one: so while no call breaks the error that would wrap itself does *)
(* not arise.                                                               *)
FreshService ==
  \A g \in NodeSets : pc[g] = "minioSvcCreate" => "minio-service" \notin objs

CausesInv == WrapsInOrder /\ (Untroubled => ~Tangled /\ FreshService)

(* Errors wrapped in that order end after three causes, whichever goroutines *)
(* set them, unless ErrCreatingService has come to wrap itself.             *)
LEMMA OrderedErrorsPrint ==
  ASSUME WrapsInOrder, ~Tangled, NEW e \in ErrValues, cause \in [Errs -> ErrValues]
  PROVE  Prints(e)
<1> DEFINE N == Cardinality(Errs)
           one == CauseOf[e]
           two == CauseOf[one]
           end == CauseOf[two]
<1>1. N \in Nat /\ N >= 3
  BY ErrsAreThree
<1>2. /\ \A x \in ErrValues \ Errs : CauseOf[x] = x
      /\ \A x \in Errs : CauseOf[x] = cause[x]
      /\ \A x \in ErrValues : CauseOf[x] \in ErrValues
  BY DEF CauseOf, ErrValues
<1>3. end \in ErrValues \ Errs
  <2>1. \A x \in Errs : cause[x] \in Errs => <<x, cause[x]>> \in Wrapped
    BY DEF WrapsInOrder, InOrder
  <2>2. "ErrCreatingService" \in Errs => cause["ErrCreatingService"] \notin Errs
    BY <2>1 DEF Tangled, Wrapped
  <2>3. \A x \in {"ErrGettingService", "ErrTimeout", "ErrGettingNodes", "ErrNoNodesFound"} :
          x \in Errs => cause[x] \notin Errs
    BY <2>1 DEF Wrapped
  <2>4. \A x \in Errs : cause[x] \in Errs =>
          \/ cause[x] \in {"ErrGettingService", "ErrTimeout", "ErrGettingNodes", "ErrNoNodesFound"}
          \/ cause[x] = "ErrGettingMinioEndpoint"
    BY <2>1, <2>2 DEF Wrapped
  <2>5. cause["ErrGettingMinioEndpoint"] \in Errs =>
          cause["ErrGettingMinioEndpoint"]
            \in {"ErrGettingService", "ErrTimeout", "ErrGettingNodes", "ErrNoNodesFound"}
    BY <2>1 DEF Wrapped, Errs
  <2>6. CASE e \notin Errs \/ one \notin Errs
    BY <1>2, <2>6
  <2>7. CASE e \in Errs /\ one \in Errs
    <3>1. one = cause[e] /\ two = cause[one]
      BY <1>2, <2>7
    <3> HIDE DEF one, two
    <3>2. two \notin Errs \/ cause[two] \notin Errs
      BY <2>3, <2>4, <2>5, <2>7, <3>1
    <3>3. two \in ErrValues
      BY <1>2, <2>7, <3>1
    <3> QED BY <1>2, <3>2, <3>3
  <2> QED BY <2>6, <2>7
<1> HIDE DEF end
<1>4. CauseOf[end] = end
  BY <1>2, <1>3
<1>5. \E chain : Chases(chain, e)
  <2> DEFINE long == [i \in 0..N |-> IF i = 0 THEN e ELSE IF i = 1 THEN one
                                     ELSE IF i = 2 THEN two ELSE end]
  <2>1. \A i \in 0..N : i # 0 => i - 1 \in 0..N /\ CauseOf[long[i - 1]] = long[i]
    <3>1. SUFFICES ASSUME NEW i \in 0..N, i # 0
                   PROVE  i - 1 \in 0..N /\ CauseOf[long[i - 1]] = long[i]
      OBVIOUS
    <3>2. i - 1 \in 0..N
      <4> HIDE DEF N
      <4> QED BY <1>1, <3>1
    <3>3. CASE i \in {1, 2, 3}
      BY <1>1, <3>2, <3>3 DEF end
    <3>4. CASE i > 3
      BY <1>1, <1>4, <3>2, <3>4
    <3> QED BY <1>1, <3>2, <3>3, <3>4
  <2>2. Chases(long, e)
    <3>1. long = [i \in 0..N |-> IF i = 0 THEN e ELSE CauseOf[long[i - 1]]]
      <4>1. \A i \in 0..N : long[i] = IF i = 0 THEN e ELSE CauseOf[long[i - 1]]
        BY <2>1
      <4> HIDE DEF N, one, two
      <4> QED BY <4>1
    <3> QED BY <3>1 DEF Chases
  <2> QED BY <2>2
<1>6. ASSUME NEW chain, Chases(chain, e)
      PROVE  chain[N] \notin Errs
  <2> DEFINE Bad == {i \in 3..N : chain[i] # end}
  <2>1. /\ chain[0] = e
        /\ \A i \in 1..N : chain[i] = CauseOf[chain[i - 1]]
    <3>1. ASSUME NEW i \in 0..N
          PROVE  chain[i] = IF i = 0 THEN e ELSE CauseOf[chain[i - 1]]
      <4>1. chain = [j \in 0..N |-> IF j = 0 THEN e ELSE CauseOf[chain[j - 1]]]
        BY <1>6 DEF Chases
      <4>2. chain[i] = [j \in 0..N |-> IF j = 0 THEN e ELSE CauseOf[chain[j - 1]]][i]
        BY <4>1, Zenon
      <4> HIDE DEF N
      <4> QED BY <4>2
    <3> HIDE DEF N
    <3> QED BY <1>1, <3>1
  <2>2. chain[3] = end
    <3>1. chain[1] = one /\ chain[2] = CauseOf[chain[1]] /\ chain[3] = CauseOf[chain[2]]
      BY <1>1, <2>1
    <3> QED BY <3>1 DEF end
  <2>3. SUFFICES ASSUME Bad # {} PROVE FALSE
    BY <1>1, <1>3
  <2>4. PICK i \in Bad : \A j \in Bad : i <= j
    <3>1. Bad \subseteq Nat
      BY <1>1
    <3> HIDE DEF Bad
    <3> QED BY <2>3, <3>1, LeastNumber
  <2>5. i - 1 \in 3..N /\ i - 1 \notin Bad
    BY <1>1, <2>2, <2>4
  <2> QED BY <1>1, <1>4, <2>1, <2>4, <2>5
<1>7. Chases(CHOOSE chain : Chases(chain, e), e)
  BY <1>5
<1> QED BY <1>6, <1>7, PrintsIsChase

-----------------------------------------------------------------------------
(* The order of the causes, whatever happens.                               *)

LEMMA WrapOrder ==
  ASSUME NEW c \in [Errs -> ErrValues], InOrder(c), NEW e \in Errs, NEW inner \in ErrValues,
         inner \in Errs => <<e, inner>> \in Wrapped
  PROVE  InOrder(Wrap(c, e, inner))
BY DEF InOrder, Wrap

LEMMA RawOrder ==
  ASSUME NEW c \in [Errs -> ErrValues], InOrder(c), NEW e \in Errs
  PROVE  InOrder(Wrap(c, e, "raw"))
<1>1. "raw" \in ErrValues /\ "raw" \notin Errs
  BY DEF ErrValues, Errs
<1> QED BY <1>1, WrapOrder

LEMMA DialOrder ==
  ASSUME TaskTypeOK, WrapsInOrder, NEW service, DialFails(service)
  PROVE  WrapsInOrder'
<1>1. {"ErrTimeout", "ErrFailedConnection"} \subseteq Errs
  BY DEF Errs
<1> QED BY <1>1, RawOrder DEF DialFails, WrapsInOrder, TaskTypeOK

LEMMA OrderFrame ==
  ASSUME WrapsInOrder, UNCHANGED cause
  PROVE  WrapsInOrder'
BY DEF WrapsInOrder, InOrder

LEMMA RedisOrder ==
  ASSUME TaskTypeOK, WrapsInOrder, NEW g \in NodeSets, RedisStep(g)
  PROVE  WrapsInOrder'
<1> USE OrderFrame, RedisNames DEF Goto, Return, RedisFails
<1>0. cause \in [Errs -> ErrValues] /\ InOrder(cause) /\ (InOrder(cause') => WrapsInOrder')
  BY DEF TaskTypeOK, WrapsInOrder, InOrder
<1>1. CASE CheckRedis(g)
  BY <1>0, <1>1, RawOrder DEF CheckRedis
<1>2. CASE CreateRedisDeployment(g)
  BY <1>0, <1>2, RawOrder DEF CreateRedisDeployment
<1>3. CASE CreateRedisAutoScaler(g)
  BY <1>0, <1>3, RawOrder DEF CreateRedisAutoScaler
<1>4. CASE WaitForRedisDeployment(g)
  BY <1>0, <1>4, RawOrder DEF WaitForRedisDeployment
<1>5. CASE GetRedisService(g)
  BY <1>5 DEF GetRedisService
<1>6. CASE CreateRedisService(g)
  BY <1>0, <1>6, RawOrder DEF CreateRedisService
<1>7. CASE WaitForRedisService(g)
  <2>1. CASE DialFails("redis-service")
    BY <2>1, DialOrder
  <2>2. /\ <<"ErrWaitingForRedisService", "ErrGettingService">> \in Wrapped
        /\ <<"ErrWaitingForRedisService", "ErrTimeout">> \in Wrapped
    BY DEF Wrapped
  <2>3. \A e \in {"ErrGettingService", "ErrTimeout"} :
          InOrder(Wrap(Wrap(cause, e, "raw"), "ErrWaitingForRedisService", e))
    BY <1>0, <2>2, RawOrder, WrapTypes, WrapOrder
  <2> QED BY <1>0, <1>7, <2>1, <2>3 DEF WaitForRedisService
<1>8. CASE RedisIPPort(g)
  BY <1>0, <1>8, RawOrder DEF RedisIPPort
<1> QED BY <1>1, <1>2, <1>3, <1>4, <1>5, <1>6, <1>7, <1>8 DEF RedisStep

LEMMA EndpointOrder ==
  ASSUME TaskTypeOK, WrapsInOrder, NEW r \in EndpointErrors
  PROVE  /\ r[2] \in [Errs -> ErrValues] /\ InOrder(r[2])
         /\ r[1] \in ErrValues /\ <<"ErrGettingMinioEndpoint", r[1]>> \in Wrapped
<1>0. cause \in [Errs -> ErrValues] /\ InOrder(cause)
  BY DEF TaskTypeOK, WrapsInOrder
<1>1. r[2] \in [Errs -> ErrValues] /\ r[1] \in ErrValues
  BY EndpointErrorTypes
<1>2. InOrder(r[2])
  BY <1>0, RawOrder, MinioNames DEF EndpointErrors
<1>3. r[1] \in {"ErrGettingService", "ErrGettingNodes", "ErrNoNodesFound"}
  BY DEF EndpointErrors
<1> QED BY <1>1, <1>2, <1>3 DEF Wrapped

LEMMA MinioOrder ==
  ASSUME TaskTypeOK, WrapsInOrder, NEW g \in NodeSets, MinioStep(g)
  PROVE  WrapsInOrder'
<1> USE OrderFrame, MinioNames DEF Goto, Return, MinioFails
<1>0. cause \in [Errs -> ErrValues] /\ InOrder(cause) /\ (InOrder(cause') => WrapsInOrder')
  BY DEF TaskTypeOK, WrapsInOrder, InOrder
<1>1. CASE CheckMinio(g)
  BY <1>0, <1>1, RawOrder DEF CheckMinio
<1>2. CASE GetPVC(g) \/ ListPVs(g) \/ CreatePV(g)
  BY <1>0, <1>2, RawOrder DEF GetPVC, ListPVs, CreatePV
<1>3. CASE CreatePVC(g)
  BY <1>0, <1>3, RawOrder DEF CreatePVC
<1>4. CASE CreateMinioDeployment(g)
  BY <1>0, <1>4, RawOrder DEF CreateMinioDeployment
<1>5. CASE WaitForMinioDeployment(g)
  <2>1. InOrder(Wrap(cause, "ErrWaitingForMinio", "ErrTimeout"))
    BY <1>0, WrapOrder DEF Wrapped
  <2> QED BY <1>0, <1>5, <2>1 DEF WaitForMinioDeployment
<1>6. CASE GetMinioService(g)
  BY <1>6 DEF GetMinioService
<1>7. CASE CreateMinioService(g)
  <2>1. InOrder(Wrap(Wrap(cause, "ErrCreatingService", "raw"),
                     "ErrCreatingService", "ErrCreatingService"))
    BY <1>0, RawOrder, WrapTypes, WrapOrder DEF Wrapped
  <2> QED BY <1>0, <1>7, <2>1 DEF CreateMinioService
<1>8. CASE WaitForMinioService(g)
  <2>1. CASE DialFails("minio-service")
    BY <2>1, DialOrder
  <2>2. InOrder(Wrap(cause, "ErrWaitingForMinioService", "ErrTimeout"))
    BY <1>0, WrapOrder DEF Wrapped
  <2>3. ASSUME NEW r \in EndpointErrors
        PROVE  InOrder(Wrap(Wrap(r[2], "ErrGettingMinioEndpoint", r[1]),
                            "ErrWaitingForMinioService", "ErrGettingMinioEndpoint"))
    <3> DEFINE inner == Wrap(r[2], "ErrGettingMinioEndpoint", r[1])
    <3>1. inner \in [Errs -> ErrValues] /\ InOrder(inner)
      BY <2>3, EndpointOrder, WrapTypes, WrapOrder
    <3> HIDE DEF inner
    <3>2. InOrder(Wrap(inner, "ErrWaitingForMinioService", "ErrGettingMinioEndpoint"))
      BY <3>1, WrapOrder DEF Wrapped
    <3> QED BY <3>2 DEF inner
  <2> QED BY <1>0, <1>8, <2>1, <2>2, <2>3 DEF WaitForMinioService
<1>9. CASE GetMinioEndpoint(g)
  <2>1. \A r \in EndpointErrors : InOrder(r[2])
    BY EndpointOrder
  <2> QED BY <1>0, <1>9, <2>1, RawOrder DEF GetMinioEndpoint
<1> QED
  BY <1>1, <1>2, <1>3, <1>4, <1>5, <1>6, <1>7, <1>8, <1>9 DEF MinioStep

-----------------------------------------------------------------------------
(* The error that wraps itself, while nothing is broken.                    *)

LEMMA UntroubledAnswers ==
  ASSUME Untroubled, Untroubled'
  PROVE  ~Breaks
BY DEF Untroubled, Breaks

LEMMA WrapUntangled ==
  ASSUME NEW c \in [Errs -> ErrValues], c["ErrCreatingService"] # "ErrCreatingService",
         NEW e, NEW inner, inner # "ErrCreatingService"
  PROVE  Wrap(c, e, inner)["ErrCreatingService"] # "ErrCreatingService"
BY DEF Wrap, Errs

LEMMA RedisUntangled ==
  ASSUME TaskTypeOK, ~Tangled, NEW g \in NodeSets, RedisStep(g)
  PROVE  ~Tangled'
<1> USE WrapUntangled, WrapTypes, RedisNames DEF Goto, Return, RedisFails, Tangled
<1>0. cause \in [Errs -> ErrValues]
  BY DEF TaskTypeOK
<1>1. CASE CheckRedis(g)
  BY <1>0, <1>1 DEF CheckRedis
<1>2. CASE CreateRedisDeployment(g)
  BY <1>0, <1>2 DEF CreateRedisDeployment
<1>3. CASE CreateRedisAutoScaler(g)
  BY <1>0, <1>3 DEF CreateRedisAutoScaler
<1>4. CASE WaitForRedisDeployment(g)
  BY <1>0, <1>4 DEF WaitForRedisDeployment
<1>5. CASE GetRedisService(g)
  BY <1>5 DEF GetRedisService
<1>6. CASE CreateRedisService(g)
  BY <1>0, <1>6 DEF CreateRedisService
<1>7. CASE WaitForRedisService(g)
  BY <1>0, <1>7 DEF WaitForRedisService, DialFails
<1>8. CASE RedisIPPort(g)
  BY <1>0, <1>8 DEF RedisIPPort
<1> QED BY <1>1, <1>2, <1>3, <1>4, <1>5, <1>6, <1>7, <1>8 DEF RedisStep

LEMMA MinioUntangled ==
  ASSUME TaskTypeOK, Untroubled, Untroubled', ~Tangled, FreshService,
         NEW g \in NodeSets, MinioStep(g)
  PROVE  ~Tangled'
<1> USE DEF Goto, Return, MinioFails, Tangled
<1>0. /\ cause \in [Errs -> ErrValues] /\ cause["ErrCreatingService"] # "ErrCreatingService"
      /\ \A e, inner : inner # "ErrCreatingService" =>
           Wrap(cause, e, inner)["ErrCreatingService"] # "ErrCreatingService"
  BY WrapUntangled DEF TaskTypeOK
<1>1. CASE CheckMinio(g)
  BY <1>0, <1>1 DEF CheckMinio
<1>2. CASE GetPVC(g) \/ ListPVs(g) \/ CreatePV(g)
  BY <1>0, <1>2 DEF GetPVC, ListPVs, CreatePV
<1>3. CASE CreatePVC(g)
  BY <1>0, <1>3 DEF CreatePVC
<1>4. CASE CreateMinioDeployment(g)
  BY <1>0, <1>4 DEF CreateMinioDeployment
<1>5. CASE WaitForMinioDeployment(g)
  BY <1>0, <1>5 DEF WaitForMinioDeployment
<1>6. CASE GetMinioService(g)
  BY <1>6 DEF GetMinioService
<1>7. CASE CreateMinioService(g)
  BY <1>7, UntroubledAnswers DEF CreateMinioService, NotCreated, FreshService, At
<1>8. CASE WaitForMinioService(g)
  <2>1. \A r \in EndpointErrors :
          Wrap(Wrap(r[2], "ErrGettingMinioEndpoint", r[1]),
               "ErrWaitingForMinioService", "ErrGettingMinioEndpoint")["ErrCreatingService"]
            # "ErrCreatingService"
    <3> SUFFICES ASSUME NEW r \in EndpointErrors
                 PROVE  Wrap(Wrap(r[2], "ErrGettingMinioEndpoint", r[1]),
                             "ErrWaitingForMinioService",
                             "ErrGettingMinioEndpoint")["ErrCreatingService"]
                          # "ErrCreatingService"
      OBVIOUS
    <3>1. /\ r[1] # "ErrCreatingService" /\ r[1] \in ErrValues /\ r[2] \in [Errs -> ErrValues]
          /\ r[2]["ErrCreatingService"] # "ErrCreatingService"
      BY <1>0, EndpointErrorTypes DEF EndpointErrors
    <3> DEFINE inner == Wrap(r[2], "ErrGettingMinioEndpoint", r[1])
    <3>2. inner \in [Errs -> ErrValues] /\ inner["ErrCreatingService"] # "ErrCreatingService"
      BY <3>1, MinioNames, WrapTypes, WrapUntangled
    <3> HIDE DEF inner
    <3>3. Wrap(inner, "ErrWaitingForMinioService",
               "ErrGettingMinioEndpoint")["ErrCreatingService"] # "ErrCreatingService"
      BY <3>2, WrapUntangled
    <3> QED BY <3>3 DEF inner
  <2>2. CASE DialFails("minio-service")
    BY <1>0, <2>2 DEF DialFails
  <2> QED BY <1>0, <1>8, <2>1, <2>2 DEF WaitForMinioService
<1>9. CASE GetMinioEndpoint(g)
  <2>1. \A r \in EndpointErrors : r[2]["ErrCreatingService"] # "ErrCreatingService"
    BY <1>0 DEF EndpointErrors
  <2> QED BY <1>0, <1>9, <2>1 DEF GetMinioEndpoint
<1> QED
  BY <1>1, <1>2, <1>3, <1>4, <1>5, <1>6, <1>7, <1>8, <1>9 DEF MinioStep

LEMMA ServiceCalls ==
  ASSUME NEW g \in NodeSets, ServiceStep(g)
  PROVE  faults' = faults \/ faults' = faults + 1
<1> USE DEF Answers, Breaks, Found, NotFound, GetBreaks, Created, NotCreated
<1>1. CASE RedisStep(g)
  <2>1. CASE CheckRedis(g) \/ CreateRedisDeployment(g) \/ CreateRedisAutoScaler(g)
    BY <2>1 DEF CheckRedis, CreateRedisDeployment, CreateRedisAutoScaler
  <2>2. CASE WaitForRedisDeployment(g) \/ GetRedisService(g) \/ CreateRedisService(g)
    BY <2>2 DEF WaitForRedisDeployment, GetRedisService, CreateRedisService
  <2>3. CASE WaitForRedisService(g) \/ RedisIPPort(g)
    BY <2>3 DEF WaitForRedisService, DialFails, RedisIPPort
  <2> QED BY <1>1, <2>1, <2>2, <2>3 DEF RedisStep
<1>2. CASE MinioStep(g)
  <2>1. CASE CheckMinio(g) \/ GetPVC(g) \/ ListPVs(g) \/ CreatePV(g) \/ CreatePVC(g)
    BY <2>1 DEF CheckMinio, GetPVC, ListPVs, CreatePV, CreatePVC
  <2>2. CASE CreateMinioDeployment(g) \/ WaitForMinioDeployment(g) \/ GetMinioService(g)
    BY <2>2 DEF CreateMinioDeployment, WaitForMinioDeployment, GetMinioService
  <2>3. CASE CreateMinioService(g) \/ WaitForMinioService(g) \/ GetMinioEndpoint(g)
    BY <2>3 DEF CreateMinioService, WaitForMinioService, EndpointFails, DialFails,
                GetMinioEndpoint
  <2> QED BY <1>2, <2>1, <2>2, <2>3 DEF MinioStep
<1> QED BY <1>1, <1>2 DEF ServiceStep, LogNewPV, ReadNodeAddress

LEMMA FreshOneStep ==
  ASSUME TaskTypeOK, Untroubled, Untroubled', NEW g \in NodeSets, MinioStep(g),
         pc[g] # "minioSvcCreate"
  PROVE  /\ "minio-service" \in objs' => "minio-service" \in objs
         /\ pc'[g] = "minioSvcCreate" => "minio-service" \notin objs'
<1> USE DEF TaskTypeOK, At, Goto, Return, MinioFails, Found, NotFound, Created, NotCreated,
            GetBreaks
<1>1. CASE CheckMinio(g) \/ GetPVC(g) \/ ListPVs(g) \/ CreatePV(g)
  BY <1>1 DEF CheckMinio, GetPVC, ListPVs, CreatePV
<1>2. CASE CreatePVC(g) \/ CreateMinioDeployment(g)
  BY <1>2 DEF CreatePVC, CreateMinioDeployment
<1>3. CASE WaitForMinioDeployment(g) \/ CreateMinioService(g)
  BY <1>3 DEF WaitForMinioDeployment, CreateMinioService
<1>4. CASE GetMinioService(g)
  BY <1>4, UntroubledAnswers DEF GetMinioService
<1>5. CASE WaitForMinioService(g)
  BY <1>5 DEF WaitForMinioService, DialFails
<1>6. CASE GetMinioEndpoint(g)
  BY <1>6 DEF GetMinioEndpoint
<1> QED BY <1>1, <1>2, <1>3, <1>4, <1>5, <1>6 DEF MinioStep

(* Only a new run starts from a trouble that is over.                       *)
LEMMA TroubleStays ==
  ASSUME TypeInv, [Next]_vars, ~Rerun, Untroubled'
  PROVE  Untroubled
<1> USE DEF Untroubled, TypeInv, TypeOK, ClusterTypeOK
<1>1. faults' = faults \/ faults' = faults + 1
  <2> USE DEF Answers, Breaks
  <2>1. ASSUME NEW g \in NodeSets, ServiceStep(g)
        PROVE  faults' = faults \/ faults' = faults + 1
    BY <2>1, ServiceCalls
  <2>2. ASSUME NEW g \in NodeSets, DeployNodeSet(g)
        PROVE  faults' = faults \/ faults' = faults + 1
    BY <2>1, <2>2 DEF DeployNodeSet, Start, JoinServices, AddConfigMap, ReadNilWorker, CreatePod,
                      Report
  <2> QED
    BY <2>2 DEF Next, RunTest, Setup, Spawn, EndSpawning, Announce, ClusterStep, CancelCtx,
                Rerun, Stopped, vars
<1>2. ctxDone' = ctxDone \/ ctxDone' = TRUE
  <2>1. ASSUME NEW g \in NodeSets, DeployNodeSet(g)
        PROVE  ctxDone' = ctxDone
    BY <2>1 DEF DeployNodeSet, Start, ServiceStep, JoinServices, AddConfigMap, ReadNilWorker,
                CreatePod, Report
  <2> QED
    BY <2>1 DEF Next, RunTest, Setup, Spawn, EndSpawning, Announce, ClusterStep, CancelCtx,
                Stopped, vars
<1> QED BY <1>1, <1>2, ClusterAssumption DEF ClusterAssumption

LEMMA FreshStep ==
  ASSUME TypeInv, InstallInv, Untroubled, Untroubled', FreshService, [Next]_vars
  PROVE  FreshService'
<1>0. TaskTypeOK
  BY DEF TypeInv, TypeOK
<1>1. ASSUME NEW g \in NodeSets, ServiceStep(g)
      PROVE  FreshService'
  <2>1. \A n \in NodeSets \ {g} : pc'[n] = pc[n]
    BY <1>0, <1>1, ServiceFrame
  <2>2. CASE RedisStep(g)
    <3>1. pc'[g] # "minioSvcCreate" /\ ("minio-service" \in objs' => "minio-service" \in objs)
      BY <1>0, <2>2, RedisMoves, RedisObjects DEF Moves, TaskTypeOK, RedisSteps, RedisObjs
    <3> QED BY <2>1, <3>1 DEF FreshService
  <2>3. CASE MinioStep(g) /\ pc[g] = "minioSvcCreate"
    <3>1. \A h \in NodeSets \ {g} : pc[h] # "minioSvcCreate"
      BY <2>3 DEF InstallInv, MinioInv, InstallingMinio
    <3>2. pc'[g] # "minioSvcCreate"
      BY <1>0, <2>3 DEF MinioStep, CheckMinio, GetPVC, ListPVs, CreatePV, CreatePVC,
                        CreateMinioDeployment, WaitForMinioDeployment, GetMinioService,
                        CreateMinioService, WaitForMinioService, GetMinioEndpoint,
                        At, Goto, Return, MinioFails, TaskTypeOK
    <3> QED BY <2>1, <3>1, <3>2 DEF FreshService
  <2>4. CASE MinioStep(g) /\ pc[g] # "minioSvcCreate"
    <3>1. /\ "minio-service" \in objs' => "minio-service" \in objs
          /\ pc'[g] = "minioSvcCreate" => "minio-service" \notin objs'
      BY <1>0, <2>4, FreshOneStep
    <3> QED BY <2>1, <3>1 DEF FreshService
  <2>5. CASE LogNewPV(g) \/ ReadNodeAddress(g)
    BY <2>5 DEF LogNewPV, ReadNodeAddress, FreshService
  <2> QED BY <1>1, <2>2, <2>3, <2>4, <2>5 DEF ServiceStep
<1>2. CASE \A g \in NodeSets : ~ServiceStep(g)
  <2>1. objs' = objs /\ \A n \in NodeSets : pc'[n] = pc[n] \/ pc'[n] # "minioSvcCreate"
    BY <1>0, <1>2, Aside DEF AsideSteps
  <2> QED BY <2>1 DEF FreshService
<1> QED BY <1>1, <1>2

LEMMA OrderStep ==
  ASSUME TaskTypeOK, WrapsInOrder, [Next]_vars
  PROVE  WrapsInOrder'
<1>0. cause \in [Errs -> ErrValues] /\ InOrder(cause) /\ (InOrder(cause') => WrapsInOrder')
  BY DEF TaskTypeOK, WrapsInOrder, InOrder
<1>1. ASSUME NEW g \in NodeSets, DeployNodeSet(g)
      PROVE  WrapsInOrder'
  <2> USE TestNames, OrderFrame DEF Goto, Return
  <2>1. CASE Start(g)
    BY <1>0, <2>1, RawOrder DEF Start
  <2>2. CASE ServiceStep(g)
    BY <2>2, RedisOrder, MinioOrder DEF ServiceStep, LogNewPV, ReadNodeAddress
  <2>3. CASE AddConfigMap(g)
    BY <1>0, <2>3, RawOrder DEF AddConfigMap, taskVars
  <2>4. CASE JoinServices(g) \/ ReadNilWorker(g) \/ CreatePod(g) \/ Report(g)
    BY <2>4 DEF JoinServices, ReadNilWorker, CreatePod, Report, taskVars
  <2> QED BY <1>1, <2>1, <2>2, <2>3, <2>4 DEF DeployNodeSet
<1>2. CASE Rerun
  BY <1>2 DEF Rerun, WrapsInOrder, InOrder, Errs
<1>3. ASSUME \A g \in NodeSets : ~DeployNodeSet(g), ~Rerun
      PROVE  WrapsInOrder'
  BY <1>3, OrderFrame
     DEF Next, RunTest, Setup, Spawn, EndSpawning, Announce, Goto, ClusterStep, CancelCtx,
         Stopped, vars, taskVars
<1> QED BY <1>1, <1>2, <1>3

LEMMA UntangledStep ==
  ASSUME TaskTypeOK, Untroubled, Untroubled', FreshService, ~Tangled, ~Rerun, [Next]_vars
  PROVE  ~Tangled'
<1>0. cause \in [Errs -> ErrValues]
  BY DEF TaskTypeOK
<1>1. ASSUME NEW g \in NodeSets, DeployNodeSet(g)
      PROVE  ~Tangled'
  <2> USE TestNames DEF Goto, Return, Tangled
  <2>1. CASE Start(g)
    BY <1>0, <2>1, WrapUntangled DEF Start
  <2>2. CASE ServiceStep(g)
    BY <2>2, RedisUntangled, MinioUntangled DEF ServiceStep, LogNewPV, ReadNodeAddress
  <2>3. CASE AddConfigMap(g)
    BY <1>0, <2>3, WrapUntangled DEF AddConfigMap, taskVars
  <2>4. CASE JoinServices(g) \/ ReadNilWorker(g) \/ CreatePod(g) \/ Report(g)
    BY <2>4 DEF JoinServices, ReadNilWorker, CreatePod, Report, taskVars
  <2> QED BY <1>1, <2>1, <2>2, <2>3, <2>4 DEF DeployNodeSet
<1>2. ASSUME \A g \in NodeSets : ~DeployNodeSet(g)
      PROVE  ~Tangled'
  BY <1>2
     DEF Next, RunTest, Setup, Spawn, EndSpawning, Announce, Goto, ClusterStep, CancelCtx,
         Stopped, vars, taskVars, Tangled
<1> QED BY <1>1, <1>2

LEMMA CausesStep ==
  ASSUME TypeInv, InstallInv, CausesInv, [Next]_vars
  PROVE  CausesInv'
<1>0. TaskTypeOK /\ WrapsInOrder'
  BY OrderStep DEF TypeInv, TypeOK, CausesInv
<1>1. CASE Rerun
  BY <1>0, <1>1 DEF Rerun, CausesInv, Tangled, FreshService, Errs
<1>2. CASE ~Rerun
  <2> SUFFICES ASSUME Untroubled'
               PROVE  ~Tangled' /\ FreshService'
    BY <1>0 DEF CausesInv
  <2>1. Untroubled /\ ~Tangled /\ FreshService
    BY <1>2, TroubleStays DEF CausesInv
  <2> QED BY <1>0, <1>2, <2>1, UntangledStep, FreshStep
<1> QED BY <1>1, <1>2

LEMMA CausesInvariant == Spec => []CausesInv
<1>1. Init => CausesInv
  BY DEF Init, CausesInv, WrapsInOrder, InOrder, Tangled, FreshService, Errs
<1>2. TypeInv /\ InstallInv /\ CausesInv /\ [Next]_vars => CausesInv'
  BY CausesStep
<1> QED BY <1>1, <1>2, TypeInvariant, InstallInvariant, PTL DEF Spec

-----------------------------------------------------------------------------
(* What ends the process.                                                   *)

(* The log line that panics is reached only by one that made a volume.      *)
LoggedInv == \A g \in NodeSets : pc[g] = "pvLog" => InitialPVs = 0 /\ pvs > 0

LEMMA LoggedStep ==
  ASSUME TypeInv, VolumesInv, LoggedInv, [Next]_vars
  PROVE  LoggedInv' /\ pvs' >= pvs
<1>0. TaskTypeOK /\ pvs \in Nat
  BY DEF TypeInv, TypeOK, ClusterTypeOK
<1>1. ASSUME NEW g \in NodeSets, ServiceStep(g)
      PROVE  LoggedInv' /\ pvs' >= pvs
  <2>1. \A n \in NodeSets \ {g} : pc'[n] = pc[n]
    BY <1>0, <1>1, ServiceFrame
  <2>2. CASE RedisStep(g)
    <3>1. pc'[g] # "pvLog" /\ pvs' = pvs
      BY <1>0, <2>2, RedisMoves DEF Moves, TaskTypeOK, RedisSteps, RedisStep
    <3> QED BY <1>0, <2>1, <3>1 DEF LoggedInv
  <2>3. CASE CreatePV(g)
    <3>1. InitialPVs = 0
      BY <2>3, ClusterAssumption DEF CreatePV, At, VolumesInv, Making, ClusterAssumption
    <3>2. pvs' \in {pvs, pvs + 1} /\ (pc'[g] = "pvLog" => pvs' = pvs + 1)
      BY <1>0, <2>3 DEF CreatePV, At, Goto, Return, MinioFails, TaskTypeOK
    <3> QED BY <1>0, <2>1, <3>1, <3>2 DEF LoggedInv
  <2>4. CASE MinioStep(g) /\ ~CreatePV(g)
    <3> USE DEF At, Goto, Return, MinioFails, TaskTypeOK
    <3>1. pc'[g] # "pvLog" /\ pvs' = pvs
      <4>1. CASE CheckMinio(g) \/ GetPVC(g) \/ ListPVs(g) \/ CreatePVC(g)
        BY <1>0, <4>1 DEF CheckMinio, GetPVC, ListPVs, CreatePVC
      <4>2. CASE CreateMinioDeployment(g) \/ WaitForMinioDeployment(g) \/ GetMinioService(g)
        BY <1>0, <4>2 DEF CreateMinioDeployment, WaitForMinioDeployment, GetMinioService
      <4>3. CASE CreateMinioService(g) \/ WaitForMinioService(g) \/ GetMinioEndpoint(g)
        BY <1>0, <4>3 DEF CreateMinioService, WaitForMinioService, DialFails, GetMinioEndpoint
      <4> QED BY <2>4, <4>1, <4>2, <4>3 DEF MinioStep
    <3> QED BY <1>0, <2>1, <3>1 DEF LoggedInv
  <2>5. CASE LogNewPV(g) \/ ReadNodeAddress(g)
    BY <1>0, <2>5 DEF LogNewPV, ReadNodeAddress, LoggedInv
  <2> QED BY <1>1, <2>2, <2>3, <2>4, <2>5 DEF ServiceStep
<1>2. CASE \A g \in NodeSets : ~ServiceStep(g)
  <2>1. pvs' = pvs /\ \A n \in NodeSets : pc'[n] = pc[n] \/ pc'[n] # "pvLog"
    BY <1>0, <1>2, Aside DEF AsideSteps
  <2> QED BY <1>0, <2>1 DEF LoggedInv
<1> QED BY <1>1, <1>2

LEMMA CrashStep ==
  ASSUME TypeInv, CausesInv, LoggedInv, CrashHasCause, [Next]_vars
  PROVE  CrashHasCause'
<1> SUFFICES ASSUME main' = "crashed"
             PROVE  CrashHasCause'
  BY DEF CrashHasCause
<1>1. CASE main = "crashed"
  <2>1. ASSUME NEW g \in NodeSets
        PROVE  ~DeployNodeSet(g)
    BY <1>1 DEF DeployNodeSet, Start, ServiceStep, LogNewPV, ReadNodeAddress, RedisStep, MinioStep,
                JoinServices, AddConfigMap, ReadNilWorker, CreatePod, Report, CheckRedis,
                CreateRedisDeployment, CreateRedisAutoScaler, WaitForRedisDeployment,
                GetRedisService, CreateRedisService, WaitForRedisService, RedisIPPort,
                CheckMinio, GetPVC, ListPVs, CreatePV, CreatePVC, CreateMinioDeployment,
                WaitForMinioDeployment, GetMinioService, CreateMinioService,
                WaitForMinioService, GetMinioEndpoint, At, Running
  <2>2. UNCHANGED <<pc, cause, objs, pvs, faults, ctxDone>>
    BY <1>1, <2>1 DEF Next, RunTest, Setup, Spawn, EndSpawning, Announce, ClusterStep,
                      CancelCtx, Running, Rerun, Stopped, vars, taskVars
  <2> QED BY <1>1, <2>2 DEF CrashHasCause, Dereferences, Tangled
<1>2. CASE main # "crashed"
  <2>1. PICK g \in NodeSets :
          LogNewPV(g) \/ ReadNodeAddress(g) \/ ReadNilWorker(g) \/ Report(g)
    BY <1>2 DEF Next, DeployNodeSet, Start, ServiceStep, JoinServices, AddConfigMap, CreatePod,
                RunTest, Setup, Spawn, EndSpawning, Announce, ClusterStep, CancelCtx, Rerun,
                Stopped, vars
  <2>2. CASE LogNewPV(g)
    BY <2>2 DEF LogNewPV, At, LoggedInv, CrashHasCause, Dereferences
  <2>3. CASE ReadNodeAddress(g) \/ ReadNilWorker(g)
    BY <2>3 DEF ReadNodeAddress, ReadNilWorker, At, taskVars, CrashHasCause, Dereferences
  <2>4. CASE Report(g) /\ g \in NilSets
    BY <1>2, <2>4 DEF Report, At, taskVars, CrashHasCause, Dereferences
  <2>5. CASE Report(g) /\ g \notin NilSets
    <3>1. ~Prints(errs[g]["final"]) /\ UNCHANGED <<faults, ctxDone, cause>>
      BY <1>2, <2>5 DEF Report, Running, At, taskVars
    <3>2. errs[g]["final"] \in ErrValues /\ cause \in [Errs -> ErrValues]
      BY DEF TypeInv, TypeOK, TaskTypeOK, Slots
    <3>3. Tangled
      BY <3>1, <3>2, OrderedErrorsPrint DEF CausesInv
    <3>4. ~Untroubled
      BY <3>3 DEF CausesInv
    <3> QED
      BY <3>1, <3>3, <3>4
         DEF Untroubled, Tangled, CrashHasCause, TypeInv, TypeOK, ClusterTypeOK
  <2> QED BY <2>1, <2>2, <2>3, <2>4, <2>5
<1> QED BY <1>1, <1>2

(* Whatever the goroutines do to each other and to the shared error         *)
(* variables, the process ends only at a nil node set, a nil worker, a      *)
(* volume just made or a node without an address, or over the one error     *)
(* that wraps itself, which takes a broken call or a context that is done.  *)
THEOREM CrashesHaveCauses == Spec => []CrashHasCause
<1>1. Init => LoggedInv /\ CrashHasCause
  BY DEF Init, LoggedInv, CrashHasCause
<1>2. TypeInv /\ VolumesInv /\ LoggedInv /\ [Next]_vars => LoggedInv'
  BY LoggedStep
<1>3. TypeInv /\ CausesInv /\ LoggedInv /\ CrashHasCause /\ [Next]_vars => CrashHasCause'
  BY CrashStep
<1> QED
  BY <1>1, <1>2, <1>3, TypeInvariant, CausesInvariant, VolumesInvariant, PTL DEF Spec

-----------------------------------------------------------------------------
(* Runs without an overlap.  While one goroutine at a time is among the     *)
(* services and no call breaks, each backend is there as a whole or not at  *)
(* all, unless somebody is in the middle of installing it.                  *)

RedisBusy == {"redisHPA", "redisWait", "redisSvcGet", "redisSvcCreate"}
MinioBusy == {"minioCreate", "minioWait", "minioSvcGet", "minioSvcCreate"}

RedisWhole ==
  /\ "redis-deployment" \in objs <=> "redis-service" \in objs
  /\ "redis-hpa" \in objs => "redis-deployment" \in objs

MinioWhole ==
  /\ "minio" \in objs <=> "minio-service" \in objs
  /\ "minio-data" \in objs => "minio" \in objs

RedisAt(g) ==
  /\ pc[g] = "redisCreate" => "redis-deployment" \notin objs
  /\ pc[g] = "redisHPA" => "redis-hpa" \notin objs
  /\ pc[g] \in RedisBusy => "redis-deployment" \in objs /\ "redis-service" \notin objs
  /\ pc[g] \in {"redisSvcWait", "redisIP"} => "redis-service" \in objs

MinioAt(g) ==
  /\ pc[g] \in {"pvcGet", "pvList", "pvCreate", "pvLog", "pvcCreate"} => "minio" \notin objs
  /\ pc[g] = "minioCreate" => "minio" \notin objs /\ "minio-service" \notin objs
  /\ pc[g] \in MinioBusy \ {"minioCreate"} => "minio" \in objs /\ "minio-service" \notin objs
  /\ pc[g] \in {"minioSvcWait", "minioEndpoint"} => "minio-service" \in objs

Wholes ==
  /\ (\A g \in NodeSets : pc[g] \notin RedisBusy) => RedisWhole
  /\ (\A g \in NodeSets : pc[g] \notin MinioBusy) => MinioWhole

(* Nothing has gone wrong yet, or nothing was there to be deployed or may   *)
(* be refused, or the pod of an earlier run still exists.                   *)
Results(g) ==
  /\ pc[g] \notin {"report", "failed", "deployed"} => errs[g] = NoErrors
  /\ pc[g] \in {"report", "failed"} => g \notin Deployable \/ PodExists(g)
  /\ pc[g] = "deployed" => PodExists(g)

(* A run ends with no backend half installed.                               *)
EndsWhole == Ended => \A g \in NodeSets : pc[g] \notin RedisBusy \cup MinioBusy

CalmInv ==
  NilSets = {} =>
    /\ Wholes /\ EndsWhole
    /\ \A g \in NodeSets : RedisAt(g) /\ MinioAt(g) /\ Results(g)

LEMMA ServedAlone ==
  ASSUME TaskTypeOK, Serial, NEW g \in NodeSets, NEW h \in NodeSets,
         pc[g] \in RedisSteps \cup MinioSteps, pc[h] \in RedisSteps \cup MinioSteps
  PROVE  g = h
<1> DEFINE Served == {n \in NodeSets : pc[n] \in RedisSteps \cup MinioSteps}
<1>1. IsFiniteSet(Served) /\ Cardinality(Served) <= 1 /\ Cardinality(Served) \in Nat
  BY NodeSetsAssumption, FS_Subset, FS_CardinalityType DEF Serial
<1>2. g \in Served /\ h \in Served
  OBVIOUS
<1> HIDE DEF Served
<1>3. Cardinality(Served) # 0
  BY <1>1, <1>2, FS_EmptySet
<1>4. Cardinality(Served) = 1
  BY <1>1, <1>3
<1>5. \E x : Served = {x}
  BY <1>1, <1>4, FS_Singleton
<1> QED BY <1>2, <1>5

LEMMA RedisRuns ==
  ASSUME TaskTypeOK, Untroubled, Untroubled', NEW g \in NodeSets, RedisStep(g), RedisAt(g),
         errs[g] = NoErrors, pc[g] \notin RedisBusy => RedisWhole
  PROVE  /\ RedisAt(g)' /\ errs'[g] = NoErrors
         /\ pc'[g] \notin RedisBusy => RedisWhole'
<1> USE UntroubledAnswers
    DEF TaskTypeOK, At, Goto, Found, NotFound, GetBreaks, Created, NotCreated,
        RedisAt, RedisWhole, RedisBusy
<1>1. CASE CheckRedis(g)
  BY <1>1 DEF CheckRedis
<1>2. CASE CreateRedisDeployment(g)
  BY <1>2 DEF CreateRedisDeployment
<1>3. CASE CreateRedisAutoScaler(g)
  BY <1>3 DEF CreateRedisAutoScaler
<1>4. CASE WaitForRedisDeployment(g)
  BY <1>4 DEF WaitForRedisDeployment, Untroubled
<1>5. CASE GetRedisService(g)
  BY <1>5 DEF GetRedisService
<1>6. CASE CreateRedisService(g)
  BY <1>6 DEF CreateRedisService
<1>7. CASE WaitForRedisService(g)
  BY <1>7 DEF WaitForRedisService, DialFails, Untroubled
<1>8. CASE RedisIPPort(g)
  BY <1>8 DEF RedisIPPort
<1> QED BY <1>1, <1>2, <1>3, <1>4, <1>5, <1>6, <1>7, <1>8 DEF RedisStep

LEMMA MinioRuns ==
  ASSUME ~BareNodes, TaskTypeOK, Untroubled, Untroubled', NEW g \in NodeSets, MinioStep(g), MinioAt(g),
         errs[g] = NoErrors, pc[g] \notin MinioBusy => MinioWhole
  PROVE  /\ MinioAt(g)' /\ errs'[g] = NoErrors
         /\ pc'[g] \notin MinioBusy => MinioWhole'
<1> USE UntroubledAnswers
    DEF TaskTypeOK, At, Goto, Found, NotFound, GetBreaks, Created, NotCreated,
        MinioAt, MinioWhole, MinioBusy
<1>1. CASE CheckMinio(g)
  BY <1>1 DEF CheckMinio
<1>2. CASE GetPVC(g)
  BY <1>2 DEF GetPVC
<1>3. CASE ListPVs(g) \/ CreatePV(g)
  BY <1>3 DEF ListPVs, CreatePV
<1>4. CASE CreatePVC(g)
  BY <1>4 DEF CreatePVC
<1>5. CASE CreateMinioDeployment(g)
  BY <1>5 DEF CreateMinioDeployment
<1>6. CASE WaitForMinioDeployment(g)
  BY <1>6 DEF WaitForMinioDeployment, Untroubled
<1>7. CASE GetMinioService(g)
  BY <1>7 DEF GetMinioService
<1>8. CASE CreateMinioService(g)
  BY <1>8 DEF CreateMinioService
<1>9. CASE WaitForMinioService(g)
  BY <1>9 DEF WaitForMinioService, EndpointFails, DialFails, Untroubled
<1>10. CASE GetMinioEndpoint(g)
  BY <1>10 DEF GetMinioEndpoint, EndpointFails
<1> QED
  BY <1>1, <1>2, <1>3, <1>4, <1>5, <1>6, <1>7, <1>8, <1>9, <1>10 DEF MinioStep

LEMMA CalmServiceStep ==
  ASSUME ~BareNodes, TypeInv, CausesInv, CalmInv, NilSets = {}, Calm, Calm',
         NEW g \in NodeSets, ServiceStep(g)
  PROVE  CalmInv'
<1> USE DEF CalmInv
<1>0. TaskTypeOK /\ Serial /\ Untroubled /\ Untroubled'
  BY DEF TypeInv, TypeOK, Calm
<1>1. /\ pc[g] \in RedisSteps \cup MinioSteps /\ Running
      /\ \A n \in NodeSets \ {g} : pc'[n] = pc[n] /\ errs'[n] = errs[n]
  BY <1>0, RedisMoves, RedisErrors, MinioMoves, MinioErrors, ServiceFrame
     DEF ServiceStep, LogNewPV, ReadNodeAddress, At, MinioSteps
<1>2. \A n \in NodeSets \ {g} : pc[n] \notin RedisSteps \cup MinioSteps
  BY <1>0, <1>1, ServedAlone
<1>3. /\ RedisBusy \subseteq RedisSteps /\ MinioBusy \subseteq MinioSteps
      /\ RedisSteps \cap MinioSteps = {}
      /\ \A x \in {"report", "failed", "deployed"} : x \notin RedisSteps \cup MinioSteps
  BY DEF RedisBusy, MinioBusy, RedisSteps, MinioSteps
<1>4. errs[g] = NoErrors /\ RedisAt(g) /\ MinioAt(g)
      /\ (pc[g] \notin RedisBusy => RedisWhole) /\ (pc[g] \notin MinioBusy => MinioWhole)
  BY <1>1, <1>2, <1>3 DEF Results, Wholes
<1>5. UNCHANGED pods
  BY DEF ServiceStep, podVars
<1>6. \A n \in NodeSets \ {g} : Results(n)'
  BY <1>1, <1>5 DEF Results, PodExists
<1>7. \A n \in NodeSets \ {g} : RedisAt(n)' /\ MinioAt(n)'
  BY <1>1, <1>2 DEF RedisAt, MinioAt, RedisBusy, MinioBusy, RedisSteps, MinioSteps
<1>8. CASE RedisStep(g) /\ UNCHANGED main
  <2>1. pc'[g] \in RedisSteps \cup {"minioCheck"} /\ pc[g] \in RedisSteps
    BY <1>0, <1>8, RedisMoves DEF Moves, TaskTypeOK
  <2>2. RedisAt(g)' /\ errs'[g] = NoErrors /\ (pc'[g] \notin RedisBusy => RedisWhole')
    BY <1>0, <1>4, <1>8, RedisRuns
  <2>3. MinioWhole'
    <3>1. MinioWhole
      BY <1>3, <1>4, <2>1
    <3> QED BY <1>8, <3>1, RedisObjects DEF RedisObjs, MinioWhole
  <2>4. MinioAt(g)' /\ Results(g)'
    BY <2>1, <2>2 DEF MinioAt, Results, MinioBusy, RedisSteps
  <2> QED BY <1>1, <1>6, <1>7, <1>8, <2>2, <2>3, <2>4 DEF Wholes, EndsWhole, Running, Ended
<1>9. CASE MinioStep(g) /\ UNCHANGED main
  <2>1. pc'[g] \in MinioSteps \cup {"join"} /\ pc[g] \in MinioSteps
    BY <1>0, <1>9, MinioMoves DEF Moves, TaskTypeOK
  <2>2. MinioAt(g)' /\ errs'[g] = NoErrors /\ (pc'[g] \notin MinioBusy => MinioWhole')
    BY <1>0, <1>4, <1>9, MinioRuns
  <2>3. RedisWhole'
    <3>1. RedisWhole
      BY <1>3, <1>4, <2>1
    <3> QED BY <1>9, <3>1, MinioObjects DEF MinioObjs, RedisWhole
  <2>4. RedisAt(g)' /\ Results(g)'
    BY <2>1, <2>2 DEF RedisAt, Results, RedisBusy, MinioSteps
  <2> QED BY <1>1, <1>6, <1>7, <1>9, <2>2, <2>3, <2>4 DEF Wholes, EndsWhole, Running, Ended
<1>10. CASE LogNewPV(g)
  <2>1. pc' = pc /\ objs' = objs /\ errs' = errs /\ pc[g] = "pvLog"
    BY <1>10 DEF LogNewPV, At
  <2>2. \A n \in NodeSets : pc[n] \notin RedisBusy \cup MinioBusy
    BY <1>2, <1>3, <2>1 DEF RedisBusy, MinioBusy
  <2> QED
    BY <1>5, <2>1, <2>2 DEF Wholes, EndsWhole, RedisAt, MinioAt, Results, RedisWhole, MinioWhole,
                            PodExists
<1> QED BY <1>8, <1>9, <1>10 DEF ServiceStep, ReadNodeAddress

LEMMA CalmTaskStep ==
  ASSUME TypeInv, CausesInv, CalmInv, NilSets = {}, Calm, Calm',
         NEW g \in NodeSets,
         Start(g) \/ JoinServices(g) \/ AddConfigMap(g) \/ CreatePod(g) \/ Report(g)
  PROVE  CalmInv'
<1> USE DEF CalmInv
<1>0. TaskTypeOK /\ Untroubled /\ Untroubled' /\ WrapsInOrder /\ ~Tangled
  BY DEF TypeInv, TypeOK, Calm, CausesInv
<1>1. /\ Running /\ UNCHANGED objs /\ pods \subseteq pods'
      /\ \A n \in NodeSets \ {g} : pc'[n] = pc[n] /\ errs'[n] = errs[n]
      /\ pc[g] \in {"start", "join", "files", "report"}
      /\ \/ pc'[g] \in {"redisCheck", "files", "report", "deployed", "failed"}
         \/ pc'[g] = pc[g] /\ main' \in {main, "crashed"}
  BY <1>0 DEF Start, JoinServices, AddConfigMap, CreatePod, Report, At, Goto, Return, TaskTypeOK,
              taskVars, podVars
<1>2. main' = main /\ (Report(g) => Goto(g, "failed"))
  <2>1. CASE Report(g)
    <3>1. errs[g]["final"] \in ErrValues /\ cause \in [Errs -> ErrValues]
      BY <1>0 DEF TaskTypeOK, Slots
    <3>2. Prints(errs[g]["final"])
      BY <1>0, <3>1, OrderedErrorsPrint
    <3> QED BY <2>1, <3>2 DEF Report
  <2> QED BY <2>1 DEF Start, JoinServices, AddConfigMap, CreatePod
<1>3. Wholes'
  BY <1>1 DEF Wholes, RedisWhole, MinioWhole, RedisBusy, MinioBusy
<1>4. \A n \in NodeSets : RedisAt(n)' /\ MinioAt(n)'
  BY <1>1 DEF RedisAt, MinioAt, RedisBusy, MinioBusy
<1>5. \A n \in NodeSets \ {g} : Results(n)'
  BY <1>1 DEF Results, PodExists
<1>6. Results(g)'
  <2> USE DEF Results, At, Goto, Return, TaskTypeOK
  <2>1. CASE Start(g)
    BY <1>0, <2>1 DEF Start, Deployable
  <2>2. CASE JoinServices(g)
    BY <1>0, <2>2 DEF JoinServices, FirstError, NoErrors, Slots
  <2>3. CASE AddConfigMap(g)
    BY <1>0, <2>3, UntroubledAnswers DEF AddConfigMap, taskVars, Deployable
  <2>4. CASE CreatePod(g)
    <3> DEFINE pod == [name |-> g, vols |-> volumes[g]]
    <3>1. pod.name = g /\ ~Breaks
      BY <1>0, UntroubledAnswers
    <3>2. CASE pods' = pods \cup {pod} /\ Goto(g, "deployed")
      <4>1. pod \in pods'
        BY <3>2
      <4>2. PodExists(g)'
        BY <3>1, <4>1 DEF PodExists
      <4> QED BY <1>0, <3>2, <4>2
    <3>3. CASE /\ UNCHANGED pods /\ (PodExists(g) \/ g \in Refusable)
               /\ Return(g, "report", "final", "raw", cause)
      BY <1>0, <3>3 DEF PodExists, Deployable
    <3> HIDE DEF pod
    <3> QED BY <2>4, <3>1, <3>2, <3>3 DEF CreatePod, pod
  <2>5. CASE Report(g)
    <3>1. pc[g] = "report" /\ pc'[g] = "failed" /\ UNCHANGED pods
      BY <1>0, <1>2, <2>5 DEF Report, podVars
    <3> QED BY <3>1 DEF PodExists
  <2> QED BY <2>1, <2>2, <2>3, <2>4, <2>5
<1> QED BY <1>1, <1>2, <1>3, <1>4, <1>5, <1>6 DEF EndsWhole, Running, Ended

LEMMA CalmStep ==
  ASSUME ~BareNodes, NilWorkers = {}, TypeInv, SpawnedInv, CausesInv, CalmInv, Calm, Calm', [Next]_vars
  PROVE  CalmInv'
<1> SUFFICES ASSUME NilSets = {}
             PROVE  CalmInv'
  BY DEF CalmInv
<1> USE DEF CalmInv
<1>0. TaskTypeOK
  BY DEF TypeInv, TypeOK
<1>1. ASSUME NEW g \in NodeSets, DeployNodeSet(g)
      PROVE  CalmInv'
  BY <1>1, CalmServiceStep, CalmTaskStep DEF DeployNodeSet, ReadNilWorker
<1>2. ASSUME NEW n \in NodeSets, Spawn(n)
      PROVE  CalmInv'
  <2>1. /\ UNCHANGED <<objs, errs, pods, main>> /\ main = "spawn"
        /\ pc[n] = "idle" /\ pc' = [pc EXCEPT ![n] = "start"]
    BY <1>2 DEF Spawn, Goto, podVars
  <2>2. Wholes' /\ EndsWhole'
    BY <1>0, <2>1 DEF Wholes, EndsWhole, Ended, RedisWhole, MinioWhole, RedisBusy, MinioBusy,
                      TaskTypeOK
  <2>3. ASSUME NEW g \in NodeSets
        PROVE  RedisAt(g)' /\ MinioAt(g)' /\ Results(g)'
    BY <1>0, <2>1 DEF RedisAt, MinioAt, RedisBusy, MinioBusy, Results, PodExists, TaskTypeOK
  <2> QED BY <2>2, <2>3
<1>4. ASSUME UNCHANGED <<objs, pc, errs, pods>>, EndsWhole'
      PROVE  CalmInv'
  BY <1>4 DEF Wholes, RedisWhole, MinioWhole, RedisAt, MinioAt, Results, PodExists
<1>5. CASE Setup \/ EndSpawning \/ Announce
  <2>1. UNCHANGED <<objs, pc, errs, pods>> /\ main' # "crashed" /\ SpawnedInv'
    BY <1>5, SpawnedStep DEF Setup, EndSpawning, Announce, taskVars, podVars
  <2>2. EndsWhole'
    BY <2>1 DEF EndsWhole, Ended, SpawnedInv, Final, RedisBusy, MinioBusy
  <2> QED BY <1>4, <2>1, <2>2
<1>6. CASE (\E d \in Deployments : ClusterStep(d)) \/ CancelCtx \/ UNCHANGED vars
  <2>1. UNCHANGED <<objs, pc, errs, pods, main>>
    BY <1>6 DEF ClusterStep, CancelCtx, vars, taskVars, podVars
  <2>2. EndsWhole'
    BY <2>1 DEF EndsWhole, Ended
  <2> QED BY <1>4, <2>1, <2>2
<1>7. CASE Rerun
  <2>1. RedisWhole /\ MinioWhole
    BY <1>7 DEF Rerun, EndsWhole, Wholes
  <2>2. UNCHANGED <<objs, pods>> /\ main' = "setup"
        /\ \A g \in NodeSets : pc'[g] = "idle" /\ errs'[g] = NoErrors
    BY <1>7 DEF Rerun
  <2> QED
    BY <2>1, <2>2 DEF Wholes, EndsWhole, Ended, RedisWhole, MinioWhole, RedisAt, MinioAt,
                      RedisBusy, MinioBusy, Results, PodExists
<1> QED BY <1>1, <1>2, <1>5, <1>6, <1>7 DEF Next, RunTest, Stopped

(* A nil node set never finishes: its goroutine ends the process.           *)
NilInv == \A g \in NilSets : pc[g] \in {"idle", "start", "report"}

LEMMA NilStep ==
  ASSUME TypeInv, NilInv, [Next]_vars
  PROVE  NilInv'
<1> USE DEF NilInv, TypeInv, TypeOK
<1>0. NilSets \subseteq NodeSets
  BY PlaybookAssumption DEF PlaybookAssumption
<1>1. ASSUME NEW g \in NodeSets, DeployNodeSet(g)
      PROVE  NilInv'
  <2>1. CASE Start(g)
    BY <1>0, <2>1 DEF Start, At, Goto, Return, TaskTypeOK
  <2>2. CASE Report(g)
    BY <1>0, <2>2 DEF Report, Goto, TaskTypeOK, taskVars
  <2>3. CASE ServiceStep(g)
    <3>1. pc[g] \in RedisSteps \cup MinioSteps /\ \A n \in NodeSets \ {g} : pc'[n] = pc[n]
      BY <2>3, ServiceFrame, RedisMoves, MinioMoves DEF ServiceStep, LogNewPV, ReadNodeAddress,
                                                      At, MinioSteps
    <3>2. g \notin NilSets
      BY <3>1 DEF RedisSteps, MinioSteps
    <3> QED BY <1>0, <3>1, <3>2
  <2>4. CASE JoinServices(g) \/ AddConfigMap(g) \/ ReadNilWorker(g) \/ CreatePod(g)
    BY <1>0, <2>4 DEF JoinServices, AddConfigMap, ReadNilWorker, CreatePod, At, Goto, Return, TaskTypeOK, taskVars
  <2> QED BY <1>1, <2>1, <2>2, <2>3, <2>4 DEF DeployNodeSet
<1>2. CASE RunTest
  BY <1>0, <1>2 DEF RunTest, Setup, Spawn, EndSpawning, Announce, Goto, TaskTypeOK, taskVars
<1>3. CASE (\E d \in Deployments : ClusterStep(d)) \/ CancelCtx \/ UNCHANGED vars
  BY <1>3 DEF ClusterStep, CancelCtx, vars, taskVars
<1>4. CASE Rerun
  BY <1>0, <1>4 DEF Rerun
<1> QED BY <1>1, <1>2, <1>3, <1>4 DEF Next, Stopped

(* The announcement of RunTest is true of a run, and of all before it, in   *)
(* which node sets happened not to overlap among the services, no call      *)
(* broke and nobody cancelled: every node set that has workers, and none    *)
(* that may be refused, has its pod.  A nil worker and a node without an    *)
(* address are excluded, since they may end an earlier run with a backend   *)
(* half installed; a nil node set is not (its own run is never announced),  *)
(* nor is a cluster without a volume.                                       *)
THEOREM CalmAnnouncementsHold ==
  ASSUME ~BareNodes, NilWorkers = {}
  PROVE  Spec /\ []Calm => []AnnouncedMeansAllDeployed
<1>1. Init => CalmInv /\ NilInv
  <2> SUFFICES ASSUME Init PROVE CalmInv /\ NilInv
    OBVIOUS
  <2>1. objs = {} /\ main = "setup" /\ \A g \in NodeSets : pc[g] = "idle" /\ errs[g] = NoErrors
    BY DEF Init, ClusterInit
  <2>2. NilInv
    BY <2>1, PlaybookAssumption DEF PlaybookAssumption, NilInv
  <2> QED
    BY <2>1, <2>2 DEF CalmInv, Wholes, EndsWhole, Ended, RedisWhole, MinioWhole, RedisAt, MinioAt,
                      RedisBusy, MinioBusy, Results
<1>2. /\ TypeInv /\ SpawnedInv /\ CausesInv /\ CalmInv
      /\ Calm /\ Calm' /\ [Next]_vars
      => CalmInv'
  BY CalmStep
<1>3. TypeInv /\ NilInv /\ [Next]_vars => NilInv'
  BY NilStep
<1>4. SpawnedInv /\ NilInv /\ CalmInv => AnnouncedMeansAllDeployed
  <2> SUFFICES ASSUME SpawnedInv, NilInv, CalmInv, main = "announced", NEW n \in Deployable
               PROVE  PodExists(n)
    BY DEF AnnouncedMeansAllDeployed
  <2>1. \A g \in NodeSets : pc[g] \in {"deployed", "failed"}
    BY DEF SpawnedInv, Final
  <2>2. NilSets = {}
    BY <2>1, PlaybookAssumption DEF PlaybookAssumption, NilInv
  <2>3. n \in NodeSets
    BY DEF Deployable
  <2> QED BY <2>1, <2>2, <2>3 DEF CalmInv, Results
<1> QED
  BY <1>1, <1>2, <1>3, <1>4, TypeInvariant, SpawnedInvariant, CausesInvariant, PTL
     DEF Spec
=============================================================================
