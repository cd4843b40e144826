--------------------------- MODULE TransferProofs ---------------------------
(***************************************************************************)
(* That ids resolve and data arrives, for every number of workers, calls   *)
(* and broken calls, and that the messages of workers that transfer data   *)
(* are those of PubSub, whose theorems therefore hold here too.            *)
(***************************************************************************)
EXTENDS TransferProperties, PubSubProofs, FiniteSetTheorems

\* Every step of the composition is one of the messages, or leaves them alone.
LEMMA StepIsOfPubSub == [TransferNext]_tvars => [Next]_vars
<1> SUFFICES ASSUME [TransferNext]_tvars PROVE [Next]_vars
  OBVIOUS
<1>1. CASE Messages
  BY <1>1 DEF Messages, Next, Playbook
<1>2. ASSUME NEW c \in Others, Returns(c)
      PROVE  Next
  <2>1. c[1] \in Nodes
    BY CallTypes
  <2> QED BY <1>2, <2>1 DEF Returns, Next, Playbook
<1>3. Pushes \subseteq Others /\ Pulls \subseteq Others
  BY TransferAssumption DEF TransferAssumption, Pulls
<1>4. CASE \E c \in Pushes : Push(c)
  BY <1>2, <1>3, <1>4 DEF Push
<1>5. CASE \E c \in Pulls : Pull(c)
  BY <1>2, <1>3, <1>5 DEF Pull
<1>6. CASE UNCHANGED tvars
  BY <1>6 DEF tvars
<1> QED BY <1>1, <1>4, <1>5, <1>6 DEF TransferNext

(* Pushes and Pulls are calls like others to the messages: whatever was     *)
(* proved of PubSub holds of workers that transfer data.                    *)
THEOREM ImplementsPubSub == TransferSpec => Spec
<1>1. TransferInit => Init
  BY DEF TransferInit
<1> QED BY <1>1, StepIsOfPubSub, PTL DEF TransferSpec, Spec

-----------------------------------------------------------------------------
(* What the store is left as by one step.                                   *)

Idle == UNCHANGED <<bucket, objects, stage, spent, contentID, conflicts>>

Storing(c) ==
  BucketExists(c) \/ MakeBucket(c) \/ NewIDFails(c) \/ PutObject(c) \/ PutBreaks(c)

LEMMA StoreSteps ==
  ASSUME [TransferNext]_tvars
  PROVE  Idle \/ \E c \in Pushes : Storing(c)
BY DEF TransferNext, tvars, storeVars, Messages, Push, Pull, Idle, Storing

LEMMA FaultTypesOfStore ==
  ASSUME [TransferNext]_tvars, storeFaults \in 0..MaxStoreFaults
  PROVE  storeFaults' \in 0..MaxStoreFaults
<1>1. UNCHANGED storeFaults \/ StoreBreaks
  <2>1. \A c \in Pushes : Storing(c) => UNCHANGED storeFaults \/ StoreBreaks
    BY DEF Storing, BucketExists, MakeBucket, NewIDFails, PutObject, PutBreaks
  <2> QED BY <2>1 DEF TransferNext, tvars, storeVars, Messages, Push, Pull, Storing
<1> QED BY <1>1, StoreAssumption DEF StoreAssumption, StoreBreaks

StoreTypes == StoreTypeOK /\ IsFiniteSet(objects)

LEMMA StoredTypes ==
  ASSUME StoreTypes, NEW c \in Pushes
  PROVE  /\ NewID(c) \in Pushes \X Nat /\ NewID(c)[1] = c
         /\ Stored(NewID(c), c) \subseteq [id : Pushes \X Nat, of : Pushes, whole : BOOLEAN]
         /\ IsFiniteSet(Stored(NewID(c), c))
<1> DEFINE mine == {o \in objects : o.id[1] = c}
           rest == {o \in objects : o.id # NewID(c)}
<1>1. IsFiniteSet(mine) /\ IsFiniteSet(rest)
  BY FS_Subset DEF StoreTypes
<1>2. Cardinality(mine) \in Nat
  BY <1>1, FS_CardinalityType
<1>3. NewID(c) \in Pushes \X Nat /\ NewID(c)[1] = c
  BY <1>2 DEF NewID
<1>4. IsFiniteSet(Stored(NewID(c), c))
  BY <1>1, FS_AddElement DEF Stored
<1>5. Stored(NewID(c), c) \subseteq [id : Pushes \X Nat, of : Pushes, whole : BOOLEAN]
  <2>1. (c \notin spent) \in BOOLEAN
    OBVIOUS
  <2>2. [id |-> NewID(c), of |-> c, whole |-> c \notin spent]
          \in [id : Pushes \X Nat, of : Pushes, whole : BOOLEAN]
    BY <1>3, <2>1, Zenon
  <2> QED BY <2>2, Zenon DEF Stored, StoreTypes, StoreTypeOK
<1> QED BY <1>3, <1>4, <1>5

LEMMA NextStoreTypes == StoreTypes /\ [TransferNext]_tvars => StoreTypes'
<1> SUFFICES ASSUME StoreTypes, [TransferNext]_tvars PROVE StoreTypes'
  OBVIOUS
<1>1. storeFaults' \in 0..MaxStoreFaults
  BY FaultTypesOfStore DEF StoreTypes, StoreTypeOK
<1>2. CASE Idle
  BY <1>1, <1>2 DEF Idle, StoreTypes, StoreTypeOK
<1>3. ASSUME NEW c \in Pushes, BucketExists(c) \/ NewIDFails(c)
      PROVE  StoreTypes'
  BY <1>1, <1>3 DEF StoreTypes, StoreTypeOK, BucketExists, NewIDFails, Goes
<1>4. ASSUME NEW c \in Pushes, MakeBucket(c)
      PROVE  StoreTypes'
  <2>1. /\ bucket' \in BOOLEAN /\ UNCHANGED <<objects, spent, contentID>>
        /\ stage' \in [Pushes -> {"start", "reopen", "make", "put", "done"}]
    BY <1>4 DEF StoreTypes, StoreTypeOK, MakeBucket, Goes
  <2>2. UNCHANGED conflicts \/ conflicts' = [conflicts EXCEPT ![c] = @ + 1]
    BY <1>4, Zenon DEF MakeBucket
  <2>3. conflicts' \in [Pushes -> Nat]
    BY <2>2 DEF StoreTypes, StoreTypeOK
  <2> QED BY <1>1, <2>1, <2>3 DEF StoreTypes, StoreTypeOK
<1>5. ASSUME NEW c \in Pushes, PutObject(c)
      PROVE  StoreTypes'
  <2>1. /\ objects' = Stored(NewID(c), c) /\ UNCHANGED <<bucket, conflicts>>
        /\ contentID' = [contentID EXCEPT ![c] = NewID(c)]
        /\ stage' = [stage EXCEPT ![c] = "done"] /\ spent' = spent \cup {c}
    BY <1>5 DEF PutObject, Goes
  <2> QED BY <1>1, <2>1, StoredTypes DEF StoreTypes, StoreTypeOK
<1>6. ASSUME NEW c \in Pushes, PutBreaks(c)
      PROVE  StoreTypes'
  <2>1. /\ objects' \in {objects, Stored(NewID(c), c)} /\ UNCHANGED <<bucket, contentID, conflicts>>
        /\ stage' = [stage EXCEPT ![c] = "reopen"] /\ spent' = spent \cup {c}
    BY <1>6 DEF PutBreaks, Goes
  <2> QED BY <1>1, <2>1, StoredTypes DEF StoreTypes, StoreTypeOK
<1> QED BY <1>2, <1>3, <1>4, <1>5, <1>6, StoreSteps DEF Storing

LEMMA InitStoreTypes == TransferInit => StoreTypes
<1> SUFFICES ASSUME StoreInit PROVE StoreTypes
  BY DEF TransferInit
<1>1. storeFaults \in 0..MaxStoreFaults /\ conflicts \in [Pushes -> Nat]
  BY StoreAssumption DEF StoreAssumption, StoreInit
<1>2. bucket \in BOOLEAN /\ IsFiniteSet(objects)
  BY FS_EmptySet, Zenon DEF StoreInit
<1>3. /\ objects \subseteq [id : Pushes \X Nat, of : Pushes, whole : BOOLEAN]
      /\ stage \in [Pushes -> {"start", "reopen", "make", "put", "done"}]
      /\ spent \subseteq Pushes /\ contentID \in [Pushes -> (Pushes \X Nat) \cup {NoID}]
  BY DEF StoreInit
<1> QED BY <1>1, <1>2, <1>3 DEF StoreTypes, StoreTypeOK

(* Ids, objects and counters are what they should be, for any workers.      *)
THEOREM StoreTypeCorrect == TransferSpec => []StoreTypeOK
<1>1. StoreTypes => StoreTypeOK
  BY DEF StoreTypes
<1> QED BY <1>1, InitStoreTypes, NextStoreTypes, PTL DEF TransferSpec

-----------------------------------------------------------------------------
(* The race for the bucket.                                                 *)

\* Who lost a race has seen the bucket, and never makes it again.
Lost(c) ==
  /\ conflicts[c] \in {0, 1}
  /\ conflicts[c] = 1 => bucket /\ stage[c] # "make"

Races == \A c \in Pushes : Lost(c)

LEMMA NextRaces == StoreTypes /\ Races /\ [TransferNext]_tvars => Races'
<1> SUFFICES ASSUME StoreTypes, Races, [TransferNext]_tvars, NEW d \in Pushes PROVE Lost(d)'
  BY DEF Races
<1>1. Lost(d) /\ DOMAIN stage = Pushes /\ DOMAIN conflicts = Pushes
  BY DEF Races, StoreTypes, StoreTypeOK
<1>2. CASE Idle
  BY <1>1, <1>2 DEF Idle, Lost
<1>3. ASSUME NEW c \in Pushes, BucketExists(c)
      PROVE  Lost(d)'
  BY <1>1, <1>3 DEF Lost, BucketExists, Goes
<1>4. ASSUME NEW c \in Pushes, MakeBucket(c)
      PROVE  Lost(d)'
  <2>1. stage[c] = "make" /\ conflicts[c] = 0 /\ (bucket => bucket')
    <3>1. stage[c] = "make"
      BY <1>4 DEF MakeBucket
    <3>2. conflicts[c] = 0
      BY <3>1, Zenon DEF Races, Lost
    <3>3. bucket' \in {bucket, TRUE}
      BY <1>4, Zenon DEF MakeBucket
    <3>4. bucket => bucket'
      BY <3>3, Zenon
    <3> QED BY <3>1, <3>2, <3>4
  <2>2. CASE d # c
    <3>1. stage'[d] = stage[d] /\ conflicts'[d] = conflicts[d]
      BY <1>1, <1>4, <2>2 DEF MakeBucket, Goes
    <3> QED BY <1>1, <2>1, <3>1 DEF Lost
  <2>3. CASE d = c
    <3>1. CASE UNCHANGED conflicts
      BY <2>1, <2>3, <3>1 DEF Lost
    <3>2. CASE bucket /\ Goes(c, "start") /\ conflicts' = [conflicts EXCEPT ![c] = @ + 1]
      <4>1. stage'[c] = "start" /\ conflicts'[c] = 1
        BY <1>1, <2>1, <3>2 DEF Goes
      <4> QED BY <2>1, <2>3, <3>2, <4>1 DEF Lost
    <3> QED BY <1>4, <3>1, <3>2 DEF MakeBucket
  <2> QED BY <2>2, <2>3
<1>5. ASSUME NEW c \in Pushes, PutObject(c) \/ PutBreaks(c) \/ NewIDFails(c)
      PROVE  Lost(d)'
  BY <1>1, <1>5 DEF Lost, PutObject, PutBreaks, NewIDFails, Goes
<1> QED BY <1>2, <1>3, <1>4, <1>5, StoreSteps DEF Storing

(* A Push fails at most once because the bucket exists, however many        *)
(* workers race for it and whatever breaks.                                 *)
THEOREM RaceCostsOne == TransferSpec => []BucketRaceCostsOne
<1>1. TransferInit => Races
  BY DEF TransferInit, StoreInit, Races, Lost
<1>2. Races => BucketRaceCostsOne
  BY DEF Races, Lost, BucketRaceCostsOne
<1> QED BY <1>1, <1>2, InitStoreTypes, NextStoreTypes, NextRaces, PTL DEF TransferSpec

-----------------------------------------------------------------------------
(* What an id stands for.                                                   *)

\* A Push that is about to put its data has a reader nobody has read from.
Unread == \A c \in Pushes : stage[c] \in {"start", "make", "put"} => c \notin spent

\* An id that was returned stands for all of the data, and for nothing else.
Kept(c) ==
  contentID[c] # NoID =>
    /\ stage[c] = "done" /\ contentID[c][1] = c
    /\ [id |-> contentID[c], of |-> c, whole |-> TRUE] \in objects
    /\ \A o \in objects : o.id = contentID[c] => o.of = c /\ o.whole

AllKept == \A c \in Pushes : Kept(c)

LEMMA StoredKeeps ==
  ASSUME StoreTypes, AllKept, NEW c \in Pushes, NEW d \in Pushes, stage[c] # "done",
         objects' = Stored(NewID(c), c), contentID'[d] = contentID[d], stage'[d] = stage[d]
  PROVE  Kept(d)'
<1> SUFFICES ASSUME contentID[d] # NoID PROVE Kept(d)'
  BY DEF Kept
<1>1. /\ stage[d] = "done" /\ contentID[d][1] = d
      /\ [id |-> contentID[d], of |-> d, whole |-> TRUE] \in objects
      /\ \A o \in objects : o.id = contentID[d] => o.of = d /\ o.whole
  BY DEF AllKept, Kept
<1>2. contentID[d] # NewID(c)
  BY <1>1, StoredTypes
<1> QED BY <1>1, <1>2 DEF Stored, Kept

LEMMA NextKept ==
  StoreTypes /\ Unread /\ AllKept /\ [TransferNext]_tvars => Unread' /\ AllKept'
<1> SUFFICES ASSUME StoreTypes, Unread, AllKept, [TransferNext]_tvars
             PROVE  Unread' /\ AllKept'
  OBVIOUS
<1>0. DOMAIN stage = Pushes /\ DOMAIN contentID = Pushes
  BY DEF StoreTypes, StoreTypeOK
<1>1. CASE Idle
  BY <1>1 DEF Idle, Unread, AllKept, Kept
<1>2. ASSUME NEW c \in Pushes, BucketExists(c)
      PROVE  Unread' /\ AllKept'
  <2>1. UNCHANGED <<objects, contentID>> /\ stage[c] # "done"
    BY <1>2 DEF BucketExists
  <2>2. \A d \in Pushes \ {c} : stage'[d] = stage[d]
    BY <1>0, <1>2 DEF BucketExists, Goes
  <2>3. AllKept'
    BY <2>1, <2>2 DEF AllKept, Kept
  <2>4. Unread'
    BY <1>0, <1>2, <2>2 DEF Unread, BucketExists
  <2> QED BY <2>1, <2>3, <2>4
<1>3. ASSUME NEW c \in Pushes, MakeBucket(c)
      PROVE  Unread' /\ AllKept'
  <2>1. UNCHANGED <<objects, contentID, spent>> /\ stage[c] = "make"
    BY <1>3 DEF MakeBucket
  <2>2. \A d \in Pushes \ {c} : stage'[d] = stage[d]
    BY <1>0, <1>3 DEF MakeBucket, Goes
  <2> QED BY <2>1, <2>2 DEF AllKept, Kept, Unread
<1>6. ASSUME NEW c \in Pushes, NewIDFails(c)
      PROVE  Unread' /\ AllKept'
  <2>1. UNCHANGED <<objects, contentID, spent>> /\ stage[c] = "put"
    BY <1>6 DEF NewIDFails
  <2>2. \A d \in Pushes \ {c} : stage'[d] = stage[d]
    BY <1>0, <1>6 DEF NewIDFails, Goes
  <2> QED BY <2>1, <2>2 DEF AllKept, Kept, Unread
<1>4. ASSUME NEW c \in Pushes, PutObject(c)
      PROVE  Unread' /\ AllKept'
  <2>1. /\ objects' = Stored(NewID(c), c) /\ spent' = spent \cup {c} /\ stage[c] = "put"
        /\ contentID' = [contentID EXCEPT ![c] = NewID(c)]
        /\ stage' = [stage EXCEPT ![c] = "done"]
    BY <1>4 DEF PutObject, Goes
  <2>2. c \notin spent
    BY <2>1 DEF Unread
  <2>3. ASSUME NEW d \in Pushes \ {c}
        PROVE  Kept(d)'
    <3>1. contentID'[d] = contentID[d] /\ stage'[d] = stage[d]
      BY <1>0, <2>1
    <3> QED BY <2>1, <3>1, StoredKeeps
  <2>4. Kept(c)'
    <3>1. contentID'[c] = NewID(c) /\ stage'[c] = "done"
      BY <1>0, <2>1
    <3>2. Stored(NewID(c), c) = {o \in objects : o.id # NewID(c)}
                                  \cup {[id |-> NewID(c), of |-> c, whole |-> TRUE]}
      BY <2>2 DEF Stored
    <3> QED BY <2>1, <3>1, <3>2, StoredTypes DEF Kept
  <2>5. Unread'
    BY <1>0, <2>1 DEF Unread
  <2> QED BY <2>3, <2>4, <2>5 DEF AllKept
<1>5. ASSUME NEW c \in Pushes, PutBreaks(c)
      PROVE  Unread' /\ AllKept'
  <2>1. /\ objects' \in {objects, Stored(NewID(c), c)} /\ spent' = spent \cup {c}
        /\ stage[c] = "put" /\ contentID' = contentID
        /\ stage' = [stage EXCEPT ![c] = "reopen"]
    BY <1>5 DEF PutBreaks, Goes
  <2>2. contentID[c] = NoID
    BY <2>1 DEF AllKept, Kept
  <2>3. ASSUME NEW d \in Pushes \ {c}
        PROVE  Kept(d)'
    <3>1. contentID'[d] = contentID[d] /\ stage'[d] = stage[d]
      BY <1>0, <2>1
    <3>2. CASE objects' = objects
      BY <3>1, <3>2 DEF AllKept, Kept
    <3> QED BY <2>1, <3>1, <3>2, StoredKeeps
  <2>4. Kept(c)'
    BY <2>1, <2>2 DEF Kept
  <2>5. Unread'
    BY <1>0, <2>1 DEF Unread
  <2> QED BY <2>3, <2>4, <2>5 DEF AllKept
<1> QED BY <1>1, <1>2, <1>3, <1>4, <1>5, <1>6, StoreSteps DEF Storing

LEMMA InitKept == TransferInit => Unread /\ AllKept
BY DEF TransferInit, StoreInit, Unread, AllKept, Kept

(* An id that Push returned names all of the data for ever, whatever broke, *)
(* was tried before or is stored later.                                     *)
THEOREM IDsStayResolved == TransferSpec => []IDsResolve
<1>1. AllKept => IDsResolve
  BY DEF AllKept, Kept, IDsResolve
<1> QED BY <1>1, InitStoreTypes, NextStoreTypes, InitKept, NextKept, PTL DEF TransferSpec

-----------------------------------------------------------------------------
(* What a Pull reads.                                                       *)

\* The message that a listener got stays, and stays what it was.
LEMMA GotIsFinal ==
  ASSUME TypeOK, Stage, [Next]_vars
  PROVE  \A l \in Listeners : got[l] # None => got'[l] = got[l] /\ log'[got[l]] = log[got[l]]
<1> SUFFICES ASSUME NEW l \in Listeners, got[l] # None
             PROVE  got'[l] = got[l] /\ log'[got[l]] = log[got[l]]
  OBVIOUS
<1>1. /\ log \in Seq(Sends) /\ got[l] \in 1..Len(log) /\ DOMAIN got = Listeners
  BY DEF TypeOK, None
<1>2. ASSUME Publishes
      PROVE  log'[got[l]] = log[got[l]]
  BY <1>1, <1>2 DEF Publishes, Publish
<1>3. CASE UNCHANGED <<got, log>>
  BY <1>3
<1>4. ASSUME NEW c \in Sends, Send(c) \/ SendBreaks(c)
      PROVE  got'[l] = got[l] /\ log'[got[l]] = log[got[l]]
  <2>1. Publishes /\ UNCHANGED got
    BY <1>4 DEF Send, SendBreaks, Publishes
  <2> QED BY <1>2, <2>1
<1>5. ASSUME NEW k \in Listeners, ReceiveMessage(k)
      PROVE  got'[l] = got[l] /\ log'[got[l]] = log[got[l]]
  <2>1. l # k
    BY <1>5 DEF ReceiveMessage, Stage
  <2> QED BY <1>1, <1>5, <2>1 DEF ReceiveMessage
<1> QED BY <1>3, <1>4, <1>5
        DEF Next, Playbook, Talk, Subscription, Faulty, Stopped, vars, OnReceive, Receive, Spawn,
            Subscribe, Unsubscribe, Forget, ConnectionBreaks, UnsubscribeBreaks, Await, Other, Finish

\* A listener is sent messages of its channel.
OfChannel(l) ==
  /\ got[l] # None => Channel(log[got[l]]) = Channel(l)
  /\ \A i \in DOMAIN inbox[l] : Channel(log[inbox[l][i]]) = Channel(l)

Channelled == \A l \in Listeners : OfChannel(l)

LEMMA NextChannelled == TypeOK /\ Stage /\ Channelled /\ [Next]_vars => Channelled'
<1> SUFFICES ASSUME TypeOK, Stage, Channelled, [Next]_vars, NEW l \in Listeners
             PROVE  OfChannel(l)'
  BY DEF Channelled
<1>1. /\ OfChannel(l) /\ log \in Seq(Sends) /\ Len(log) \in Nat
      /\ inbox[l] \in Seq(1..Len(log)) /\ got[l] \in 0..Len(log)
      /\ DOMAIN got = Listeners /\ DOMAIN inbox = Listeners
  BY DEF Channelled, TypeOK
<1>2. CASE UNCHANGED <<got, inbox, log>>
  BY <1>1, <1>2 DEF OfChannel
<1>3. ASSUME NEW c \in Sends, NEW r \in Replicas, Publish(c, r), UNCHANGED got
      PROVE  OfChannel(l)'
  <2>1. /\ log' = Append(log, c) /\ log'[Len(log) + 1] = c
        /\ \A i \in 1..Len(log) : log'[i] = log[i]
    BY <1>1, <1>3 DEF Publish
  <2>2. got'[l] # None => Channel(log'[got'[l]]) = Channel(l)
    BY <1>1, <1>3, <2>1 DEF OfChannel, None
  <2>3. \A i \in DOMAIN inbox[l] : Channel(log'[inbox[l][i]]) = Channel(l)
    BY <1>1, <2>1 DEF OfChannel
  <2>4. CASE inbox'[l] = inbox[l]
    BY <2>2, <2>3, <2>4 DEF OfChannel
  <2>5. CASE Hears(l, c, r) /\ inbox'[l] = Append(inbox[l], Len(log) + 1)
    <3>1. ASSUME NEW i \in DOMAIN inbox'[l]
          PROVE  Channel(log'[inbox'[l][i]]) = Channel(l)
      <4>1. /\ i \in DOMAIN inbox[l] => inbox'[l][i] = inbox[l][i]
            /\ i \notin DOMAIN inbox[l] => inbox'[l][i] = Len(log) + 1
        BY <1>1, <2>5
      <4>2. Channel(c) = Channel(l)
        BY <2>5 DEF Hears
      <4> QED BY <2>1, <2>3, <4>1, <4>2
    <3> QED BY <2>2, <3>1 DEF OfChannel
  <2> QED BY <1>3, <2>4, <2>5 DEF Publish
<1>4. ASSUME NEW c \in Sends, Send(c) \/ SendBreaks(c)
      PROVE  OfChannel(l)'
  BY <1>2, <1>3, <1>4 DEF Send, SendBreaks
<1>5. ASSUME NEW k \in Listeners, ReceiveMessage(k)
      PROVE  OfChannel(l)'
  <2>1. CASE k # l
    BY <1>1, <1>5, <2>1 DEF ReceiveMessage, OfChannel
  <2>2. CASE k = l
    <3>1. /\ inbox[l] # <<>> /\ UNCHANGED log
          /\ got'[l] = Head(inbox[l]) /\ inbox'[l] = Tail(inbox[l])
      BY <1>1, <1>5, <2>2 DEF ReceiveMessage
    <3>2. /\ 1 \in DOMAIN inbox[l] /\ got'[l] = inbox[l][1]
          /\ \A i \in DOMAIN inbox'[l] :
               i + 1 \in DOMAIN inbox[l] /\ inbox'[l][i] = inbox[l][i + 1]
      BY <1>1, <3>1
    <3> QED BY <1>1, <3>1, <3>2 DEF OfChannel
  <2> QED BY <2>1, <2>2
<1> QED BY <1>2, <1>4, <1>5
        DEF Next, Playbook, Talk, Subscription, Faulty, Stopped, vars, OnReceive, Receive, Spawn,
            Subscribe, Unsubscribe, Forget, ConnectionBreaks, UnsubscribeBreaks, Await, Other, Finish

LEMMA InitChannelled == Init => Channelled
BY DEF Init, Channelled, OfChannel, None

Fetched(c) ==
  pulled[c] # NoObject =>
    /\ got[From(c)] # None
    /\ pulled[c].of = Pushed(c) /\ pulled[c].whole

AllFetched == DOMAIN pulled = Pulls /\ \A c \in Pulls : Fetched(c)

LEMMA NextFetched ==
  TypeOK /\ Stage /\ Channelled /\ StoreTypes /\ AllKept /\ AllFetched /\ [TransferNext]_tvars
  => AllFetched'
<1> SUFFICES ASSUME TypeOK, Stage, Channelled, StoreTypes, AllKept, AllFetched,
                    [TransferNext]_tvars
             PROVE  AllFetched'
  OBVIOUS
<1>1. \A c \in Pulls : From(c) \in Listeners
  BY TransferAssumption DEF TransferAssumption
<1>2. \A c \in Pulls : got[From(c)] # None => got'[From(c)] # None /\ Pushed(c)' = Pushed(c)
  BY <1>1, GotIsFinal, StepIsOfPubSub DEF Pushed, Sender
<1>3. ASSUME NEW d \in Pulls, pulled'[d] = pulled[d]
      PROVE  Fetched(d)'
  BY <1>2, <1>3 DEF AllFetched, Fetched
<1>4. CASE UNCHANGED pulled
  BY <1>3, <1>4 DEF AllFetched
<1>5. ASSUME NEW c \in Pulls, Pull(c)
      PROVE  AllFetched'
  <2>1. CASE UNCHANGED pulled
    BY <1>4, <2>1
  <2>2. ASSUME NEW o \in objects, o.id = contentID[Pushed(c)],
               pulled' = [pulled EXCEPT ![c] = o]
        PROVE  AllFetched'
    <3>1. got[From(c)] # None
      BY <1>5 DEF Pull
    <3>2. Pushed(c) \in Pushes
      <4>1. Sender(c) \in Sends /\ Channel(Sender(c)) = Channel(From(c))
        <5>1. got[From(c)] \in 1..Len(log) /\ log \in Seq(Sends)
          BY <1>1, <3>1 DEF TypeOK, None
        <5>2. Channel(log[got[From(c)]]) = Channel(From(c))
          BY <1>1, <3>1 DEF Channelled, OfChannel
        <5> QED BY <5>1, <5>2 DEF Sender
      <4> QED BY <4>1, TransferAssumption DEF TransferAssumption, Pushed
    <3>3. contentID[Pushed(c)] # NoID
      <4>1. o.id \in Pushes \X Nat
        BY DEF StoreTypes, StoreTypeOK
      <4>2. o.id # <<>>
        BY <4>1
      <4> QED BY <2>2, <4>2 DEF NoID
    <3>4. o.of = Pushed(c) /\ o.whole
      BY <2>2, <3>2, <3>3 DEF AllKept, Kept
    <3>5. Fetched(c)'
      BY <1>2, <2>2, <3>1, <3>4 DEF AllFetched, Fetched
    <3>6. \A d \in Pulls \ {c} : pulled'[d] = pulled[d]
      BY <2>2 DEF AllFetched
    <3> QED BY <1>3, <2>2, <3>5, <3>6 DEF AllFetched
  <2> QED BY <1>5, <2>1, <2>2 DEF Pull
<1> QED BY <1>4, <1>5 DEF TransferNext, tvars, Messages, Push

(* A Pull reads all of what was pushed for the message that told of it: the *)
(* listener keeps the message it got, that message is of its channel and    *)
(* carries the id of a Push, and that id stands for all of the data.        *)
THEOREM PullsReadWhatWasPushed == TransferSpec => []PulledIsPushed
<1>1. TransferInit => AllFetched
  BY DEF TransferInit, AllFetched, Fetched
<1>2. AllFetched => PulledIsPushed
  BY DEF AllFetched, Fetched, PulledIsPushed
<1>3. Spec => [](TypeOK /\ Stage /\ Channelled)
  BY InitTypes, NextTypes, InitPlace, NextPlace, InitChannelled, NextChannelled, PTL DEF Spec
<1> QED BY <1>1, <1>2, <1>3, ImplementsPubSub, InitStoreTypes, NextStoreTypes,
           InitKept, NextKept, NextFetched, PTL DEF TransferSpec

-----------------------------------------------------------------------------
(* Whoever is told of data finds it.                                        *)

\* Workers do as their programs say: a Push that is past has returned an id,
\* and a message that some Pull looks at was sent after the Push it tells of.
Returned(p) == contentID[p] # NoID

PushedFirst == \A p \in Pushes : pc[p[1]] > p[2] => Returned(p)

ToldLater ==
  \A c \in Pulls, i \in DOMAIN log :
    Channel(log[i]) = Channel(From(c)) => Returned(<<log[i][1], CallAt(log[i]).carries>>)

LEMMA PushesAreOthers ==
  \A p \in Pushes : p \in Calls /\ p \in Others /\ p \notin Sends \cup Listeners \cup Awaits
                    /\ p \notin Pulls
BY CallTypes, TransferAssumption DEF TransferAssumption, Others, Pulls

LEMMA ReturnedStays ==
  ASSUME StoreTypes, [TransferNext]_tvars, NEW p \in Pushes, Returned(p)
  PROVE  Returned(p)'
<1>1. contentID \in [Pushes -> (Pushes \X Nat) \cup {NoID}]
  BY DEF StoreTypes, StoreTypeOK
<1>2. ASSUME NEW c \in Pushes, PutObject(c)
      PROVE  Returned(p)'
  <2>1. NewID(c) # NoID
    BY StoredTypes DEF NoID
  <2> QED BY <1>1, <1>2, <2>1 DEF PutObject, Returned
<1> QED BY <1>2, StoreSteps
        DEF Idle, Storing, BucketExists, MakeBucket, NewIDFails, PutBreaks, Returned

(* A worker goes on by the call it is at.                                   *)
LEMMA MessagesGoOn ==
  ASSUME TypeOK, Stage, Place, Messages, NEW n \in Nodes
  PROVE  \/ pc'[n] \in {pc[n], 0}
         \/ pc'[n] = pc[n] + 1 /\ <<n, pc[n]>> \in Sends \cup Listeners \cup Awaits
<1> DEFINE Fine == \/ pc'[n] \in {pc[n], 0}
                   \/ pc'[n] = pc[n] + 1 /\ <<n, pc[n]>> \in Sends \cup Listeners \cup Awaits
<1>1. pc \in [Nodes -> Nat] /\ \A c \in Calls : c = <<c[1], c[2]>> /\ c[1] \in Nodes
  BY CallTypes DEF TypeOK
<1>2. ASSUME NEW c \in Sends \cup Listeners \cup Awaits, pc[c[1]] = c[2],
             UNCHANGED pc \/ GoesOn(c[1]) \/ Exit(c[1])
      PROVE  Fine
  <2>1. c = <<c[1], c[2]>>
    BY <1>1, CallTypes
  <2> QED BY <1>1, <1>2, <2>1 DEF GoesOn, Exit
<1>3. ASSUME NEW m \in Nodes, Exit(m)
      PROVE  Fine
  BY <1>1, <1>3 DEF Exit
<1>4. ASSUME NEW c \in Sends, Send(c) \/ SendBreaks(c)
      PROVE  Fine
  BY <1>2, <1>4 DEF Send, SendBreaks, Making
<1>5. ASSUME NEW l \in Listeners, OnReceive(l) \/ Receive(l)
      PROVE  Fine
  BY <1>2, <1>5 DEF OnReceive, Receive, Making
<1>6. ASSUME NEW c \in Awaits, Await(c)
      PROVE  Fine
  BY <1>2, <1>6 DEF Await, Making
<1>7. ASSUME NEW l \in Listeners, Subscription(l)
      PROVE  Fine
  <2>1. CASE UNCHANGED pc
    BY <2>1
  <2>2. CASE l \in Receivers /\ sub[l] = "handling" /\ GoesOn(l[1])
    <3>1. pc[l[1]] = l[2]
      BY <2>2 DEF Place
    <3> QED BY <1>2, <2>2, <3>1
  <2> QED BY <1>7, <2>1, <2>2 DEF Subscription, Subscribe, ReceiveMessage, Unsubscribe, Forget
<1>8. ASSUME NEW l \in Listeners, ConnectionBreaks(l) \/ UnsubscribeBreaks(l)
      PROVE  Fine
  <2>1. l[1] \in Nodes
    BY CallTypes
  <2> QED BY <1>3, <1>8, <2>1 DEF ConnectionBreaks, UnsubscribeBreaks
<1>9. CASE UNCHANGED vars \/ \E m \in Nodes : Finish(m)
  BY <1>3, <1>9 DEF vars, Finish
<1> QED BY <1>4, <1>5, <1>6, <1>7, <1>8, <1>9 DEF Messages, Talk, Faulty, Stopped

LEMMA PushedFirstStep ==
  ASSUME TypeOK, Stage, Place, StoreTypes, PushedFirst, [TransferNext]_tvars
  PROVE  PushedFirst'
<1> SUFFICES ASSUME NEW p \in Pushes, pc'[p[1]] > p[2], ~(pc[p[1]] > p[2])
             PROVE  Returned(p)'
  BY ReturnedStays DEF PushedFirst
<1>0. /\ pc \in [Nodes -> Nat] /\ p = <<p[1], p[2]>> /\ p[1] \in Nodes /\ p[2] \in Nat \ {0}
      /\ \A c \in Calls : c = <<c[1], c[2]>> /\ c[1] \in Nodes
  BY CallTypes, PushesAreOthers DEF TypeOK
<1>1. CASE Messages
  <2>1. pc'[p[1]] = pc[p[1]] + 1 /\ <<p[1], pc[p[1]]>> \in Sends \cup Listeners \cup Awaits
    BY <1>0, <1>1, MessagesGoOn
  <2>2. pc[p[1]] = p[2]
    BY <1>0, <2>1
  <2> QED BY <1>0, <2>1, <2>2, PushesAreOthers
<1>2. ASSUME NEW c \in Others, Returns(c)
      PROVE  c = p
  <2>1. pc[c[1]] = c[2] /\ pc' = [pc EXCEPT ![c[1]] = @ + 1] /\ c = <<c[1], c[2]>>
    BY <1>0, <1>2, CallTypes DEF Returns, Other, Making, GoesOn
  <2> QED BY <1>0, <2>1
<1>3. ASSUME NEW c \in Pushes, Push(c)
      PROVE  Returned(p)'
  <2>1. ~UNCHANGED pc
    BY <1>0
  <2>2. PutObject(c) /\ Returns(c)
    BY <1>3, <2>1 DEF Push, vars
  <2>3. c = p
    BY <1>2, <2>2, PushesAreOthers
  <2>4. contentID'[c] = NewID(c)
    BY <2>2 DEF PutObject, StoreTypes, StoreTypeOK
  <2> QED BY <2>3, <2>4, StoredTypes DEF Returned, NoID
<1>4. ASSUME NEW c \in Pulls, Pull(c)
      PROVE  FALSE
  <2>1. Returns(c) /\ c \in Others
    BY <1>0, <1>4 DEF Pull, vars, Pulls
  <2> QED BY <1>2, <2>1, PushesAreOthers
<1>5. CASE UNCHANGED tvars
  BY <1>0, <1>5 DEF tvars, vars
<1> QED BY <1>1, <1>3, <1>4, <1>5 DEF TransferNext

(* A message enters the log while its sender is at the Send.                *)
LEMMA LogGrows ==
  ASSUME [TransferNext]_tvars
  PROVE  UNCHANGED log \/ \E d \in Sends : pc[d[1]] = d[2] /\ log' = Append(log, d)
<1>1. [Next]_vars
  BY StepIsOfPubSub
<1>2. ASSUME NEW c \in Sends, Send(c) \/ SendBreaks(c)
      PROVE  UNCHANGED log \/ (pc[c[1]] = c[2] /\ log' = Append(log, c))
  BY <1>2 DEF Send, SendBreaks, Making, Publish
<1> QED BY <1>1, <1>2
        DEF Next, Playbook, Talk, Subscription, Faulty, Stopped, vars, OnReceive, Receive, Spawn,
            Subscribe, ReceiveMessage, Unsubscribe, Forget, ConnectionBreaks, UnsubscribeBreaks,
            Await, Other, Finish

LEMMA ToldLaterStep ==
  ASSUME TypeOK, StoreTypes, PushedFirst, ToldLater, [TransferNext]_tvars
  PROVE  ToldLater'
<1> SUFFICES ASSUME NEW c \in Pulls, NEW i \in DOMAIN log',
                    Channel(log'[i]) = Channel(From(c))
             PROVE  contentID'[<<log'[i][1], CallAt(log'[i]).carries>>] # NoID
  BY DEF ToldLater, Returned
<1>0. log \in Seq(Sends) /\ pc \in [Nodes -> Nat]
  BY DEF TypeOK
<1>1. \A d \in Sends : Channel(d) = Channel(From(c)) =>
        /\ <<d[1], CallAt(d).carries>> \in Pushes
        /\ CallAt(d).carries < d[2]
  BY TransferAssumption DEF TransferAssumption
<1>2. CASE i \in DOMAIN log /\ log'[i] = log[i]
  <2>1. log[i] \in Sends
    BY <1>0, <1>2
  <2>2. Returned(<<log[i][1], CallAt(log[i]).carries>>)
    BY <1>2 DEF ToldLater
  <2> QED BY <1>1, <1>2, <2>1, <2>2, ReturnedStays DEF Returned
<1>3. ASSUME NEW d \in Sends, pc[d[1]] = d[2], log'[i] = d
      PROVE  contentID'[<<log'[i][1], CallAt(log'[i]).carries>>] # NoID
  <2> DEFINE p == <<d[1], CallAt(d).carries>>
  <2>1. p \in Pushes /\ p[1] = d[1] /\ p[2] = CallAt(d).carries /\ p[2] < d[2]
    BY <1>1, <1>3
  <2>2. p[2] \in Nat /\ d[2] \in Nat
    BY <2>1, PushesAreOthers, CallTypes
  <2>3. pc[p[1]] > p[2]
    BY <1>3, <2>1, <2>2
  <2> HIDE DEF p
  <2>4. Returned(p)'
    BY <2>1, <2>3, ReturnedStays DEF PushedFirst
  <2> QED BY <1>3, <2>4 DEF p, Returned
<1>4. CASE UNCHANGED log
  BY <1>2, <1>4
<1>5. ASSUME NEW d \in Sends, pc[d[1]] = d[2], log' = Append(log, d)
      PROVE  contentID'[<<log'[i][1], CallAt(log'[i]).carries>>] # NoID
  <2>1. (i \in DOMAIN log /\ log'[i] = log[i]) \/ log'[i] = d
    BY <1>0, <1>5
  <2> QED BY <1>2, <1>3, <1>5, <2>1
<1> QED BY <1>4, <1>5, LogGrows

(* Whoever got a message that tells of data finds all of it in the store,   *)
(* at the first Pull that is answered: the Push returned before the Send,   *)
(* on the same worker, and the message is of a channel on which only ids    *)
(* are sent.                                                                *)
THEOREM ToldDataIsThere == TransferSpec => []ToldIsThere
<1>1. TransferInit => PushedFirst /\ ToldLater
  <2> SUFFICES ASSUME TransferInit
               PROVE  PushedFirst /\ ToldLater
    OBVIOUS
  <2>1. /\ \A n \in Nodes : pc[n] = 1
        /\ log = <<>>
    BY DEF TransferInit, Init
  <2>2. \A p \in Pushes : p[1] \in Nodes /\ p[2] \in Nat \ {0}
    BY PushesAreOthers, CallTypes
  <2> QED BY <2>1, <2>2 DEF PushedFirst, ToldLater
<1>2. /\ TypeOK /\ Stage /\ Place /\ StoreTypes /\ PushedFirst /\ ToldLater
      /\ [TransferNext]_tvars
      => PushedFirst' /\ ToldLater'
  BY PushedFirstStep, ToldLaterStep
<1>3. TypeOK /\ Channelled /\ ToldLater /\ AllKept => ToldIsThere
  <2> SUFFICES ASSUME TypeOK, Channelled, ToldLater, AllKept,
                      NEW c \in Pulls, got[From(c)] # None
               PROVE  [id |-> contentID[Pushed(c)], of |-> Pushed(c), whole |-> TRUE] \in objects
    BY DEF ToldIsThere
  <2>1. From(c) \in Listeners
    BY TransferAssumption DEF TransferAssumption
  <2>2. got[From(c)] \in DOMAIN log /\ Sender(c) \in Sends
    BY <2>1 DEF TypeOK, None, Sender
  <2>3. Channel(Sender(c)) = Channel(From(c))
    BY <2>1 DEF Channelled, OfChannel, Sender
  <2>4. Pushed(c) \in Pushes
    BY <2>2, <2>3, TransferAssumption DEF TransferAssumption, Pushed
  <2>5. Returned(Pushed(c))
    BY <2>2, <2>3 DEF ToldLater, Pushed, Sender
  <2> QED BY <2>4, <2>5 DEF AllKept, Kept, Returned
<1>4. Spec => [](TypeOK /\ Stage /\ Place /\ Channelled)
  BY InitTypes, NextTypes, InitPlace, NextPlace, InitChannelled, NextChannelled, PTL DEF Spec
<1> QED BY <1>1, <1>2, <1>3, <1>4, ImplementsPubSub, InitStoreTypes, NextStoreTypes,
           InitKept, NextKept, PTL DEF TransferSpec
=============================================================================
