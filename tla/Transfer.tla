------------------------------ MODULE Transfer ------------------------------
(***************************************************************************)
(* Workers that hand data to each other: a Push, a message that carries    *)
(* the id it returned, and a Pull of that id by the worker that got the    *)
(* message.  The messages are those of PubSub and the data goes through    *)
(* ObjectStore; the playbook's program holds the two together.             *)
(***************************************************************************)
EXTENDS PubSub, ObjectStore

\* A Pull has in `on' the place of the listener whose message tells of the
\* data, and a Send of such a message in `carries' that of the Push whose id it has.
Pulls == {c \in Others : CallAt(c).op = "Pull"}
From(c) == <<c[1], CallAt(c).on>>

ASSUME TransferAssumption ==
  /\ Pushes = {c \in Others : CallAt(c).op = "Push"}
  /\ Others = Pushes \cup Pulls
  /\ \A c \in Pulls : From(c) \in Listeners
  /\ \A c \in Pulls, d \in Sends : Channel(d) = Channel(From(c)) =>
       <<d[1], CallAt(d).carries>> \in Pushes /\ CallAt(d).carries < d[2]

VARIABLE pulled  \* pulled[c]: the object that Pull c has read, or NoObject

tvars == <<vars, storeVars, pulled>>

NoObject == [id |-> NoID]

TransferInit == Init /\ StoreInit /\ pulled = [c \in Pulls |-> NoObject]

\* The call has returned, without an error.
Returns(c) == Other(c) /\ GoesOn(c[1])

\* A Push goes on, and an attempt that failed is followed by another.
Push(c) ==
  /\ Making(c)
  /\ \/ (BucketExists(c) \/ MakeBucket(c) \/ NewIDFails(c) \/ PutBreaks(c)) /\ UNCHANGED vars
     \/ PutObject(c) /\ Returns(c)
  /\ UNCHANGED pulled

\* The Push whose id came with the message that Pull c looks at.
Sender(c) == log[got[From(c)]]
Pushed(c) == <<Sender(c)[1], CallAt(Sender(c)).carries>>

\* GetObject asks for nothing: whether the object is there, and can be read,
\* shows when the playbook reads it, and then it pulls again.
Pull(c) ==
  /\ Making(c) /\ got[From(c)] # None
  /\ \/ \E o \in objects :
          /\ o.id = contentID[Pushed(c)]
          /\ pulled' = [pulled EXCEPT ![c] = o]
          /\ Returns(c)
          /\ UNCHANGED storeVars
     \/ /\ StoreBreaks
        /\ UNCHANGED <<bucket, objects, stage, spent, contentID, conflicts, pulled, vars>>

Messages ==
  /\ \/ \E n \in Nodes : Talk(n)
     \/ \E l \in Listeners : Subscription(l)
     \/ Faulty
     \/ Stopped
  /\ UNCHANGED <<storeVars, pulled>>

TransferNext ==
  \/ Messages
  \/ \E c \in Pushes : Push(c)
  \/ \E c \in Pulls : Pull(c)

TransferSpec == TransferInit /\ [][TransferNext]_tvars

\* Workers and their goroutines are scheduled, and Redis and MinIO answer.
FairTransferSpec ==
  /\ TransferSpec
  /\ \A n \in Nodes : WF_tvars(Talk(n) /\ UNCHANGED <<storeVars, pulled>>)
  /\ \A l \in Listeners : WF_tvars(Subscription(l) /\ UNCHANGED <<storeVars, pulled>>)
  /\ \A c \in Pushes : WF_tvars(Push(c))
  /\ \A c \in Pulls : WF_tvars(Pull(c))

=============================================================================
