---------------------------- MODULE ObjectStore -----------------------------
(***************************************************************************)
(* Push of the workers' object store (pkg/worker/minio.go): look for the   *)
(* one bucket that all workers share, make it if it is not there, and put  *)
(* the data under an id that is fresh for every attempt.  A bucket that is *)
(* there already is an error of MakeBucket, and a call that breaks may     *)
(* have been carried out.                                                  *)
(*                                                                         *)
(* The data is a reader of the playbook.  Only PutObject reads from it, so *)
(* a playbook whose Push failed before that pushes the same reader again,  *)
(* and opens its data anew after ErrPushingDataToMinio.                    *)
(***************************************************************************)
EXTENDS Integers, FiniteSets

CONSTANTS
  Pushes,         \* the calls to Push, <<worker, place>>
  MaxStoreFaults  \* bound: calls to MinIO, and to the source of the ids, that fail

ASSUME StoreAssumption == MaxStoreFaults \in Nat

VARIABLES
  bucket,      \* the bucket exists
  objects,     \* what it holds, [id, of, whole]: the data of Push `of', or a rest of it
  stage,       \* stage[c]: the next call of Push c
  spent,       \* Pushes whose reader was read from
  contentID,   \* contentID[c]: what Push c returned, or NoID
  conflicts,   \* conflicts[c]: times Push c failed because the bucket exists
  storeFaults

storeVars == <<bucket, objects, stage, spent, contentID, conflicts, storeFaults>>

NoID == <<>>

StoreTypeOK ==
  /\ bucket \in BOOLEAN
  /\ objects \subseteq [id : Pushes \X Nat, of : Pushes, whole : BOOLEAN]
  /\ stage \in [Pushes -> {"start", "reopen", "make", "put", "done"}]
  /\ spent \subseteq Pushes
  /\ contentID \in [Pushes -> (Pushes \X Nat) \cup {NoID}]
  /\ conflicts \in [Pushes -> Nat]
  /\ storeFaults \in 0..MaxStoreFaults

StoreInit ==
  /\ bucket = FALSE
  /\ objects = {}
  /\ stage = [c \in Pushes |-> "start"]
  /\ spent = {}
  /\ contentID = [c \in Pushes |-> NoID]
  /\ conflicts = [c \in Pushes |-> 0]
  /\ storeFaults = 0

Goes(c, to) == stage' = [stage EXCEPT ![c] = to]
StoreBreaks == storeFaults < MaxStoreFaults /\ storeFaults' = storeFaults + 1

-----------------------------------------------------------------------------

\* Mutant: the data is read into a buffer before anything else.
ReadFirst(c) ==
  /\ stage[c] \in {"start", "reopen"}
  /\ spent' = spent \cup {c}
  /\ \/ Goes(c, IF bucket THEN "put" ELSE "make") /\ UNCHANGED storeFaults
     \/ StoreBreaks /\ Goes(c, "start")
  /\ UNCHANGED <<bucket, objects, contentID, conflicts>>

\* Mutant: the answer of BucketExists is not looked at.
MakeAnyway(c) ==
  /\ stage[c] \in {"start", "reopen"}
  /\ spent' = IF stage[c] = "reopen" THEN spent \ {c} ELSE spent
  /\ Goes(c, "make")
  /\ UNCHANGED <<bucket, objects, contentID, conflicts, storeFaults>>

\* Push begins, with a new reader if the last attempt has read from the old
\* one: BucketExists.
BucketExists(c) ==
  /\ stage[c] \in {"start", "reopen"}
  /\ spent' = IF stage[c] = "reopen" THEN spent \ {c} ELSE spent
  /\ \/ Goes(c, IF bucket THEN "put" ELSE "make") /\ UNCHANGED storeFaults
     \/ StoreBreaks /\ Goes(c, "start")
  /\ UNCHANGED <<bucket, objects, contentID, conflicts>>

MakeBucket(c) ==
  /\ stage[c] = "make"
  /\ \/ ~bucket /\ bucket' = TRUE /\ Goes(c, "put") /\ UNCHANGED <<conflicts, storeFaults>>
     \/ /\ bucket /\ Goes(c, "start")
        /\ conflicts' = [conflicts EXCEPT ![c] = @ + 1]
        /\ UNCHANGED <<bucket, storeFaults>>
     \/ StoreBreaks /\ bucket' \in {bucket, TRUE} /\ Goes(c, "start") /\ UNCHANGED conflicts
  /\ UNCHANGED <<objects, spent, contentID>>

\* Mutant: a worker puts all its data under one id.
IDOfWorker(c) == <<c[1], 1>>

\* An id that no object has.
NewID(c) == <<c, 1 + Cardinality({o \in objects : o.id[1] = c})>>

\* uuid.NewRandom fails, and the reader is as it was.
NewIDFails(c) ==
  /\ stage[c] = "put"
  /\ StoreBreaks /\ Goes(c, "start")
  /\ UNCHANGED <<bucket, objects, spent, contentID, conflicts>>

Stored(i, c) ==
  {o \in objects : o.id # i} \cup {[id |-> i, of |-> c, whole |-> c \notin spent]}

PutObject(c) ==
  /\ stage[c] = "put"
  /\ objects' = Stored(NewID(c), c)
  /\ contentID' = [contentID EXCEPT ![c] = NewID(c)]
  /\ spent' = spent \cup {c}
  /\ Goes(c, "done")
  /\ UNCHANGED <<bucket, conflicts, storeFaults>>

\* ErrPushingDataToMinio; an object nobody knows may be there all the same.
PutBreaks(c) ==
  /\ stage[c] = "put"
  /\ StoreBreaks
  /\ objects' \in {objects, Stored(NewID(c), c)}
  /\ spent' = spent \cup {c}
  /\ Goes(c, "reopen")
  /\ UNCHANGED <<bucket, contentID, conflicts>>
=============================================================================
