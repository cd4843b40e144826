------------------------- MODULE TransferProperties -------------------------
(* What workers may rely on when they hand data to each other.             *)
EXTENDS Transfer

(* An id that Push has returned names an object, now and ever after, and it *)
(* is all of what was pushed -- whatever attempts failed before, and        *)
(* whatever the other workers, and later Pushes of the same one, store.     *)
IDsResolve ==
  \A c \in Pushes : contentID[c] # NoID =>
    [id |-> contentID[c], of |-> c, whole |-> TRUE] \in objects

(* A Pull reads what was pushed for the message that told of it, and not    *)
(* what the same worker or another has pushed since.                        *)
PulledIsPushed ==
  \A c \in Pulls : pulled[c] # NoObject => pulled[c].of = Pushed(c) /\ pulled[c].whole

(* The safety half of TransferEnds: whoever is told of data finds it, all   *)
(* of it, at the first Pull that is answered.                               *)
ToldIsThere ==
  \A c \in Pulls : got[From(c)] # None =>
    [id |-> contentID[Pushed(c)], of |-> Pushed(c), whole |-> TRUE] \in objects

(* Two workers that see no bucket both make it; that costs a Push one       *)
(* failure at most, however many workers there are: the next attempt finds  *)
(* the bucket.                                                              *)
BucketRaceCostsOne == \A c \in Pushes : conflicts[c] <= 1

(* Workers that repeat Send, Push and Pull until they succeed come to their *)
(* end, with every message received and every object read.                  *)
TransferEnds ==
  <>(/\ \A n \in Nodes : pc[n] = 0
     /\ \A l \in Listeners : got[l] # None
     /\ \A c \in Pulls : pulled[c] # NoObject)
=============================================================================
