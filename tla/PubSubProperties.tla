-------------------------- MODULE PubSubProperties --------------------------
(* What playbooks may rely on when they exchange messages.                  *)
EXTENDS PubSub

\* i is the place of the message of c's latest attempt that got out.
LatestOf(c, i) == log[i] = c /\ \A j \in (i + 1)..Len(log) : log[j] # c

\* Redis pushed message i to l, which has read it or may still do so.
PushedTo(l, i) == got[l] = i \/ \E k \in DOMAIN inbox[l] : inbox[l][k] = i

(* nil from Send means that Redis pushed this very message to a             *)
(* subscription of its channel: a Send that nobody hears is reported,       *)
(* however subscriptions come and go and whatever earlier attempts and      *)
(* other messages were heard.                                               *)
NilMeansHeard ==
  \A c \in Sends : result[c] = "nil" =>
    \E i \in 1..Len(log), l \in Listeners :
      LatestOf(c, i) /\ Channel(l) = Channel(c) /\ PushedTo(l, i)

(* What a worker listens for after a Receive has returned was published     *)
(* after what that Receive returned: no message comes twice or late from    *)
(* one subscription to the next.                                            *)
ReceivesInOrder ==
  \A i \in Receivers, j \in Listeners :
    i[1] = j[1] /\ i[2] < j[2] /\ got[j] # None => got[i] # None /\ got[i] < got[j]

CellOf ==
  [l \in Listeners |->
     IF got[l] # None THEN got[l]
     ELSE IF sub[l] = "listening" /\ inbox[l] # <<>> THEN Head(inbox[l]) ELSE 0]

PhaseOf ==
  [l \in Listeners |->
     IF got[l] # None THEN "read"
     ELSE CASE sub[l] \in {"none", "subscribing"} -> "new"
            [] sub[l] = "listening"               -> "open"
            [] OTHER                              -> "dropped"]

Cell == INSTANCE OneShot WITH
  Messages <- Sends, Channels <- [c \in Sends \cup Listeners |-> Channel(c)],
  home <- at, cell <- CellOf, phase <- PhaseOf

(* A subscription is a cell that the first message fills: queue, goroutine, *)
(* connection and late unsubscribing show nothing more.                     *)
SubscriptionIsACell == Cell!Spec

-----------------------------------------------------------------------------
(* What the comments say, and the code does not do.                         *)

(* "OnReceive sets a handler to receive messages from the given key"        *)
(* (message.go:36): a message published after it returned gets there.       *)
HandlerIsSet ==
  [][\A l \in Handlers :
       log' # log /\ Channel(log'[Len(log')]) = Channel(l) /\ l[2] < pc[l[1]] /\ got[l] = None
         => inbox'[l] # <<>>]_vars
=============================================================================
