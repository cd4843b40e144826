---------------------------- MODULE PubSubProofs ----------------------------
(***************************************************************************)
(* Type correctness of the messages, the order in which a worker receives  *)
(* them, and that a subscription is a cell.                                *)
(***************************************************************************)
EXTENDS PubSubProperties, TLAPS

\* A call is a node and a place in its program.
LEMMA CallTypes ==
  /\ Sends \subseteq Calls /\ Listeners \subseteq Calls /\ Awaits \subseteq Calls
  /\ Others \subseteq Calls
  /\ \A c \in Calls : c = <<c[1], c[2]>> /\ c[1] \in Nodes /\ c[2] \in Nat \ {0}
  /\ \A c \in Listeners : c \notin Sends /\ c \notin Awaits /\ c \notin Others
  /\ \A l \in Handlers : l \in Listeners /\ l \notin Receivers
  /\ \A l \in Receivers : l \in Listeners /\ l \notin Handlers
<1>1. \A n \in Nodes : Len(Program[n]) \in Nat
  BY PubSubAssumption DEF PubSubAssumption
<1>2. \A c \in Calls : c = <<c[1], c[2]>> /\ c[1] \in Nodes /\ c[2] \in Nat \ {0}
  BY <1>1 DEF Calls
<1>3. /\ Sends \subseteq Calls /\ Listeners \subseteq Calls /\ Awaits \subseteq Calls
      /\ Others \subseteq Calls
      /\ \A c \in Listeners : c \notin Sends /\ c \notin Awaits /\ c \notin Others
      /\ \A l \in Handlers : l \in Listeners /\ l \notin Receivers
      /\ \A l \in Receivers : l \in Listeners /\ l \notin Handlers
  BY DEF Sends, Listeners, Handlers, Receivers, Awaits, Others
<1> QED BY <1>2, <1>3

LEMMA InitTypes == Init => TypeOK
BY CallTypes, PubSubAssumption DEF PubSubAssumption, Init, TypeOK, None, Subscribed

-----------------------------------------------------------------------------
(* The shapes of the steps.  Every one of them moves the programs on, or    *)
(* ends some, and then                                                      *)

\* publishes a message, or nothing,
Publishes ==
  \/ UNCHANGED <<log, inbox>>
  \/ \E c \in Sends, r \in Replicas : Publish(c, r)

LEMMA PublishTypes ==
  ASSUME TypeOK, Publishes
  PROVE  /\ log' \in Seq(Sends) /\ Len(log') \in {Len(log), Len(log) + 1}
         /\ inbox' \in [Listeners -> Seq(1..Len(log'))]
<1>1. log \in Seq(Sends) /\ Len(log) \in Nat /\ inbox \in [Listeners -> Seq(1..Len(log))]
  BY DEF TypeOK
<1>2. CASE UNCHANGED <<log, inbox>>
  BY <1>1, <1>2
<1>3. ASSUME NEW c \in Sends, NEW r \in Replicas, Publish(c, r)
      PROVE  /\ log' \in Seq(Sends) /\ Len(log') = Len(log) + 1
             /\ inbox' \in [Listeners -> Seq(1..Len(log'))]
  <2>1. log' \in Seq(Sends) /\ Len(log') = Len(log) + 1
    BY <1>1, <1>3 DEF Publish
  <2>2. ASSUME NEW l \in Listeners
        PROVE  inbox[l] \in Seq(1..Len(log')) /\ Append(inbox[l], Len(log) + 1) \in Seq(1..Len(log'))
    <3>1. inbox[l] \in Seq(1..Len(log))
      BY <1>1
    <3>2. 1..Len(log) \subseteq 1..Len(log') /\ Len(log) + 1 \in 1..Len(log')
      BY <1>1, <2>1
    <3>3. inbox[l] \in Seq(1..Len(log'))
      BY <3>1, <3>2
    <3> QED BY <3>2, <3>3
  <2>3. inbox' \in [Listeners -> Seq(1..Len(log'))]
    BY <1>3, <2>2 DEF Publish
  <2> QED BY <2>1, <2>3
<1> QED BY <1>2, <1>3 DEF Publishes

(* A fault ends the process, or takes one subscription down.                *)
LEMMA FaultShape ==
  ASSUME NEW l \in Listeners, ConnectionBreaks(l) \/ UnsubscribeBreaks(l)
  PROVE  \/ Exit(l[1])
         \/ /\ l \notin Receivers /\ UNCHANGED pc
            /\ sub[l] \in {"subscribing", "listening", "handling"}
            /\ \E to \in {"left", "closed"} :
                  sub' = [sub EXCEPT ![l] = to] /\ (to = "left" => Subscribed(l))
<1>1. TakenDown(l) \in {"left", "closed"} /\ (TakenDown(l) = "left" => Subscribed(l))
  BY DEF TakenDown
<1> QED BY <1>1 DEF ConnectionBreaks, UnsubscribeBreaks

LEMMA ExitTypes ==
  ASSUME TypeOK, NEW n \in Nodes, Exit(n)
  PROVE  /\ pc' \in [Nodes -> Nat]
         /\ sub' \in [Listeners ->
              {"none", "subscribing", "listening", "handling", "left", "closed"}]
         /\ \A l \in Listeners : Subscribed(l)' => Subscribed(l)
BY DEF TypeOK, Exit, TakenDown, Subscribed

LEMMA SendTypes ==
  ASSUME TypeOK, NEW c \in Sends, Send(c) \/ SendBreaks(c)
  PROVE  TypeOK'
<1>1. c \in Calls /\ c[1] \in Nodes
  BY CallTypes
<1>2. Publishes
  BY DEF Send, SendBreaks, Publishes
<1>3. UNCHANGED <<at, got>> /\ result' \in [Sends -> {"none", "nil", "noSubscribers", "error"}]
  BY DEF TypeOK, Send, SendBreaks
<1>4. CASE Send(c)
  <2>1. UNCHANGED <<sub, faults>> /\ pc' \in [Nodes -> Nat]
    BY <1>1, <1>4 DEF TypeOK, Send, GoesOn
  <2> QED BY <1>2, <1>3, <2>1, PublishTypes DEF TypeOK, Subscribed
<1>5. CASE SendBreaks(c)
  <2>1. faults' \in 0..MaxFaults
    BY <1>5, PubSubAssumption DEF TypeOK, SendBreaks, Fault, PubSubAssumption
  <2>2. CASE UNCHANGED <<pc, sub>>
    BY <1>2, <1>3, <2>1, <2>2, PublishTypes DEF TypeOK, Subscribed
  <2>3. CASE Exit(c[1])
    BY <1>1, <1>2, <1>3, <2>1, <2>3, PublishTypes, ExitTypes DEF TypeOK, Subscribed
  <2> QED BY <1>5, <2>2, <2>3 DEF SendBreaks
<1> QED BY <1>4, <1>5

LEMMA FaultTypes ==
  ASSUME TypeOK, NEW l \in Listeners, ConnectionBreaks(l) \/ UnsubscribeBreaks(l)
  PROVE  TypeOK'
<1>1. l[1] \in Nodes /\ UNCHANGED <<at, inbox, got, result, log>>
  BY CallTypes DEF ConnectionBreaks, UnsubscribeBreaks
<1>2. faults' \in 0..MaxFaults
  BY PubSubAssumption DEF TypeOK, ConnectionBreaks, UnsubscribeBreaks, Fault, PubSubAssumption
<1>3. ASSUME NEW to \in {"left", "closed"}, sub' = [sub EXCEPT ![l] = to], UNCHANGED pc,
             to = "left" => Subscribed(l)
      PROVE  TypeOK'
  BY <1>1, <1>2, <1>3 DEF TypeOK, Subscribed
<1>4. CASE Exit(l[1])
  BY <1>1, <1>2, <1>4, ExitTypes DEF TypeOK, Subscribed
<1> QED BY <1>3, <1>4, FaultShape

LEMMA ReadTypes ==
  ASSUME TypeOK, NEW l \in Listeners, ReceiveMessage(l)
  PROVE  /\ Head(inbox[l]) \in 1..Len(log) /\ Tail(inbox[l]) \in Seq(1..Len(log))
         /\ got' \in [Listeners -> 0..Len(log)]
         /\ inbox' \in [Listeners -> Seq(1..Len(log))]
<1>1. /\ Len(log) \in Nat /\ inbox[l] \in Seq(1..Len(log)) /\ inbox[l] # <<>>
      /\ inbox \in [Listeners -> Seq(1..Len(log))] /\ got \in [Listeners -> 0..Len(log)]
  BY DEF TypeOK, ReceiveMessage
<1>2. Head(inbox[l]) \in 1..Len(log) /\ Tail(inbox[l]) \in Seq(1..Len(log))
  BY <1>1
<1>3. 1..Len(log) \subseteq 0..Len(log)
  BY <1>1
<1>4. got' \in [Listeners -> 0..Len(log)]
  BY <1>1, <1>2, <1>3 DEF ReceiveMessage
<1>5. inbox' \in [Listeners -> Seq(1..Len(log))]
  BY <1>1, <1>2 DEF ReceiveMessage
<1> QED BY <1>2, <1>4, <1>5

(* A step that moves one subscription and perhaps one program.              *)
LEMMA MoveTypes ==
  ASSUME TypeOK, NEW l \in Listeners, NEW to \in {"subscribing", "handling", "left", "closed"},
         sub' = [sub EXCEPT ![l] = to], Subscribed(l)' => Subscribed(l),
         GoesOn(l[1]) \/ UNCHANGED pc,
         UNCHANGED <<at, inbox, got, result, log, faults>>
  PROVE  TypeOK'
<1>1. l[1] \in Nodes
  BY CallTypes
<1>2. pc' \in [Nodes -> Nat]
  <2>1. pc \in [Nodes -> Nat]
    BY DEF TypeOK
  <2>2. CASE GoesOn(l[1])
    <3>1. pc[l[1]] + 1 \in Nat
      BY <1>1, <2>1
    <3> QED BY <2>1, <2>2, <3>1 DEF GoesOn
  <2> QED BY <2>1, <2>2
<1>3. sub' \in [Listeners ->
           {"none", "subscribing", "listening", "handling", "left", "closed"}]
  BY DEF TypeOK
<1>4. ASSUME NEW k \in Listeners, k # l
      PROVE  Subscribed(k)' <=> Subscribed(k)
  BY <1>4 DEF TypeOK, Subscribed
<1>5. \A k \in Listeners : Subscribed(k)' => Subscribed(k)
  BY <1>4
<1> QED BY <1>2, <1>3, <1>5 DEF TypeOK

\* A call that returns without having touched the messages.
Passes(c) ==
  Making(c) /\ GoesOn(c[1]) /\ UNCHANGED <<sub, at, inbox, got, result, log, faults>>

LEMMA NextTypes == TypeOK /\ [Next]_vars => TypeOK'
<1> SUFFICES ASSUME TypeOK, [Next]_vars PROVE TypeOK'
  OBVIOUS
<1>1. ASSUME NEW l \in Listeners, OnReceive(l) \/ Receive(l)
      PROVE  TypeOK'
  <2>1. /\ sub' = [sub EXCEPT ![l] = "subscribing"] /\ (GoesOn(l[1]) \/ UNCHANGED pc)
        /\ UNCHANGED <<at, inbox, got, result, log, faults>>
    BY <1>1 DEF OnReceive, Receive, Spawn
  <2>2. ~Subscribed(l)'
    BY <2>1 DEF TypeOK, Subscribed
  <2> QED BY <2>1, <2>2, MoveTypes
<1>2. ASSUME NEW l \in Listeners, Subscribe(l)
      PROVE  TypeOK'
  BY <1>2 DEF Subscribe, TypeOK, Subscribed
<1>3. ASSUME NEW l \in Listeners, ReceiveMessage(l)
      PROVE  TypeOK'
  <2>1. UNCHANGED <<pc, at, result, log, faults>>
    BY <1>3 DEF ReceiveMessage
  <2>2. /\ sub' \in [Listeners ->
             {"none", "subscribing", "listening", "handling", "left", "closed"}]
        /\ \A k \in Listeners : Subscribed(k)' => Subscribed(k)
    BY <1>3 DEF ReceiveMessage, TypeOK, Subscribed
  <2> QED BY <1>3, <2>1, <2>2, ReadTypes DEF TypeOK
<1>4. ASSUME NEW l \in Listeners, Unsubscribe(l) \/ Forget(l)
      PROVE  TypeOK'
  <2>1. /\ sub' = [sub EXCEPT ![l] = "left"] \/ sub' = [sub EXCEPT ![l] = "closed"]
        /\ GoesOn(l[1]) \/ UNCHANGED pc
        /\ UNCHANGED <<at, inbox, got, result, log, faults>>
        /\ Subscribed(l)
    BY <1>4 DEF Unsubscribe, Forget, Subscribed
  <2> QED BY <2>1, MoveTypes
<1>5. ASSUME NEW c \in Awaits \cup Others, Passes(c)
      PROVE  TypeOK'
  BY <1>5, CallTypes DEF Passes, GoesOn, TypeOK, Subscribed
<1>8. ASSUME NEW c \in Others, Other(c)
      PROVE  TypeOK'
  <2>1. CASE Passes(c)
    BY <1>5, <2>1
  <2>2. CASE Exit(c[1])
    BY <1>8, <2>2, CallTypes, ExitTypes DEF Other, TypeOK
  <2> QED BY <1>8, <2>1, <2>2 DEF Other, Passes
<1>6. ASSUME NEW n \in Nodes, Finish(n)
      PROVE  TypeOK'
  BY <1>6, ExitTypes DEF Finish, TypeOK
<1>7. CASE UNCHANGED vars
  BY <1>7 DEF vars, TypeOK, Subscribed
<1>9. ASSUME NEW c \in Awaits, Await(c)
      PROVE  TypeOK'
  BY <1>5, <1>9 DEF Await, Passes
<1> QED BY <1>1, <1>2, <1>3, <1>4, <1>6, <1>7, <1>8, <1>9, SendTypes, FaultTypes
        DEF Next, Playbook, Talk, Subscription, Faulty, Stopped

(* Every state is well typed: what a subscription holds is in the log, and  *)
(* some replica knows every subscription that Redis counts.                 *)
THEOREM TypeCorrect == Spec => []TypeOK
BY InitTypes, NextTypes, PTL DEF Spec

-----------------------------------------------------------------------------
(* Where a subscription is when its program is at a call.                   *)

Stage ==
  \A l \in Listeners :
    /\ sub[l] \in {"none", "subscribing"} => got[l] = None /\ inbox[l] = <<>>
    /\ sub[l] = "listening" => got[l] = None
    /\ sub[l] = "handling" => got[l] # None

Place ==
  \A l \in Listeners :
    /\ pc[l[1]] # 0 /\ pc[l[1]] < l[2] => sub[l] = "none"
    /\ l \in Handlers /\ pc[l[1]] = l[2] => sub[l] = "none"
    /\ l \in Receivers /\ sub[l] \in {"subscribing", "listening", "handling"}
         => pc[l[1]] = l[2]
    /\ l \in Receivers /\ pc[l[1]] > l[2] => got[l] # None
    /\ pc[l[1]] = 0 => sub[l] \in {"left", "closed"}

LEMMA Typing ==
  ASSUME TypeOK
  PROVE  /\ pc \in [Nodes -> Nat]
         /\ sub \in [Listeners ->
              {"none", "subscribing", "listening", "handling", "left", "closed"}]
         /\ got \in [Listeners -> Nat]
         /\ \A l \in Listeners : inbox[l] \in Seq(1..Len(log)) /\ got[l] \in 0..Len(log)
         /\ DOMAIN inbox = Listeners
         /\ Len(log) \in Nat
BY DEF TypeOK

LEMMA SameCall ==
  \A c, d \in Calls : c[1] = d[1] /\ c[2] = d[2] => c = d
BY CallTypes

\* A program that is past no listener it was at: nobody's stage changes.
LEMMA PassPlace ==
  ASSUME TypeOK, Stage, Place, NEW n \in Nodes,
         \A l \in Listeners : l[1] = n => pc[n] # l[2],
         pc[n] # 0, GoesOn(n), UNCHANGED <<sub, got>>
  PROVE  Place'
<1>1. \A l \in Listeners : l[1] \in Nodes /\ l[2] \in Nat \ {0}
  BY CallTypes
<1>2. pc \in [Nodes -> Nat] /\ pc' = [pc EXCEPT ![n] = @ + 1]
  BY Typing DEF GoesOn
<1> QED BY <1>1, <1>2 DEF Place

LEMMA ExitPlace ==
  ASSUME TypeOK, Stage, Place, NEW n \in Nodes, Exit(n), UNCHANGED got
  PROVE  Place'
<1>1. \A l \in Listeners : l[1] \in Nodes /\ l[2] \in Nat \ {0}
  BY CallTypes
<1>2. /\ pc \in [Nodes -> Nat] /\ pc' = [pc EXCEPT ![n] = 0]
      /\ sub' = [l \in Listeners |-> IF l[1] # n THEN sub[l]
                                     ELSE IF Subscribed(l) THEN "left" ELSE "closed"]
  BY Typing DEF Exit, TakenDown
<1> QED BY <1>1, <1>2 DEF Place

LEMMA ExitStage ==
  ASSUME Stage, NEW n \in Nodes, Exit(n), UNCHANGED got,
         \A l \in Listeners : sub[l] \in {"none", "subscribing"} => inbox'[l] = inbox[l]
  PROVE  Stage'
BY DEF Stage, Exit, TakenDown

LEMMA PublishStage ==
  ASSUME TypeOK, Publishes
  PROVE  \A l \in Listeners : sub[l] \in {"none", "subscribing"} => inbox'[l] = inbox[l]
BY DEF Publishes, Publish, Hears, Subscribed

LEMMA SendPlace ==
  ASSUME TypeOK, Stage, Place, NEW c \in Sends, Send(c) \/ SendBreaks(c)
  PROVE  Stage' /\ Place'
<1>1. /\ c \in Calls /\ c[1] \in Nodes /\ c[2] # 0
      /\ \A l \in Listeners : l \in Calls /\ l # c
  BY CallTypes
<1>2. \A l \in Listeners : l[1] = c[1] => c[2] # l[2]
  BY <1>1, SameCall
<1>3. pc[c[1]] = c[2] /\ UNCHANGED got
  BY DEF Send, SendBreaks, Making
<1>4. \A l \in Listeners : sub[l] \in {"none", "subscribing"} => inbox'[l] = inbox[l]
  <2>1. Publishes
    BY DEF Send, SendBreaks, Publishes
  <2> QED BY <2>1, PublishStage
<1>5. CASE UNCHANGED <<pc, sub>> \/ (GoesOn(c[1]) /\ UNCHANGED sub)
  <2>1. Stage'
    BY <1>3, <1>4, <1>5 DEF Stage
  <2>2. Place'
    BY <1>1, <1>2, <1>3, <1>5, PassPlace DEF Place
  <2> QED BY <2>1, <2>2
<1>6. CASE Exit(c[1])
  BY <1>1, <1>3, <1>4, <1>6, ExitPlace, ExitStage
<1> QED BY <1>5, <1>6 DEF Send, SendBreaks

LEMMA FaultPlace ==
  ASSUME TypeOK, Stage, Place, NEW l \in Listeners, ConnectionBreaks(l) \/ UnsubscribeBreaks(l)
  PROVE  Stage' /\ Place'
<1>1. l[1] \in Nodes /\ UNCHANGED <<got, inbox>>
  BY CallTypes DEF ConnectionBreaks, UnsubscribeBreaks
<1>2. CASE Exit(l[1])
  BY <1>1, <1>2, ExitPlace, ExitStage
<1>3. ASSUME l \notin Receivers, NEW to \in {"left", "closed"},
             sub' = [sub EXCEPT ![l] = to], UNCHANGED pc, sub[l] # "none"
      PROVE  Stage' /\ Place'
  <2>1. sub \in [Listeners ->
          {"none", "subscribing", "listening", "handling", "left", "closed"}]
    BY Typing
  <2> QED BY <1>1, <1>3, <2>1 DEF Stage, Place
<1> QED BY <1>2, <1>3, FaultShape

LEMMA SpawnPlace ==
  ASSUME TypeOK, Stage, Place, NEW l \in Listeners, OnReceive(l) \/ Receive(l)
  PROVE  Stage' /\ Place'
<1>1. /\ \A k \in Listeners : k \in Calls /\ k[1] \in Nodes /\ k[2] \in Nat \ {0}
      /\ \A k \in Handlers : k \notin Receivers
  BY CallTypes
<1>2. /\ sub \in [Listeners ->
          {"none", "subscribing", "listening", "handling", "left", "closed"}]
      /\ pc \in [Nodes -> Nat]
  BY Typing
<1>3. /\ pc[l[1]] = l[2] /\ sub' = [sub EXCEPT ![l] = "subscribing"] /\ UNCHANGED <<got, inbox>>
      /\ sub[l] = "none"
  BY DEF OnReceive, Receive, Making, Spawn, Place
<1>4. Stage'
  BY <1>2, <1>3 DEF Stage
<1>5. CASE l \in Handlers /\ GoesOn(l[1])
  <2>1. pc' = [pc EXCEPT ![l[1]] = @ + 1]
    BY <1>5 DEF GoesOn
  <2>2. \A k \in Listeners : k[1] = l[1] /\ k[2] = pc[l[1]] => k = l
    BY <1>1, <1>3, SameCall
  <2> QED BY <1>1, <1>2, <1>3, <1>4, <1>5, <2>1, <2>2 DEF Place
<1>6. CASE l \in Receivers /\ UNCHANGED pc
  BY <1>1, <1>2, <1>3, <1>4, <1>6 DEF Place
<1> QED BY <1>5, <1>6 DEF OnReceive, Receive

LEMMA SubscriptionPlace ==
  ASSUME TypeOK, Stage, Place, NEW l \in Listeners, Subscription(l)
  PROVE  Stage' /\ Place'
<1>1. /\ \A k \in Listeners : k \in Calls /\ k[1] \in Nodes /\ k[2] \in Nat \ {0}
      /\ \A k \in Handlers : k \notin Receivers
  BY CallTypes
<1>2. /\ sub \in [Listeners ->
          {"none", "subscribing", "listening", "handling", "left", "closed"}]
      /\ pc \in [Nodes -> Nat] /\ got \in [Listeners -> Nat] /\ DOMAIN inbox = Listeners
  BY Typing
<1>3. CASE Subscribe(l)
  BY <1>1, <1>2, <1>3 DEF Subscribe, Stage, Place
<1>4. CASE ReceiveMessage(l)
  <2>1. /\ sub[l] = "listening" /\ sub' = [sub EXCEPT ![l] = "handling"]
        /\ got' = [got EXCEPT ![l] = Head(inbox[l])] /\ Head(inbox[l]) # None
        /\ \A k \in Listeners : k # l => inbox'[k] = inbox[k]
        /\ UNCHANGED pc
    <3>1. Head(inbox[l]) \in 1..Len(log)
      BY <1>4, ReadTypes
    <3>2. Head(inbox[l]) # None
      BY <3>1 DEF None
    <3>3. \A k \in Listeners : k # l => inbox'[k] = inbox[k]
      BY <1>2, <1>4 DEF ReceiveMessage
    <3> QED BY <1>4, <3>2, <3>3 DEF ReceiveMessage
  <2>2. Stage'
    BY <1>2, <2>1 DEF Stage
  <2>3. Place'
    BY <1>1, <1>2, <2>1 DEF Place
  <2> QED BY <2>2, <2>3
<1>5. CASE Unsubscribe(l)
  <2>1. /\ sub[l] = "handling" /\ sub' = [sub EXCEPT ![l] = "left"] /\ UNCHANGED <<got, inbox>>
        /\ got[l] # None
    BY <1>5 DEF Unsubscribe, Stage
  <2>2. Stage'
    BY <1>2, <2>1 DEF Stage
  <2>3. CASE l \in Receivers /\ GoesOn(l[1])
    <3>1. pc' = [pc EXCEPT ![l[1]] = @ + 1] /\ pc[l[1]] = l[2]
      BY <2>1, <2>3 DEF GoesOn, Place
    <3>2. \A k \in Listeners : k[1] = l[1] /\ k[2] = pc[l[1]] => k = l
      BY <1>1, <3>1, SameCall
    <3> QED BY <1>1, <1>2, <2>1, <2>2, <2>3, <3>1, <3>2 DEF Place
  <2>4. CASE UNCHANGED pc /\ l \notin Receivers
    BY <1>1, <1>2, <2>1, <2>2, <2>4 DEF Place
  <2> QED BY <1>5, <2>3, <2>4 DEF Unsubscribe
<1>6. CASE Forget(l)
  BY <1>1, <1>2, <1>6 DEF Forget, Stage, Place
<1> QED BY <1>3, <1>4, <1>5, <1>6 DEF Subscription

LEMMA NextPlace == TypeOK /\ Stage /\ Place /\ [Next]_vars => Stage' /\ Place'
<1> SUFFICES ASSUME TypeOK, Stage, Place, [Next]_vars PROVE Stage' /\ Place'
  OBVIOUS
<1>1. ASSUME NEW c \in Awaits \cup Others, Passes(c)
      PROVE  Stage' /\ Place'
  <2>1. /\ c \in Calls /\ c[1] \in Nodes /\ c[2] # 0
        /\ \A l \in Listeners : l \in Calls /\ l # c
    BY CallTypes
  <2>2. pc[c[1]] = c[2] /\ GoesOn(c[1]) /\ UNCHANGED <<sub, got, inbox>>
    BY <1>1 DEF Passes, Making
  <2>3. \A l \in Listeners : l[1] = c[1] => pc[c[1]] # l[2]
    BY <2>1, <2>2, SameCall
  <2>4. Place'
    BY <2>1, <2>2, <2>3, PassPlace
  <2> QED BY <2>2, <2>4 DEF Stage
<1>2. ASSUME NEW n \in Nodes, Finish(n)
      PROVE  Stage' /\ Place'
  BY <1>2, ExitPlace, ExitStage DEF Finish
<1>3. CASE UNCHANGED vars
  BY <1>3 DEF vars, Stage, Place
<1>4. ASSUME NEW c \in Awaits, Await(c)
      PROVE  Stage' /\ Place'
  BY <1>1, <1>4 DEF Await, Passes
<1>5. ASSUME NEW c \in Others, Other(c)
      PROVE  Stage' /\ Place'
  <2>1. CASE Passes(c)
    BY <1>1, <2>1
  <2>2. CASE Exit(c[1])
    BY <1>5, <2>2, CallTypes, ExitPlace, ExitStage DEF Other
  <2> QED BY <1>5, <2>1, <2>2 DEF Other, Passes
<1> QED BY <1>2, <1>3, <1>4, <1>5, SendPlace, FaultPlace, SpawnPlace, SubscriptionPlace
        DEF Next, Playbook, Talk, Faulty, Stopped

LEMMA InitPlace == Init => Stage /\ Place
<1>1. \A l \in Listeners : l[1] \in Nodes /\ l[2] \in Nat \ {0}
  BY CallTypes
<1> QED BY <1>1 DEF Init, Stage, Place

-----------------------------------------------------------------------------
(* The order of what a worker receives.                                     *)

\* j listens, or has something, only when i has returned, and all that it has
\* is younger.
After(i, j) ==
  /\ sub[j] \notin {"none", "closed"} \/ inbox[j] # <<>> \/ got[j] # None => got[i] # None
  /\ \A k \in 1..Len(inbox[j]) : got[i] < inbox[j][k]
  /\ got[j] # None => got[i] < got[j]

Order ==
  \A i \in Receivers, j \in Listeners : i[1] = j[1] /\ i[2] < j[2] => After(i, j)

LEMMA QuietOrder ==
  ASSUME Order, UNCHANGED <<got, inbox>>,
         \A l \in Listeners : sub'[l] \notin {"none", "closed"} => sub[l] \notin {"none", "closed"}
  PROVE  Order'
BY DEF Order, After

LEMMA PublishOrder ==
  ASSUME TypeOK, Order, Publishes, UNCHANGED got,
         \A l \in Listeners : sub'[l] \notin {"none", "closed"} => sub[l] \notin {"none", "closed"}
  PROVE  Order'
<1> SUFFICES ASSUME NEW i \in Receivers, NEW j \in Listeners, i[1] = j[1], i[2] < j[2]
             PROVE  After(i, j)'
  BY DEF Order
<1>1. After(i, j)
  BY DEF Order
<1>2. /\ inbox[j] \in Seq(1..Len(log)) /\ got[i] \in 0..Len(log) /\ Len(log) \in Nat
      /\ i \in Listeners
  BY Typing, CallTypes
<1>3. CASE inbox'[j] = inbox[j]
  BY <1>1, <1>3 DEF After
<1>4. CASE inbox'[j] = Append(inbox[j], Len(log) + 1) /\ Subscribed(j)
  <2>1. got[i] # None /\ got[i] < Len(log) + 1
    BY <1>1, <1>2, <1>4 DEF After, Subscribed
  <2>2. \A k \in 1..Len(inbox'[j]) : inbox'[j][k] \in {Len(log) + 1} \/
          (k \in 1..Len(inbox[j]) /\ inbox'[j][k] = inbox[j][k])
    BY <1>2, <1>4
  <2> QED BY <1>1, <2>1, <2>2 DEF After
<1> QED BY <1>3, <1>4 DEF Publishes, Publish, Hears

LEMMA SpawnOrder ==
  ASSUME TypeOK, Place, Order, NEW l \in Listeners, OnReceive(l) \/ Receive(l)
  PROVE  Order'
<1> SUFFICES ASSUME NEW i \in Receivers, NEW j \in Listeners, i[1] = j[1], i[2] < j[2]
             PROVE  After(i, j)'
  BY DEF Order
<1>1. After(i, j) /\ i \in Listeners /\ l[2] # 0
  BY CallTypes DEF Order
<1>2. /\ pc[l[1]] = l[2] /\ sub' = [sub EXCEPT ![l] = "subscribing"] /\ UNCHANGED <<got, inbox>>
  BY DEF OnReceive, Receive, Making, Spawn
<1>3. CASE j = l
  <2>1. got[i] # None
    BY <1>1, <1>2, <1>3 DEF Place
  <2> QED BY <1>1, <1>2, <2>1 DEF After
<1>4. CASE j # l
  BY <1>1, <1>2, <1>4 DEF After
<1> QED BY <1>3, <1>4

LEMMA ReadOrder ==
  ASSUME TypeOK, Stage, Place, Order, NEW l \in Listeners, ReceiveMessage(l)
  PROVE  Order'
<1> SUFFICES ASSUME NEW i \in Receivers, NEW j \in Listeners, i[1] = j[1], i[2] < j[2]
             PROVE  After(i, j)'
  BY DEF Order
<1>1. /\ After(i, j) /\ i \in Listeners /\ i[2] \in Nat \ {0} /\ j[2] \in Nat
  BY CallTypes DEF Order
<1>2. /\ inbox[l] \in Seq(1..Len(log)) /\ inbox[l] # <<>> /\ DOMAIN inbox = Listeners
      /\ got \in [Listeners -> Nat] /\ Head(inbox[l]) \in 1..Len(log) /\ Len(log) \in Nat
  BY Typing, ReadTypes DEF ReceiveMessage
<1>3. /\ sub[l] = "listening" /\ sub' = [sub EXCEPT ![l] = "handling"]
      /\ got' = [got EXCEPT ![l] = Head(inbox[l])]
      /\ inbox' = [inbox EXCEPT ![l] = Tail(inbox[l])]
  BY DEF ReceiveMessage
<1>4. CASE j = l
  <2>1. got[i] # None /\ got'[i] = got[i] /\ got'[j] = Head(inbox[l]) /\ inbox'[j] = Tail(inbox[l])
    BY <1>1, <1>2, <1>3, <1>4 DEF After
  <2>2. \A k \in 1..Len(inbox'[j]) : k + 1 \in 1..Len(inbox[j]) /\ inbox'[j][k] = inbox[j][k + 1]
    BY <1>2, <1>4, <2>1
  <2>3. Head(inbox[l]) = inbox[j][1] /\ 1 \in 1..Len(inbox[j])
    BY <1>2, <1>4
  <2> QED BY <1>1, <2>1, <2>2, <2>3 DEF After
<1>5. CASE j # l /\ i = l
  <2>1. pc[j[1]] = i[2] /\ sub[j] = "none"
    BY <1>1, <1>3, <1>5 DEF Place
  <2>2. inbox[j] = <<>> /\ got[j] = None
    BY <2>1 DEF Stage
  <2>3. sub'[j] = "none" /\ inbox'[j] = <<>> /\ got'[j] = None
    BY <1>2, <1>3, <1>5, <2>1, <2>2 DEF Stage
  <2> QED BY <2>3 DEF After
<1>6. CASE j # l /\ i # l
  BY <1>1, <1>2, <1>3, <1>6 DEF After
<1> QED BY <1>4, <1>5, <1>6

LEMMA ExitQuiet ==
  ASSUME NEW n \in Nodes, Exit(n)
  PROVE  \A l \in Listeners : sub'[l] \notin {"none", "closed"} => sub[l] \notin {"none", "closed"}
BY DEF Exit, TakenDown, Subscribed

LEMMA NextOrder == TypeOK /\ Stage /\ Place /\ Order /\ [Next]_vars => Order'
<1> SUFFICES ASSUME TypeOK, Stage, Place, Order, [Next]_vars PROVE Order'
  OBVIOUS
<1>1. ASSUME NEW c \in Sends, Send(c) \/ SendBreaks(c)
      PROVE  Order'
  <2>1. Publishes /\ UNCHANGED got /\ c[1] \in Nodes /\ (UNCHANGED sub \/ Exit(c[1]))
    BY <1>1, CallTypes DEF Send, SendBreaks, Publishes
  <2> QED BY <2>1, PublishOrder, ExitQuiet
<1>2. ASSUME NEW l \in Listeners, ConnectionBreaks(l) \/ UnsubscribeBreaks(l)
      PROVE  Order'
  <2>1. UNCHANGED <<got, inbox>> /\ l[1] \in Nodes
    BY <1>2, CallTypes DEF ConnectionBreaks, UnsubscribeBreaks
  <2>2. ASSUME NEW to \in {"left", "closed"}, sub' = [sub EXCEPT ![l] = to],
               sub[l] \in {"subscribing", "listening", "handling"}
        PROVE  Order'
    BY <2>1, <2>2, QuietOrder, Typing
  <2> QED BY <1>2, <2>1, <2>2, FaultShape, QuietOrder, ExitQuiet
<1>3. ASSUME NEW l \in Listeners, Subscribe(l) \/ Unsubscribe(l) \/ Forget(l)
      PROVE  Order'
  <2>1. UNCHANGED <<got, inbox>> /\ sub[l] \notin {"none", "closed"}
    BY <1>3 DEF Subscribe, Unsubscribe, Forget
  <2>2. \A k \in Listeners : k # l => sub'[k] = sub[k]
    BY <1>3, Typing DEF Subscribe, Unsubscribe, Forget
  <2> QED BY <2>1, <2>2, QuietOrder
<1>4. ASSUME NEW c \in Awaits, Await(c)
      PROVE  Order'
  BY <1>4, QuietOrder DEF Await
<1>7. ASSUME NEW c \in Others, Other(c)
      PROVE  Order'
  BY <1>7, QuietOrder, ExitQuiet, CallTypes DEF Other
<1>5. ASSUME NEW n \in Nodes, Finish(n)
      PROVE  Order'
  BY <1>5, QuietOrder, ExitQuiet DEF Finish
<1>6. CASE UNCHANGED vars
  BY <1>6, QuietOrder DEF vars
<1> QED BY <1>1, <1>2, <1>3, <1>4, <1>5, <1>6, <1>7, SpawnOrder, ReadOrder
        DEF Next, Playbook, Talk, Subscription, Faulty, Stopped

LEMMA InitOrder == Init => Order
BY CallTypes DEF Init, Order, After

(* What a worker listens for after a Receive is younger than what that      *)
(* Receive returned: for any playbooks, replicas and broken connections.    *)
(* The strengthening says it of the queues, and that nobody listens for the *)
(* later one before the earlier one has returned.                           *)
THEOREM ReceivesAreOrdered == Spec => []ReceivesInOrder
<1>1. Order => ReceivesInOrder
  BY DEF Order, After, ReceivesInOrder
<1> QED BY <1>1, InitTypes, NextTypes, InitPlace, NextPlace, InitOrder, NextOrder, PTL DEF Spec

-----------------------------------------------------------------------------
(* nil from Send.                                                           *)

(* What was pushed stays with whom it was pushed to.                        *)
LEMMA PushedStays ==
  ASSUME TypeOK, Stage, NEW l \in Listeners, NEW i \in 1..Len(log), PushedTo(l, i),
         \/ Publishes /\ UNCHANGED got
         \/ UNCHANGED <<inbox, got>>
         \/ \E k \in Listeners : ReceiveMessage(k)
  PROVE  PushedTo(l, i)'
<1>0. inbox[l] \in Seq(1..Len(log)) /\ Len(log) \in Nat
  BY Typing
<1>1. CASE UNCHANGED <<inbox, got>>
  BY <1>1 DEF PushedTo
<1>2. CASE Publishes /\ UNCHANGED got
  <2>1. \/ inbox'[l] = inbox[l]
        \/ inbox'[l] = Append(inbox[l], Len(log) + 1)
    BY <1>2 DEF Publishes, Publish
  <2>2. \A k \in DOMAIN inbox[l] : k \in DOMAIN inbox'[l] /\ inbox'[l][k] = inbox[l][k]
    BY <1>0, <2>1
  <2> QED BY <1>2, <2>2 DEF PushedTo
<1>3. ASSUME NEW k \in Listeners, ReceiveMessage(k)
      PROVE  PushedTo(l, i)'
  <2>1. /\ sub[k] = "listening" /\ inbox[k] # <<>>
        /\ got' = [got EXCEPT ![k] = Head(inbox[k])]
        /\ inbox' = [inbox EXCEPT ![k] = Tail(inbox[k])]
    BY <1>3 DEF ReceiveMessage
  <2>2. DOMAIN inbox = Listeners /\ got \in [Listeners -> Nat]
    BY Typing
  <2>3. CASE k # l
    BY <2>1, <2>2, <2>3 DEF PushedTo
  <2>4. CASE k = l
    <3>1. got[l] # i
      BY <2>1, <2>4, <1>0 DEF Stage, None
    <3>2. PICK n \in DOMAIN inbox[l] : inbox[l][n] = i
      BY <3>1 DEF PushedTo
    <3>3. got'[l] = Head(inbox[l]) /\ inbox'[l] = Tail(inbox[l])
      BY <2>1, <2>2, <2>4
    <3>4. CASE n = 1
      BY <1>0, <3>2, <3>3, <3>4 DEF PushedTo
    <3>5. CASE n # 1
      <4>1. n - 1 \in DOMAIN Tail(inbox[l]) /\ Tail(inbox[l])[n - 1] = inbox[l][n]
        BY <1>0, <2>1, <2>4, <3>2, <3>5
      <4> QED BY <3>2, <3>3, <4>1 DEF PushedTo
    <3> QED BY <3>4, <3>5
  <2> QED BY <2>3, <2>4
<1> QED BY <1>1, <1>2, <1>3

(* As long as c itself publishes nothing, its latest message stays that.    *)
LEMMA LatestStays ==
  ASSUME TypeOK, NEW c \in Sends, NEW i \in 1..Len(log), LatestOf(c, i),
         \/ UNCHANGED log
         \/ \E d \in Sends \ {c} : log' = Append(log, d)
  PROVE  i \in 1..Len(log') /\ LatestOf(c, i)'
<1>0. log \in Seq(Sends) /\ Len(log) \in Nat
  BY DEF TypeOK
<1>1. CASE UNCHANGED log
  BY <1>1 DEF LatestOf
<1>2. ASSUME NEW d \in Sends \ {c}, log' = Append(log, d)
      PROVE  i \in 1..Len(log') /\ LatestOf(c, i)'
  <2>1. /\ Len(log') = Len(log) + 1 /\ log'[Len(log) + 1] = d
        /\ \A j \in 1..Len(log) : log'[j] = log[j]
    BY <1>0, <1>2
  <2> QED BY <1>0, <1>2, <2>1 DEF LatestOf
<1> QED BY <1>1, <1>2

HeardAs(c) ==
  \E i \in 1..Len(log), l \in Listeners :
    LatestOf(c, i) /\ Channel(l) = Channel(c) /\ PushedTo(l, i)

(* Other calls leave a message that was heard heard, and c's own attempts   *)
(* end with nil only where somebody hears them.                             *)
LEMMA HeardStays ==
  ASSUME TypeOK, Stage, NEW c \in Sends, HeardAs(c),
         \/ \E d \in Sends \ {c}, r \in Replicas : Publish(d, r) /\ UNCHANGED got
         \/ UNCHANGED log /\ (UNCHANGED <<inbox, got>> \/ \E k \in Listeners : ReceiveMessage(k))
  PROVE  HeardAs(c)'
<1>1. PICK i \in 1..Len(log), l \in Listeners :
        LatestOf(c, i) /\ Channel(l) = Channel(c) /\ PushedTo(l, i)
  BY DEF HeardAs
<1>2. i \in 1..Len(log') /\ LatestOf(c, i)'
  <2>1. UNCHANGED log \/ \E d \in Sends \ {c} : log' = Append(log, d)
    BY DEF Publish
  <2> QED BY <1>1, <2>1, LatestStays
<1>3. PushedTo(l, i)'
  BY <1>1, PushedStays DEF Publishes
<1> QED BY <1>1, <1>2, <1>3 DEF HeardAs

LEMMA SendHeard ==
  ASSUME TypeOK, Stage, NilMeansHeard, NEW c \in Sends, Send(c) \/ SendBreaks(c)
  PROVE  NilMeansHeard'
<1>0. /\ result \in [Sends -> {"none", "nil", "noSubscribers", "error"}]
      /\ log \in Seq(Sends) /\ Len(log) \in Nat /\ UNCHANGED got
  BY DEF TypeOK, Send, SendBreaks
<1>1. ASSUME NEW d \in Sends, d # c, result'[d] = "nil"
      PROVE  HeardAs(d)'
  <2>1. HeardAs(d)
    BY <1>0, <1>1 DEF Send, SendBreaks, NilMeansHeard, HeardAs
  <2> QED BY <1>0, <1>1, <2>1, HeardStays DEF Send, SendBreaks
<1>2. ASSUME result'[c] = "nil"
      PROVE  HeardAs(c)'
  <2>1. PICK r \in Replicas, l \in Listeners : Hears(l, c, r) /\ Publish(c, r)
    BY <1>0, <1>2 DEF Send, SendBreaks
  <2>2. PICK n \in Nat : n = Len(log) + 1
    BY <1>0
  <2>3. log' = Append(log, c) /\ Len(log') = n /\ log'[n] = c /\ n \in 1..Len(log')
    BY <1>0, <2>1, <2>2 DEF Publish
  <2>4. LatestOf(c, n)'
    BY <2>2, <2>3 DEF LatestOf
  <2>5. inbox[l] \in Seq(1..Len(log)) /\ inbox'[l] = Append(inbox[l], n)
    BY <2>1, <2>2, Typing DEF Publish
  <2>6. Len(inbox[l]) + 1 \in DOMAIN inbox'[l] /\ inbox'[l][Len(inbox[l]) + 1] = n
    BY <2>5
  <2>7. PushedTo(l, n)'
    BY <2>6 DEF PushedTo
  <2> QED BY <2>1, <2>3, <2>4, <2>7 DEF HeardAs, Hears
<1> QED BY <1>1, <1>2 DEF NilMeansHeard, HeardAs

LEMMA NextHeard == TypeOK /\ Stage /\ NilMeansHeard /\ [Next]_vars => NilMeansHeard'
<1> SUFFICES ASSUME TypeOK, Stage, NilMeansHeard, [Next]_vars PROVE NilMeansHeard'
  OBVIOUS
<1>1. ASSUME UNCHANGED <<result, log>>,
             UNCHANGED <<inbox, got>> \/ \E k \in Listeners : ReceiveMessage(k)
      PROVE  NilMeansHeard'
  <2>1. ASSUME NEW c \in Sends, result'[c] = "nil"
        PROVE  HeardAs(c)'
    <3>1. HeardAs(c)
      BY <1>1, <2>1 DEF NilMeansHeard, HeardAs
    <3> QED BY <1>1, <3>1, HeardStays
  <2> QED BY <2>1 DEF NilMeansHeard, HeardAs
<1>2. ASSUME NEW l \in Listeners, ReceiveMessage(l)
      PROVE  NilMeansHeard'
  <2>1. UNCHANGED <<result, log>>
    BY <1>2 DEF ReceiveMessage
  <2> QED BY <1>1, <1>2, <2>1
<1>3. CASE UNCHANGED <<result, log, inbox, got>>
  BY <1>1, <1>3
<1> QED BY <1>2, <1>3, SendHeard
        DEF Next, Playbook, Talk, Subscription, Faulty, Stopped, vars, OnReceive, Receive, Spawn,
            Subscribe, Unsubscribe, Forget, ConnectionBreaks, UnsubscribeBreaks, Await, Other, Finish

(* The very message of a Send that returned nil was pushed to somebody on   *)
(* its channel: for any playbooks, retries, replicas and broken             *)
(* connections, and whatever else is sent.                                  *)
THEOREM NilIsHeard == Spec => []NilMeansHeard
<1>1. Init => NilMeansHeard
  BY DEF Init, NilMeansHeard
<1> QED BY <1>1, InitTypes, NextTypes, InitPlace, NextPlace, NextHeard, PTL DEF Spec

-----------------------------------------------------------------------------
(* The refinement of OneShot.                                               *)

LEMMA InitRefines == Init => Cell!Init
BY PubSubAssumption DEF PubSubAssumption, Init, Cell!Init, CellOf, PhaseOf, None

\* What a cell holds once the queues are these.
HoldsNext(l) ==
  IF got[l] # None THEN got[l]
  ELSE IF sub[l] = "listening" /\ inbox'[l] # <<>> THEN Head(inbox'[l]) ELSE 0

LEMMA PublishFills ==
  ASSUME TypeOK, Stage, NEW c \in Sends, NEW r \in Replicas, Publish(c, r)
  PROVE  \A l \in Listeners : HoldsNext(l) = Cell!Filled(c, r)[l]
<1> SUFFICES ASSUME NEW l \in Listeners
             PROVE  HoldsNext(l) = Cell!Filled(c, r)[l]
  OBVIOUS
<1>1. /\ inbox[l] \in Seq(1..Len(log)) /\ Len(log) \in Nat
      /\ inbox'[l] = IF Hears(l, c, r) THEN Append(inbox[l], Len(log) + 1) ELSE inbox[l]
  BY Typing DEF Publish
<1>2. Cell!Filled(c, r)[l] =
        IF PhaseOf[l] = "open" /\ at[l] = r /\ Channel(l) = Channel(c) /\ CellOf[l] = 0
        THEN Len(log) + 1 ELSE CellOf[l]
  BY DEF Cell!Filled
<1>3. CASE got[l] # None \/ sub[l] # "listening"
  BY <1>2, <1>3 DEF HoldsNext, CellOf, PhaseOf
<1>4. CASE got[l] = None /\ sub[l] = "listening"
  <2>1. PhaseOf[l] = "open" /\ (Hears(l, c, r) <=> at[l] = r /\ Channel(l) = Channel(c))
    BY <1>4 DEF PhaseOf, Hears, Subscribed
  <2>2. CASE inbox[l] = <<>>
    <3>1. CellOf[l] = 0
      BY <1>4, <2>2 DEF CellOf
    <3>2. Append(inbox[l], Len(log) + 1) # <<>> /\ Head(Append(inbox[l], Len(log) + 1)) = Len(log) + 1
      BY <2>2
    <3> QED BY <1>1, <1>2, <1>4, <2>1, <2>2, <3>1, <3>2 DEF HoldsNext
  <2>3. CASE inbox[l] # <<>>
    <3>1. CellOf[l] = Head(inbox[l]) /\ Head(inbox[l]) \in 1..Len(log)
      BY <1>1, <1>4, <2>3 DEF CellOf
    <3>2. Len(Append(inbox[l], Len(log) + 1)) = Len(inbox[l]) + 1 /\ Len(inbox[l]) \in Nat \ {0}
      BY <1>1, <2>3
    <3>3. Append(inbox[l], Len(log) + 1) # <<>>
      BY <3>2
    <3>4. Head(Append(inbox[l], Len(log) + 1)) = Head(inbox[l])
      BY <1>1, <3>2
    <3> QED BY <1>1, <1>2, <1>4, <2>1, <2>3, <3>1, <3>3, <3>4 DEF HoldsNext
  <2> QED BY <2>2, <2>3
<1> QED BY <1>3, <1>4

\* When a process exits, the cells of n that are not read are dropped.
Dropped(n) == {l \in Listeners : l[1] = n /\ PhaseOf[l] \in {"new", "open"}}

LEMMA ExitDrops ==
  ASSUME TypeOK, Stage, NEW n \in Nodes, Exit(n), UNCHANGED got
  PROVE  /\ PhaseOf' = [l \in Listeners |-> IF l \in Dropped(n) THEN "dropped" ELSE PhaseOf[l]]
         /\ CellOf' = [l \in Listeners |-> IF l \in Dropped(n) THEN 0 ELSE HoldsNext(l)]
<1>1. sub \in [Listeners ->
        {"none", "subscribing", "listening", "handling", "left", "closed"}]
  BY Typing
<1>2. ASSUME NEW l \in Listeners
      PROVE  /\ PhaseOf'[l] = IF l \in Dropped(n) THEN "dropped" ELSE PhaseOf[l]
             /\ CellOf'[l] = IF l \in Dropped(n) THEN 0 ELSE HoldsNext(l)
  <2>1. sub'[l] = IF l[1] # n THEN sub[l] ELSE IF Subscribed(l) THEN "left" ELSE "closed"
    BY DEF Exit, TakenDown
  <2>2. CASE l[1] # n
    BY <2>1, <2>2 DEF PhaseOf, CellOf, HoldsNext, Dropped
  <2>3. CASE l[1] = n
    <3>1. sub'[l] \in {"left", "closed"}
      BY <2>1, <2>3
    <3> QED BY <1>1, <2>3, <3>1 DEF PhaseOf, CellOf, HoldsNext, Dropped, Stage
  <2> QED BY <2>2, <2>3
<1> QED BY <1>2 DEF PhaseOf, CellOf

LEMMA SendRefines ==
  ASSUME TypeOK, Stage, NEW c \in Sends, Send(c) \/ SendBreaks(c)
  PROVE  [Cell!Next]_Cell!vars
<1>1. UNCHANGED <<at, got>> /\ c[1] \in Nodes
  BY CallTypes DEF Send, SendBreaks
<1>2. PICK D \in SUBSET Listeners :
        /\ \A l \in D : PhaseOf[l] \in {"new", "open"}
        /\ PhaseOf' = [l \in Listeners |-> IF l \in D THEN "dropped" ELSE PhaseOf[l]]
        /\ CellOf' = [l \in Listeners |-> IF l \in D THEN 0 ELSE HoldsNext(l)]
  <2>1. CASE UNCHANGED sub
    <3> DEFINE Nobody == {l \in Listeners : FALSE}
    <3>1. /\ PhaseOf' = [l \in Listeners |-> IF l \in Nobody THEN "dropped" ELSE PhaseOf[l]]
          /\ CellOf' = [l \in Listeners |-> IF l \in Nobody THEN 0 ELSE HoldsNext(l)]
      BY <1>1, <2>1 DEF PhaseOf, CellOf, HoldsNext
    <3>2. Nobody \in SUBSET Listeners /\ \A l \in Nobody : PhaseOf[l] \in {"new", "open"}
      OBVIOUS
    <3> HIDE DEF Nobody
    <3> QED BY <3>1, <3>2
  <2>2. CASE Exit(c[1])
    <3>1. Dropped(c[1]) \in SUBSET Listeners
      BY DEF Dropped
    <3> QED BY <1>1, <2>2, <3>1, ExitDrops DEF Dropped
  <2> QED BY <2>1, <2>2 DEF Send, SendBreaks
<1>3. ASSUME NEW r \in Replicas, Publish(c, r)
      PROVE  Cell!Next
  <2>1. CellOf' = [l \in Listeners |-> IF l \in D THEN 0 ELSE Cell!Filled(c, r)[l]]
    BY <1>2, <1>3, PublishFills
  <2>2. Cell!Drop(D, Cell!Filled(c, r))
    BY <1>2, <2>1 DEF Cell!Drop
  <2>3. log' = Append(log, c)
    BY <1>3 DEF Publish
  <2> QED BY <1>1, <2>2, <2>3 DEF Cell!Next, Cell!Publish
<1>4. CASE UNCHANGED <<log, inbox>>
  <2>1. \A l \in Listeners : HoldsNext(l) = CellOf[l]
    BY <1>4 DEF HoldsNext, CellOf
  <2>2. Cell!Drop(D, CellOf)
    BY <1>2, <2>1 DEF Cell!Drop
  <2> QED BY <1>1, <1>4, <2>2 DEF Cell!Next
<1> QED BY <1>3, <1>4 DEF Send, SendBreaks

LEMMA QuietRefines ==
  ASSUME UNCHANGED <<log, at, got, inbox>>,
         \A l \in Listeners : got[l] = None =>
           (sub'[l] = sub[l] \/ {sub'[l], sub[l]} \subseteq {"none", "subscribing"}
              \/ {sub'[l], sub[l]} \subseteq {"left", "closed", "handling"})
  PROVE  UNCHANGED Cell!vars
<1>1. PhaseOf' = PhaseOf
  BY DEF PhaseOf
<1>2. CellOf' = CellOf
  BY DEF CellOf
<1> QED BY <1>1, <1>2 DEF Cell!vars

LEMMA ExitRefines ==
  ASSUME TypeOK, Stage, NEW n \in Nodes, Exit(n), UNCHANGED <<log, at, got, inbox>>
  PROVE  Cell!Next
<1>1. Dropped(n) \in SUBSET Listeners /\ \A l \in Dropped(n) : PhaseOf[l] \in {"new", "open"}
  BY DEF Dropped
<1>2. \A l \in Listeners : HoldsNext(l) = CellOf[l]
  BY DEF HoldsNext, CellOf
<1>3. Cell!Drop(Dropped(n), CellOf)
  BY <1>1, <1>2, ExitDrops DEF Cell!Drop
<1> QED BY <1>1, <1>3 DEF Cell!Next

LEMMA FaultRefines ==
  ASSUME TypeOK, Stage, NEW l \in Listeners, ConnectionBreaks(l) \/ UnsubscribeBreaks(l)
  PROVE  [Cell!Next]_Cell!vars
<1>1. l[1] \in Nodes /\ UNCHANGED <<log, at, got, inbox>>
  BY CallTypes DEF ConnectionBreaks, UnsubscribeBreaks
<1>2. CASE Exit(l[1])
  BY <1>1, <1>2, ExitRefines
<1>3. ASSUME NEW to \in {"left", "closed"}, sub' = [sub EXCEPT ![l] = to],
             sub[l] \in {"subscribing", "listening", "handling"}
      PROVE  [Cell!Next]_Cell!vars
  <2>0. sub'[l] = to /\ \A k \in Listeners : k # l => sub'[k] = sub[k]
    BY <1>3, Typing
  <2>1. CASE sub[l] = "handling"
    BY <1>1, <2>0, <2>1, QuietRefines DEF Stage
  <2>2. CASE sub[l] \in {"subscribing", "listening"}
    <3>1. got[l] = None
      BY <2>2 DEF Stage
    <3>2. PhaseOf[l] \in {"new", "open"}
      BY <2>2, <3>1 DEF PhaseOf
    <3>3. PhaseOf' = [k \in Listeners |-> IF k \in {l} THEN "dropped" ELSE PhaseOf[k]]
      BY <1>1, <2>0, <3>1 DEF PhaseOf
    <3>4. CellOf' = [k \in Listeners |-> IF k \in {l} THEN 0 ELSE CellOf[k]]
      BY <1>1, <2>0, <3>1 DEF CellOf
    <3>5. Cell!Drop({l}, CellOf)
      BY <3>2, <3>3, <3>4 DEF Cell!Drop
    <3> QED BY <1>1, <3>5 DEF Cell!Next
  <2> QED BY <1>3, <2>1, <2>2
<1> QED BY <1>2, <1>3, FaultShape

LEMMA SubscribeRefines ==
  ASSUME TypeOK, Stage, NEW l \in Listeners, Subscribe(l)
  PROVE  Cell!Open(l)
<1>1. sub[l] = "subscribing" /\ got[l] = None /\ inbox[l] = <<>> /\ UNCHANGED <<log, got, inbox>>
  BY DEF Subscribe, Stage
<1>2. sub'[l] = "listening" /\ \A k \in Listeners : k # l => sub'[k] = sub[k]
  BY Typing DEF Subscribe
<1>3. PhaseOf[l] = "new" /\ PhaseOf' = [PhaseOf EXCEPT ![l] = "open"]
  BY <1>1, <1>2 DEF PhaseOf
<1>4. CellOf' = CellOf
  BY <1>1, <1>2 DEF CellOf
<1> QED BY <1>1, <1>3, <1>4 DEF Cell!Open, Subscribe

LEMMA ReadRefines ==
  ASSUME TypeOK, Stage, NEW l \in Listeners, ReceiveMessage(l)
  PROVE  Cell!Read(l)
<1>1. sub[l] = "listening" /\ got[l] = None /\ inbox[l] # <<>> /\ UNCHANGED <<log, at>>
  BY DEF ReceiveMessage, Stage
<1>2. /\ sub'[l] = "handling" /\ got'[l] = Head(inbox[l])
      /\ \A k \in Listeners : k # l => sub'[k] = sub[k] /\ got'[k] = got[k] /\ inbox'[k] = inbox[k]
  BY Typing DEF ReceiveMessage
<1>3. Head(inbox[l]) \in 1..Len(log) /\ Len(log) \in Nat
  BY ReadTypes, Typing
<1>4. Head(inbox[l]) # None
  BY <1>3 DEF None
<1>5. PhaseOf[l] = "open" /\ PhaseOf' = [PhaseOf EXCEPT ![l] = "read"]
  BY <1>1, <1>2, <1>4 DEF PhaseOf
<1>6. CellOf[l] = Head(inbox[l]) /\ CellOf' = CellOf
  BY <1>1, <1>2, <1>4 DEF CellOf
<1>7. CellOf[l] # 0
  BY <1>4, <1>6 DEF None
<1> QED BY <1>1, <1>5, <1>6, <1>7 DEF Cell!Read

LEMMA NextRefines == TypeOK /\ Stage /\ Place /\ [Next]_vars => [Cell!Next]_Cell!vars
<1> SUFFICES ASSUME TypeOK, Stage, Place, [Next]_vars PROVE [Cell!Next]_Cell!vars
  OBVIOUS
<1>1. ASSUME NEW l \in Listeners, OnReceive(l) \/ Receive(l)
      PROVE  UNCHANGED Cell!vars
  <2>1. sub[l] = "none" /\ sub' = [sub EXCEPT ![l] = "subscribing"] /\ UNCHANGED <<log, at, got, inbox>>
    BY <1>1 DEF OnReceive, Receive, Making, Spawn, Place
  <2>2. sub'[l] = "subscribing" /\ \A k \in Listeners : k # l => sub'[k] = sub[k]
    BY <2>1, Typing
  <2> QED BY <2>1, <2>2, QuietRefines
<1>2. ASSUME NEW l \in Listeners, Unsubscribe(l) \/ Forget(l)
      PROVE  UNCHANGED Cell!vars
  <2>1. /\ {sub[l], sub'[l]} \subseteq {"left", "closed", "handling"}
        /\ \A k \in Listeners : k # l => sub'[k] = sub[k]
    BY <1>2, Typing DEF Unsubscribe, Forget
  <2>2. UNCHANGED <<log, at, got, inbox>>
    BY <1>2 DEF Unsubscribe, Forget
  <2> QED BY <2>1, <2>2, QuietRefines
<1>3. ASSUME NEW l \in Listeners, Subscription(l)
      PROVE  [Cell!Next]_Cell!vars
  BY <1>2, <1>3, SubscribeRefines, ReadRefines DEF Subscription, Cell!Next
<1>4. ASSUME NEW c \in Awaits, Await(c)
      PROVE  UNCHANGED Cell!vars
  BY <1>4, QuietRefines DEF Await
<1>7. ASSUME NEW c \in Others, Other(c)
      PROVE  [Cell!Next]_Cell!vars
  BY <1>7, QuietRefines, ExitRefines, CallTypes DEF Other
<1>5. ASSUME NEW n \in Nodes, Finish(n)
      PROVE  Cell!Next
  BY <1>5, ExitRefines DEF Finish
<1>6. CASE UNCHANGED vars
  BY <1>6, QuietRefines DEF vars
<1> QED BY <1>1, <1>3, <1>4, <1>5, <1>6, <1>7, SendRefines, FaultRefines
        DEF Next, Playbook, Talk, Faulty, Stopped

(* Subscriptions implement OneShot: a handler is called, and Receive        *)
(* returns, with the first message that came after the subscription, once.  *)
THEOREM ImplementsOneShot == Spec => SubscriptionIsACell
BY InitTypes, NextTypes, InitPlace, NextPlace, InitRefines, NextRefines, PTL
   DEF Spec, SubscriptionIsACell, Cell!Spec
=============================================================================
