------------------------------- MODULE PubSub -------------------------------
(***************************************************************************)
(* Messages between workers (pkg/message/message.go): Send publishes, and  *)
(* OnReceive and Receive subscribe for one message, the first in a         *)
(* goroutine and the second in the caller.  Redis keeps nothing: whoever   *)
(* is not subscribed when a message is published does not get it, and a    *)
(* subscription is known to one of the replicas behind the service only.   *)
(*                                                                         *)
(* What the playbook makes of these calls is a CONSTANT: each worker goes  *)
(* through a sequence of them.  A message is known by its place in the log *)
(* of all that was published; payloads are not kept.                       *)
(***************************************************************************)
EXTENDS Integers, Sequences

CONSTANTS
  Nodes, Global,
  Uid,       \* Uid[n]: NodeUID of n, a sequence of characters
  Program,   \* Program[n]: the calls of the playbook on worker n, in order
  Replicas,  \* Redis pods behind the service
  NoReplica, \* a subscription that was not made yet
  MaxFaults  \* bound: commands and connections that break

\* A call is about the channel made from `of' and `key'.  With `retry', Send is
\* called again until it returns nil; without, the playbook goes on after
\* ErrNoSubscribers and returns any other error.  Await waits for the handler
\* of the OnReceive at place `on'.
Calls == UNION {{n} \X (1..Len(Program[n])) : n \in Nodes}
CallAt(c) == Program[c[1]][c[2]]
Sends     == {c \in Calls : CallAt(c).op = "Send"}
Handlers  == {c \in Calls : CallAt(c).op = "OnReceive"}
Receivers == {c \in Calls : CallAt(c).op = "Receive"}
Awaits    == {c \in Calls : CallAt(c).op = "Await"}
Listeners == Handlers \cup Receivers
Others    == Calls \ (Sends \cup Listeners \cup Awaits)

ASSUME PubSubAssumption ==
  /\ Global \notin Nodes /\ NoReplica \notin Replicas
  /\ \A n \in Nodes : Len(Program[n]) \in Nat
  /\ \A c \in Listeners : CallAt(c).of \in {c[1], Global}
  /\ \A c \in Awaits : <<c[1], CallAt(c).on>> \in Handlers
  /\ MaxFaults \in Nat

\* "tw-worker-" or "tw-global-", the UID and the key, with nothing in between.
Channel(c) ==
  LET call == CallAt(c) IN
  IF call.of = Global THEN <<"global">> \o call.key
                      ELSE <<"worker">> \o Uid[call.of] \o call.key

VARIABLES
  pc,      \* pc[n]: the place of n's current call, or 0: the process is gone
  sub,     \* sub[l]: the state of l's subscription
  at,      \* at[l]: the replica that knows it
  inbox,   \* inbox[l]: messages that Redis pushed and ReceiveMessage has not read
  got,     \* got[l]: the message that ReceiveMessage returned, or None
  result,  \* result[c]: how the latest attempt at Send c ended
  log,     \* the Sends whose messages were published, in order
  faults

vars == <<pc, sub, at, inbox, got, result, log, faults>>

None == 0

\* Redis counts a subscription that the client took down until it knows of it.
Subscribed(l) == sub[l] \in {"listening", "handling", "left"}

TypeOK ==
  /\ pc \in [Nodes -> Nat]
  /\ sub \in [Listeners -> {"none", "subscribing", "listening", "handling", "left", "closed"}]
  /\ at \in [Listeners -> Replicas \cup {NoReplica}]
  /\ inbox \in [Listeners -> Seq(1..Len(log))]
  /\ got \in [Listeners -> 0..Len(log)]
  /\ result \in [Sends -> {"none", "nil", "noSubscribers", "error"}]
  /\ log \in Seq(Sends)
  /\ faults \in 0..MaxFaults
  /\ \A l \in Listeners : Subscribed(l) => at[l] \in Replicas

Init ==
  /\ pc = [n \in Nodes |-> 1]
  /\ sub = [l \in Listeners |-> "none"]
  /\ at = [l \in Listeners |-> NoReplica]
  /\ inbox = [l \in Listeners |-> <<>>]
  /\ got = [l \in Listeners |-> None]
  /\ result = [c \in Sends |-> "none"]
  /\ log = <<>>
  /\ faults = 0

Making(c) == pc[c[1]] = c[2]
GoesOn(n) == pc' = [pc EXCEPT ![n] = @ + 1]

\* A subscription that the client has no more, to Redis.
TakenDown(l) == IF Subscribed(l) THEN "left" ELSE "closed"

\* The process ends; its goroutines and connections go with it.
Exit(n) ==
  /\ pc' = [pc EXCEPT ![n] = 0]
  /\ sub' = [l \in Listeners |-> IF l[1] = n THEN TakenDown(l) ELSE sub[l]]

Fault == faults < MaxFaults /\ faults' = faults + 1

-----------------------------------------------------------------------------
(* Send and SendGlobal.                                                     *)

Hears(l, c, r) == Subscribed(l) /\ at[l] = r /\ Channel(l) = Channel(c)

Publish(c, r) ==
  /\ log' = Append(log, c)
  /\ inbox' = [l \in Listeners |-> IF Hears(l, c, r) THEN Append(inbox[l], Len(log) + 1)
                                                     ELSE inbox[l]]

\* Mutant: publish does not look at the number of receivers.
SendUnheard(c) ==
  /\ Making(c)
  /\ \E r \in Replicas : Publish(c, r)
  /\ result' = [result EXCEPT ![c] = "nil"] /\ GoesOn(c[1])
  /\ UNCHANGED <<sub, at, got, faults>>

\* publish, over a connection to any replica.
Send(c) ==
  /\ Making(c)
  /\ \E r \in Replicas :
       IF \E l \in Listeners : Hears(l, c, r)
       THEN /\ Publish(c, r)
            /\ result' = [result EXCEPT ![c] = "nil"]
            /\ GoesOn(c[1])
       ELSE /\ result' = [result EXCEPT ![c] = "noSubscribers"]
            /\ IF CallAt(c).retry THEN UNCHANGED pc ELSE GoesOn(c[1])
            /\ UNCHANGED <<inbox, log>>
  /\ UNCHANGED <<sub, at, got, faults>>

\* ErrPublish; the message may be out all the same.
SendBreaks(c) ==
  /\ Making(c) /\ Fault
  /\ (\E r \in Replicas : Publish(c, r)) \/ UNCHANGED <<inbox, log>>
  /\ result' = [result EXCEPT ![c] = "error"]
  /\ IF CallAt(c).retry THEN UNCHANGED <<pc, sub>> ELSE Exit(c[1])
  /\ UNCHANGED <<at, got>>

-----------------------------------------------------------------------------
(* OnReceive and Receive, and their global forms.                           *)

\* Mutant: nobody calls Subscribe.
SpawnListening(l) ==
  /\ sub' = [sub EXCEPT ![l] = "listening"]
  /\ UNCHANGED <<at, inbox, got, result, log, faults>>

Spawn(l) ==
  /\ sub' = [sub EXCEPT ![l] = "subscribing"]
  /\ UNCHANGED <<at, inbox, got, result, log, faults>>

OnReceive(l) == l \in Handlers /\ Making(l) /\ Spawn(l) /\ GoesOn(l[1])

\* Mutant: receive runs in a goroutine, as setOnReceive does.
ReceiveLater(l) == l \in Receivers /\ Making(l) /\ Spawn(l) /\ GoesOn(l[1])

Receive(l) == l \in Receivers /\ Making(l) /\ sub[l] = "none" /\ Spawn(l) /\ UNCHANGED pc

\* Redis carries out the SUBSCRIBE.
Subscribe(l) ==
  /\ sub[l] = "subscribing"
  /\ sub' = [sub EXCEPT ![l] = "listening"]
  /\ \E r \in Replicas : at' = [at EXCEPT ![l] = r]
  /\ UNCHANGED <<pc, inbox, got, result, log, faults>>

\* Mutant: the connection outlives the first message.
ReceiveMessageAgain(l) ==
  /\ sub[l] \in {"listening", "handling"} /\ inbox[l] # <<>>
  /\ sub' = [sub EXCEPT ![l] = "handling"]
  /\ got' = [got EXCEPT ![l] = Head(inbox[l])]
  /\ inbox' = [inbox EXCEPT ![l] = Tail(@)]
  /\ UNCHANGED <<pc, at, result, log, faults>>

\* ReceiveMessage returns, and a handler is called.
ReceiveMessage(l) ==
  /\ sub[l] = "listening" /\ inbox[l] # <<>>
  /\ sub' = [sub EXCEPT ![l] = "handling"]
  /\ got' = [got EXCEPT ![l] = Head(inbox[l])]
  /\ inbox' = [inbox EXCEPT ![l] = Tail(@)]
  /\ UNCHANGED <<pc, at, result, log, faults>>

\* ReceiveMessage fails: a goroutine logs it, Receive returns it.
ConnectionBreaks(l) ==
  /\ sub[l] \in {"subscribing", "listening"} /\ Fault
  /\ IF l \in Receivers THEN Exit(l[1])
                        ELSE sub' = [sub EXCEPT ![l] = TakenDown(l)] /\ UNCHANGED pc
  /\ UNCHANGED <<at, inbox, got, result, log>>

\* Unsubscribe and Close: Redis will see it later.
Unsubscribe(l) ==
  /\ sub[l] = "handling"
  /\ sub' = [sub EXCEPT ![l] = "left"]
  /\ IF l \in Receivers THEN GoesOn(l[1]) ELSE UNCHANGED pc
  /\ UNCHANGED <<at, inbox, got, result, log, faults>>

\* A goroutine logs it; Receive returns it, and not the message it has.
UnsubscribeBreaks(l) ==
  /\ sub[l] = "handling" /\ Fault
  /\ IF l \in Receivers THEN Exit(l[1])
                        ELSE sub' = [sub EXCEPT ![l] = TakenDown(l)] /\ UNCHANGED pc
  /\ UNCHANGED <<at, inbox, got, result, log>>

\* Redis has seen it.
Forget(l) ==
  /\ sub[l] = "left"
  /\ sub' = [sub EXCEPT ![l] = "closed"]
  /\ UNCHANGED <<pc, at, inbox, got, result, log, faults>>

-----------------------------------------------------------------------------
(* The rest of the playbook.                                                *)

Await(c) ==
  /\ Making(c) /\ got[<<c[1], CallAt(c).on>>] # None
  /\ GoesOn(c[1])
  /\ UNCHANGED <<sub, at, inbox, got, result, log, faults>>

\* A call that changes nothing of the messages returns, and the playbook goes
\* on or gives up.
Other(c) ==
  /\ Making(c)
  /\ \/ GoesOn(c[1]) /\ UNCHANGED sub
     \/ Exit(c[1])
  /\ UNCHANGED <<at, inbox, got, result, log, faults>>

Finish(n) ==
  /\ pc[n] = Len(Program[n]) + 1
  /\ Exit(n)
  /\ UNCHANGED <<at, inbox, got, result, log, faults>>

Subscription(l) ==
  \/ Subscribe(l) \/ ReceiveMessage(l) \/ Unsubscribe(l) \/ Forget(l)

Talk(n) ==
  \/ \E c \in Sends : c[1] = n /\ Send(c)
  \/ \E l \in Listeners : l[1] = n /\ (OnReceive(l) \/ Receive(l))
  \/ \E c \in Awaits : c[1] = n /\ Await(c)
  \/ Finish(n)

Playbook(n) == Talk(n) \/ \E c \in Others : c[1] = n /\ Other(c)

Faulty ==
  \/ \E c \in Sends : SendBreaks(c)
  \/ \E l \in Listeners : ConnectionBreaks(l) \/ UnsubscribeBreaks(l)

Stopped == (\A n \in Nodes : pc[n] = 0) /\ (\A l \in Listeners : sub[l] = "closed") /\ UNCHANGED vars

Next ==
  \/ \E n \in Nodes : Playbook(n)
  \/ \E l \in Listeners : Subscription(l)
  \/ Faulty
  \/ Stopped

Spec == Init /\ [][Next]_vars

\* Workers and their goroutines are scheduled, and Redis answers.
FairSpec ==
  /\ Spec
  /\ \A n \in Nodes : WF_vars(Playbook(n))
  /\ \A l \in Listeners : WF_vars(Subscription(l))
=============================================================================
