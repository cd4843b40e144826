------------------------------ MODULE MCPubSub ------------------------------
(* Small playbooks for TLC.                                                 *)
EXTENDS PubSubProperties, TLC

CONSTANTS a, b, c, r1, r2

SendTo(n, key)   == [op |-> "Send", of |-> n, key |-> key, retry |-> TRUE]
TryTo(n, key)    == [op |-> "Send", of |-> n, key |-> key, retry |-> FALSE]
Handle(n, key)   == [op |-> "OnReceive", of |-> n, key |-> key]
Listen(n, key)   == [op |-> "Receive", of |-> n, key |-> key]
Storing          == [op |-> "Push"]
Awaiting(i)      == [op |-> "Await", on |-> i]

\* The default UIDs <node set>-w<i>, for the workers 1, 10 and 2.
Uids == a :> <<"n", "1">> @@ b :> <<"n", "1", "0">> @@ c :> <<"n", "2">>

\* Two senders, one that stores something meanwhile, and one that receives twice and once more with a handler.
Stream ==
  a :> <<SendTo(b, <<"q">>), Storing, TryTo(b, <<"q">>)>>
  @@ c :> <<SendTo(b, <<"q">>), TryTo(Global, <<"g">>)>>
  @@ b :> <<Listen(b, <<"q">>), Listen(b, <<"q">>), Handle(Global, <<"g">>)>>

\* Everybody sets a handler and reports to a, which then calls everybody.
Gather ==
  a :> <<Listen(a, <<"b">>), Listen(a, <<"c">>), SendTo(Global, <<"g">>)>>
  @@ b :> <<Handle(Global, <<"g">>), SendTo(a, <<"b">>), Awaiting(1)>>
  @@ c :> <<Handle(Global, <<"g">>), SendTo(a, <<"c">>), Awaiting(1)>>
=============================================================================
