----------------------------- MODULE MCTransfer -----------------------------
(* Workers that exchange data, for TLC.                                    *)
EXTENDS TransferProperties, TLC

CONSTANTS a, b, c, r1

Tell(n, key, push) ==
  [op |-> "Send", of |-> n, key |-> key, retry |-> TRUE, carries |-> push]
Handle(n, key) == [op |-> "OnReceive", of |-> n, key |-> key]
Listen(n, key) == [op |-> "Receive", of |-> n, key |-> key]
Awaiting(i)    == [op |-> "Await", on |-> i]
Storing        == [op |-> "Push"]
Fetching(i)    == [op |-> "Pull", on |-> i]

\* The default UIDs <node set>-w<i>, for the workers 1, 10 and 2.
Uids == a :> <<"n", "1">> @@ b :> <<"n", "1", "0">> @@ c :> <<"n", "2">>

\* a hands data to b, pushes more, and gets the answer; c pushes on its own.
Exchange ==
  a :> <<Handle(a, <<"b">>), Storing, Tell(b, <<"q">>, 2), Storing, Awaiting(1), Fetching(1)>>
  @@ b :> <<Listen(b, <<"q">>), Fetching(1), Storing, Tell(a, <<"b">>, 3)>>
  @@ c :> <<Storing>>

MCPushes == {x \in Others : CallAt(x).op = "Push"}
=============================================================================
