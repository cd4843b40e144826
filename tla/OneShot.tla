------------------------------ MODULE OneShot -------------------------------
(***************************************************************************)
(* What a subscription promises, without connections, queues or processes: *)
(* a cell that the first message of its channel fills, of those published  *)
(* on its replica after it was opened.  A cell that is read is not filled  *)
(* again; one that is dropped was for nothing.                             *)
(***************************************************************************)
EXTENDS Integers, Sequences

CONSTANTS Listeners, Messages, Replicas, Channels

VARIABLES
  log,    \* the messages published, in order
  cell,   \* cell[l]: the place in the log of the message that filled it, or 0
  home,   \* home[l]: the replica of an open cell
  phase   \* phase[l]: "new", "open", "read" or "dropped"

vars == <<log, cell, home, phase>>

Init ==
  /\ log = <<>>
  /\ cell = [l \in Listeners |-> 0]
  /\ \A l \in Listeners : home[l] \notin Replicas
  /\ phase = [l \in Listeners |-> "new"]

Open(l) ==
  /\ phase[l] = "new" /\ phase' = [phase EXCEPT ![l] = "open"]
  /\ \E r \in Replicas : home' = [home EXCEPT ![l] = r]
  /\ UNCHANGED <<log, cell>>

Filled(m, r) ==
  [l \in Listeners |->
     IF phase[l] = "open" /\ home[l] = r /\ Channels[l] = Channels[m] /\ cell[l] = 0
     THEN Len(log) + 1 ELSE cell[l]]

\* Some cells, or none, are dropped; what is in them is lost.
Drop(D, filled) ==
  /\ \A l \in D : phase[l] \in {"new", "open"}
  /\ phase' = [l \in Listeners |-> IF l \in D THEN "dropped" ELSE phase[l]]
  /\ cell' = [l \in Listeners |-> IF l \in D THEN 0 ELSE filled[l]]

Publish(m) ==
  /\ log' = Append(log, m)
  /\ \E D \in SUBSET Listeners, r \in Replicas : Drop(D, Filled(m, r))
  /\ UNCHANGED home

Read(l) ==
  /\ phase[l] = "open" /\ cell[l] # 0
  /\ phase' = [phase EXCEPT ![l] = "read"]
  /\ UNCHANGED <<log, cell, home>>

Next ==
  \/ \E l \in Listeners : Open(l) \/ Read(l)
  \/ \E m \in Messages : Publish(m)
  \/ (\E D \in SUBSET Listeners : Drop(D, cell)) /\ UNCHANGED <<log, home>>

Spec == Init /\ [][Next]_vars
=============================================================================
