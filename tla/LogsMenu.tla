------------------------------ MODULE LogsMenu ------------------------------
(***************************************************************************)
(* The logs command (cmd/testwave/logs.go, pkg/logs): a menu of the        *)
(* containers in the namespace, and the log of the one that is chosen,     *)
(* until the user interrupts it.  The namespace is that of StartCommand;   *)
(* tests are started and end while the menu is on the screen.              *)
(*                                                                         *)
(* A log is copied to the screen by a goroutine.  The menu's loop waits on *)
(* a channel that is made, and registered for signals, for every log that  *)
(* is followed; no registration is ever taken back.                        *)
(***************************************************************************)
EXTENDS StartCommand, Sequences, SequencesExt

CONSTANT MaxFollows  \* bound: logs that are followed

ASSUME LogsAssumption == MaxFollows \in Nat

VARIABLES
  menu,       \* the next step of the loop, or how the command ended
  screen,     \* the containers on the screen, by their number
  searchMap,  \* what a number stands for
  typed,      \* the number that was typed last
  conInfo,    \* the container in hand
  follows,    \* number of logs that were opened
  open,       \* those whose stream is not closed
  copiers,    \* those with a goroutine that copies
  notified,   \* there is a channel registered for signals
  stop,       \* the latest channel holds a signal
  interrupted \* history: the user has interrupted since it was registered

menuVars == <<menu, screen, searchMap, typed, conInfo, follows, open, copiers,
              notified, stop, interrupted>>

Ended == menu \in {"exit", "failed", "killed"}
Following == menu \in {"copy", "follow"}

\* The containers that Kubernetes has a status of.
Dispatchers == {s \in Starts : pods[s] # "none"}
Containers ==
  {<<"dispatcher", s>> : s \in Dispatchers} \cup
  (IF worker.of = Nobody THEN {} ELSE {<<"worker", 0>>})

Exists(c) == c \in Containers

MenuTypeOK ==
  /\ menu \in {"list", "prompt", "open", "reopen", "notify", "copy", "follow",
               "exit", "failed", "killed"}
  /\ DOMAIN searchMap \subseteq Nat
  /\ typed \in Nat
  /\ follows \in 0..MaxFollows
  /\ open \subseteq 1..follows
  /\ copiers \subseteq 1..follows
  /\ notified \in BOOLEAN /\ stop \in BOOLEAN /\ interrupted \in BOOLEAN

MenuInit ==
  /\ menu = "list"
  /\ screen = <<>> /\ searchMap = <<>>
  /\ typed = 0 /\ conInfo = <<>>
  /\ follows = 0
  /\ open = {} /\ copiers = {}
  /\ notified = FALSE /\ stop = FALSE /\ interrupted = FALSE

\* The process ends, and its goroutines and connections go with it.
Ends(how) ==
  /\ menu' = how
  /\ screen' = <<>> /\ searchMap' = <<>>
  /\ typed' = 0 /\ conInfo' = <<>>
  /\ open' = {} /\ copiers' = {}
  /\ notified' = FALSE /\ stop' = FALSE /\ interrupted' = FALSE
  /\ UNCHANGED follows

\* The next turn of the loop: what the last one declared is gone.
Continue == menu' = "list" /\ typed' = 0 /\ conInfo' = <<>>

-----------------------------------------------------------------------------
(* The menu.                                                               *)

\* Mutant: searchMap is made once, before the loop.
ListIntoOldMap ==
  /\ menu = "list"
  /\ menu' = "prompt"
  /\ screen' = SetToSeq(Containers)
  /\ searchMap' = screen' \o SubSeq(searchMap, Len(screen') + 1, Len(searchMap))
  /\ UNCHANGED <<typed, conInfo, follows, open, copiers, notified, stop, interrupted>>

\* AllPods, and the screen.
List ==
  /\ menu = "list"
  /\ \/ /\ menu' = "prompt"
        /\ screen' = SetToSeq(Containers)
        /\ searchMap' = screen'
        /\ UNCHANGED <<typed, conInfo, follows, open, copiers, notified, stop, interrupted>>
     \/ Ends("failed")

\* Nothing, the end of the input, or no number: the menu is shown again.
Refresh ==
  /\ menu = "prompt"
  /\ Continue
  /\ UNCHANGED <<screen, searchMap, follows, open, copiers, notified, stop, interrupted>>

Choose(n) ==
  /\ menu = "prompt"
  /\ \/ n = 0 /\ Ends("exit")
     \/ /\ n # 0
        /\ IF n \in DOMAIN searchMap
           THEN menu' = "open" /\ typed' = n /\ conInfo' = searchMap[n]
           ELSE Continue
        /\ UNCHANGED <<screen, searchMap, follows, open, copiers, notified, stop, interrupted>>

\* Mutant: a log that is opened again takes the place of the last one.
OpenedInPlace ==
  /\ follows < MaxFollows
  /\ open' = open \cup {follows + 1}
  /\ menu' = "notify"
  /\ UNCHANGED <<typed, conInfo, follows>>

Opened ==
  /\ follows < MaxFollows
  /\ follows' = follows + 1
  /\ open' = open \cup {follows'}
  /\ menu' = "notify"
  /\ UNCHANGED <<typed, conInfo>>

NotOpened == Continue /\ UNCHANGED <<follows, open>>

\* LogsReader: a log to be followed; where something was not found, a second
\* call for the log as it is, and any other error leads back to the menu.
OpenLogs ==
  /\ menu = "open"
  /\ \/ Exists(conInfo) /\ Opened
     \/ menu' = "reopen" /\ UNCHANGED <<typed, conInfo, follows, open>>
     \/ NotOpened
  /\ UNCHANGED <<screen, searchMap, copiers, notified, stop, interrupted>>

ReopenLogs ==
  /\ menu = "reopen"
  /\ \/ Exists(conInfo) /\ Opened
     \/ NotOpened
  /\ UNCHANGED <<screen, searchMap, copiers, notified, stop, interrupted>>

\* Mutant: one channel for all logs.
NotifyOnce ==
  /\ menu = "notify"
  /\ menu' = "copy"
  /\ notified' = TRUE /\ interrupted' = FALSE
  /\ UNCHANGED <<screen, searchMap, typed, conInfo, follows, open, copiers, stop>>

\* A new channel, with room for one signal.
Notify ==
  /\ menu = "notify"
  /\ menu' = "copy"
  /\ notified' = TRUE /\ stop' = FALSE /\ interrupted' = FALSE
  /\ UNCHANGED <<screen, searchMap, typed, conInfo, follows, open, copiers>>

\* The go statement.
SpawnCopier ==
  /\ menu = "copy"
  /\ menu' = "follow"
  /\ copiers' = copiers \cup {follows}
  /\ UNCHANGED <<screen, searchMap, typed, conInfo, follows, open, notified, stop, interrupted>>

\* Mutant: the stream is left to the copier.
StopWithoutClose ==
  /\ menu = "follow" /\ stop
  /\ stop' = FALSE /\ Continue
  /\ UNCHANGED <<screen, searchMap, follows, open, copiers, notified, interrupted>>

\* The channel is read, and the stream closed.
StopFollowing ==
  /\ menu = "follow" /\ stop
  /\ stop' = FALSE
  /\ open' = open \ {follows}
  /\ Continue
  /\ UNCHANGED <<screen, searchMap, follows, copiers, notified, interrupted>>

Loop == List \/ OpenLogs \/ ReopenLogs \/ Notify \/ SpawnCopier \/ StopFollowing

-----------------------------------------------------------------------------
(* The user's interrupts and the copiers.                                  *)

\* Mutant: the channel has no room, and nobody reads it yet.
InterruptUnbuffered ==
  /\ ~Ended /\ notified
  /\ interrupted' = TRUE
  /\ stop' = (stop \/ menu = "follow")
  /\ UNCHANGED <<menu, screen, searchMap, typed, conInfo, follows, open, copiers, notified>>

\* Where no channel is registered the process is killed; else all channels
\* get the signal, of which the latest may be read.
Interrupt ==
  /\ ~Ended
  /\ \/ ~notified /\ Ends("killed")
     \/ /\ notified
        /\ stop' = TRUE /\ interrupted' = TRUE
        /\ UNCHANGED <<menu, screen, searchMap, typed, conInfo, follows, open, copiers, notified>>

\* io.Copy returns: at the end of the log, when the connection breaks, or
\* because the stream was closed.
CopierEnds(i) ==
  /\ i \in copiers
  /\ copiers' = copiers \ {i}
  /\ UNCHANGED <<menu, screen, searchMap, typed, conInfo, follows, open,
                 notified, stop, interrupted>>

-----------------------------------------------------------------------------
(* The two commands over one namespace.                                    *)

vars == <<startVars, menuVars>>

\* Numbers up to one more than a screen can have.
Numbers == 0..(Cardinality(Starts) + 2)

MenuStep ==
  \/ Loop
  \/ Refresh
  \/ \E n \in Numbers : Choose(n)
  \/ Interrupt
  \/ \E i \in copiers : CopierEnds(i)

StartStep == (\E s \in Starts : Start(s)) \/ Namespace

Init == StartInit /\ MenuInit

Next ==
  \/ StartStep /\ UNCHANGED menuVars
  \/ MenuStep /\ UNCHANGED startVars

Spec == Init /\ [][Next]_vars

\* The loop is scheduled, and a copier whose stream was closed; the user need
\* not do anything, and a log may go on for ever.
FairSpec ==
  /\ Spec
  /\ WF_vars(Loop /\ UNCHANGED startVars)
  /\ \A i \in 1..MaxFollows : WF_vars(i \notin open /\ CopierEnds(i) /\ UNCHANGED startVars)
=============================================================================
