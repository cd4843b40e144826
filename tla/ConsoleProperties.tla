------------------------- MODULE ConsoleProperties --------------------------
(* What the person at the console may rely on.                             *)
EXTENDS LogsMenu

TypeOK == StartTypeOK /\ MenuTypeOK

(* Every container of a test runs what its own start command has built: no  *)
(* other build comes between the pull of the dispatcher's image and that of *)
(* the workers', though all builds go to one open registry.                 *)
OwnBuild ==
  /\ \A s \in Starts : build[s] \in {s, Nobody}
  /\ worker.state = "running" => worker.build = worker.of

(* An exit code of 0 means that the dispatcher did start from the image.    *)
ZeroMeansStarted ==
  \A s \in Starts : stage[s] = "done" => build[s] # Nobody /\ s \in roles

(* What is opened is what the screen shows under the number that was typed, *)
(* however the pods have changed since earlier screens.                     *)
FollowsFromScreen ==
  menu \in {"open", "reopen", "notify", "copy", "follow"} =>
    typed \in DOMAIN screen /\ conInfo = screen[typed]

(* The menu becomes quiet: a log that was left stops being copied to the   *)
(* screen, though the container may go on writing for ever.                 *)
QuietMenu ==
  \A i \in 1..MaxFollows : (menu = "prompt" /\ i \in copiers) ~> i \notin copiers

(* A log is followed until the user interrupts it: an interrupt at the menu *)
(* before does not end it.                                                  *)
FollowsUntilInterrupted ==
  [][menu = "follow" /\ menu' = "list" => interrupted]_vars

(* An interrupt leads back to the menu, also one that comes between the     *)
(* registration and the wait.                                               *)
InterruptReturns == Following /\ interrupted ~> ~Following
=============================================================================
