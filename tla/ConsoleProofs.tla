--------------------------- MODULE ConsoleProofs ----------------------------
(***************************************************************************)
(* What the person at the console may rely on, for any number of tests in  *)
(* the namespace and any number of logs that are followed.                 *)
(***************************************************************************)
EXTENDS ConsoleProperties, FiniteSetTheorems, TLAPS

-----------------------------------------------------------------------------
(* The start command.                                                      *)

(* A start goes on only after the call before has succeeded, a name in the *)
(* registry has one writer, and what was once pushed stays: whoever pulls  *)
(* later, under that name, gets the same build.                            *)
StartsInOrder ==
  \A s \in Starts :
    /\ stage[s] \in {"role", "pod", "logs", "done"} => registry[s] = s
    /\ stage[s] \in {"pod", "logs", "done"} => s \in roles
    /\ stage[s] = "done" => pods[s] \in {"running", "over"}
    /\ pods[s] \in {"running", "over"} => registry[s] = s /\ build[s] = s
    /\ registry[s] \in {s, Nobody} /\ build[s] \in {s, Nobody}

WorkerOfOne ==
  /\ worker.state # "none" <=> worker.of # Nobody
  /\ worker.of # Nobody => registry[worker.of] = worker.of
  /\ worker.state = "running" => worker.build = worker.of

StartInv == StartTypeOK /\ StartsInOrder /\ WorkerOfOne

LEMMA CommandStep ==
  ASSUME StartInv, NEW s \in Starts, Start(s)
  PROVE  StartInv'
<1> USE StartAssumption
    DEF StartInv, StartTypeOK, StartsInOrder, WorkerOfOne, Goes, Pushed, ImageName
<1>1. CASE Build(s)
  BY <1>1 DEF Build
<1>2. CASE CreateRole(s)
  BY <1>2 DEF CreateRole
<1>3. CASE CreatePod(s)
  BY <1>3 DEF CreatePod
<1>4. CASE ContainerLogs(s)
  BY <1>4 DEF ContainerLogs
<1> QED BY <1>1, <1>2, <1>3, <1>4 DEF Start

LEMMA NamespaceStep ==
  ASSUME StartInv, Namespace
  PROVE  StartInv'
<1> USE StartAssumption
    DEF StartInv, StartTypeOK, StartsInOrder, WorkerOfOne, ImageName, WorkerImage
<1>1. ASSUME NEW s \in Starts, StartDispatcher(s)
      PROVE  StartInv'
  BY <1>1 DEF StartDispatcher
<1>2. ASSUME NEW s \in Starts, RunTest(s)
      PROVE  StartInv'
  BY <1>2 DEF RunTest
<1>3. CASE StartWorker
  BY <1>3 DEF StartWorker
<1>4. CASE DeleteWorker
  BY <1>4 DEF DeleteWorker, NoWorker
<1> QED BY <1>1, <1>2, <1>3, <1>4 DEF Namespace

LEMMA StartInvariant == Spec => []StartInv
<1>1. Init => StartInv
  BY StartAssumption
     DEF Init, StartInit, StartInv, StartTypeOK, StartsInOrder, WorkerOfOne, NoWorker
<1>2. StartInv /\ [Next]_vars => StartInv'
  <2> SUFFICES ASSUME StartInv, [Next]_vars
               PROVE  StartInv'
    OBVIOUS
  <2>1. CASE StartStep
    BY <2>1, CommandStep, NamespaceStep DEF StartStep
  <2>2. CASE UNCHANGED startVars
    BY <2>2 DEF startVars, StartInv, StartTypeOK, StartsInOrder, WorkerOfOne
  <2> QED BY <2>1, <2>2 DEF Next, vars
<1> QED BY <1>1, <1>2, PTL DEF Spec

(* Every container of a test runs what its own start command has built,    *)
(* however many people build for one open registry.                        *)
THEOREM BuildsAreOwn == Spec => []OwnBuild
<1>1. StartInv => OwnBuild
  BY DEF StartInv, StartsInOrder, WorkerOfOne, OwnBuild
<1> QED BY <1>1, StartInvariant, PTL

(* Exit code 0 of start is given only where the dispatcher was started     *)
(* from the image, with its Role in place.                                 *)
THEOREM ZeroIsTrue == Spec => []ZeroMeansStarted
<1>1. StartInv => ZeroMeansStarted
  BY StartAssumption DEF StartInv, StartsInOrder, ZeroMeansStarted
<1> QED BY <1>1, StartInvariant, PTL

-----------------------------------------------------------------------------
(* The menu.                                                               *)

LEMMA ContainersAreFinite == IsFiniteSet(Containers)
<1> DEFINE entry == [s \in Dispatchers |-> <<"dispatcher", s>>]
           entries == {<<"dispatcher", s>> : s \in Dispatchers}
<1>1. IsFiniteSet(Dispatchers)
  BY StartAssumption, FS_Subset DEF Dispatchers
<1>2. entry \in Surjection(Dispatchers, entries)
  BY DEF Surjection
<1>3. IsFiniteSet(entries)
  BY <1>1, <1>2, FS_Surjection
<1>4. IsFiniteSet({<<"worker", 0>>}) /\ IsFiniteSet({})
  BY FS_Singleton, FS_EmptySet
<1> HIDE DEF entries
<1>5. Containers \in {entries \cup {}, entries \cup {<<"worker", 0>>}}
  BY DEF Containers, entries
<1> QED BY <1>3, <1>4, <1>5, FS_Union

(* The screen numbers its containers from 1.                               *)
LEMMA ScreenNumbers ==
  ASSUME NEW S, IsFiniteSet(S)
  PROVE  DOMAIN SetToSeq(S) = 1..Cardinality(S) /\ DOMAIN SetToSeq(S) \subseteq Nat
<1>1. Cardinality(S) \in Nat /\ ExistsBijection(1..Cardinality(S), S)
  BY FS_CardinalityType
<1>2. \E f \in [1..Cardinality(S) -> S] : IsInjective(f)
  BY <1>1 DEF ExistsBijection, Bijection, Injection
<1>3. SetToSeq(S) \in [1..Cardinality(S) -> S]
  BY <1>2 DEF SetToSeq
<1> QED BY <1>1, <1>3

(* What is typed is a number; the map is as long as the screen.            *)
LEMMA NumbersAreNat == Numbers \subseteq Nat
<1>1. Cardinality(Starts) \in Nat
  BY StartAssumption, FS_CardinalityType
<1> QED BY <1>1 DEF Numbers

Watching == menu \in {"notify", "copy", "follow"}

(* searchMap is made anew with every screen, and neither changes until the *)
(* choice is followed to its end.                                          *)
ScreenInv == screen = searchMap /\ FollowsFromScreen

(* One stream is open, and only while it is followed; and the channel the  *)
(* loop will read holds the interrupt exactly if there was one since it    *)
(* was registered.                                                         *)
OneStream == open = IF Watching THEN {follows} ELSE {}
InterruptIsKept == Following => notified /\ (stop <=> interrupted)

MenuInv ==
  /\ MenuTypeOK /\ ScreenInv /\ OneStream /\ InterruptIsKept
  /\ Watching => follows > 0

LEMMA NothingListed == DOMAIN <<>> \subseteq Nat
<1>1. <<>> \in Seq({}) /\ Len(<<>>) = 0
  OBVIOUS
<1> QED BY <1>1

LEMMA EndsInOrder ==
  ASSUME MenuInv, NEW how \in {"exit", "failed", "killed"}, Ends(how)
  PROVE  MenuInv'
BY LogsAssumption, NothingListed
   DEF MenuInv, MenuTypeOK, ScreenInv, FollowsFromScreen, OneStream, InterruptIsKept, Watching,
       Following, Ends

LEMMA LoopStep ==
  ASSUME MenuInv, Loop
  PROVE  MenuInv'
<1> USE LogsAssumption
    DEF MenuInv, MenuTypeOK, ScreenInv, FollowsFromScreen, OneStream, InterruptIsKept, Watching,
        Following
<1>1. CASE List
  <2>1. DOMAIN SetToSeq(Containers) \subseteq Nat
    BY ContainersAreFinite, ScreenNumbers
  <2> QED BY <1>1, <2>1, EndsInOrder DEF List
<1>2. CASE OpenLogs
  BY <1>2 DEF OpenLogs, Opened, NotOpened, Continue
<1>3. CASE ReopenLogs
  BY <1>3 DEF ReopenLogs, Opened, NotOpened, Continue
<1>4. CASE Notify
  BY <1>4 DEF Notify
<1>5. CASE SpawnCopier
  BY <1>5 DEF SpawnCopier
<1>6. CASE StopFollowing
  BY <1>6 DEF StopFollowing, Continue
<1> QED BY <1>1, <1>2, <1>3, <1>4, <1>5, <1>6 DEF Loop

LEMMA UserStep ==
  ASSUME MenuInv,
         Refresh \/ (\E n \in Numbers : Choose(n)) \/ Interrupt \/ \E i \in copiers : CopierEnds(i)
  PROVE  MenuInv'
<1>0. \A how \in {"exit", "failed", "killed"} : Ends(how) => MenuInv'
  BY EndsInOrder
<1> USE DEF MenuInv, MenuTypeOK, ScreenInv, FollowsFromScreen, OneStream, InterruptIsKept,
            Watching, Following
<1>1. CASE Refresh
  BY <1>1 DEF Refresh, Continue
<1>2. ASSUME NEW n \in Numbers, Choose(n)
      PROVE  MenuInv'
  <2>1. CASE Ends("exit")
    BY <1>0, <2>1
  <2>2. CASE /\ menu = "prompt"
             /\ IF n \in DOMAIN searchMap
                THEN menu' = "open" /\ typed' = n /\ conInfo' = searchMap[n]
                ELSE Continue
             /\ UNCHANGED <<screen, searchMap, follows, open, copiers, notified, stop, interrupted>>
    BY <2>2, NumbersAreNat DEF Continue
  <2> QED BY <1>2, <2>1, <2>2 DEF Choose
<1>3. CASE Interrupt
  <2>1. CASE Ends("killed")
    BY <1>0, <2>1
  <2>2. CASE /\ stop' = TRUE /\ interrupted' = TRUE /\ notified
             /\ UNCHANGED <<menu, screen, searchMap, typed, conInfo, follows, open, copiers,
                            notified>>
    BY <2>2
  <2> QED BY <1>3, <2>1, <2>2 DEF Interrupt
<1>4. CASE \E i \in copiers : CopierEnds(i)
  BY <1>4 DEF CopierEnds
<1> QED BY <1>1, <1>2, <1>3, <1>4

LEMMA MenuInvariant == Spec => []MenuInv
<1>1. Init => MenuInv
  <2>1. ASSUME Init
        PROVE  MenuTypeOK
    <3>1. DOMAIN searchMap \subseteq Nat
      BY <2>1, NothingListed, Zenon DEF Init, MenuInit
    <3>2. notified \in BOOLEAN /\ stop \in BOOLEAN /\ interrupted \in BOOLEAN
      BY <2>1, Zenon DEF Init, MenuInit
    <3>3. menu = "list" /\ typed = 0 /\ follows = 0 /\ open = {} /\ copiers = {}
      BY <2>1, Zenon DEF Init, MenuInit
    <3> QED BY <3>1, <3>2, <3>3, LogsAssumption DEF MenuTypeOK
  <2> QED
    BY <2>1 DEF Init, MenuInit, MenuInv, ScreenInv, FollowsFromScreen, OneStream,
                InterruptIsKept, Watching, Following
<1>2. MenuInv /\ [Next]_vars => MenuInv'
  <2> SUFFICES ASSUME MenuInv, [Next]_vars
               PROVE  MenuInv'
    OBVIOUS
  <2>1. CASE MenuStep
    BY <2>1, LoopStep, UserStep DEF MenuStep
  <2>2. CASE UNCHANGED menuVars
    BY <2>2 DEF menuVars, MenuInv, MenuTypeOK, ScreenInv, FollowsFromScreen, OneStream,
                InterruptIsKept, Watching, Following
  <2> QED BY <2>1, <2>2 DEF Next, vars
<1> QED BY <1>1, <1>2, PTL DEF Spec

(* The model of the console is well typed.                                 *)
THEOREM TypeCorrect == Spec => []TypeOK
<1>1. StartInv /\ MenuInv => TypeOK
  BY DEF StartInv, MenuInv, TypeOK
<1> QED BY <1>1, StartInvariant, MenuInvariant, PTL

(* What is opened is what the last screen shows under the number that was  *)
(* typed, however the pods have changed since.                             *)
THEOREM ScreenIsTrue == Spec => []FollowsFromScreen
<1>1. MenuInv => FollowsFromScreen
  BY DEF MenuInv, ScreenInv
<1> QED BY <1>1, MenuInvariant, PTL

(* No stream is left open behind the menu, whichever way the user came     *)
(* back to it: every copier but the last has had its log closed.           *)
THEOREM NoStreamLeftOpen == Spec => [](~Watching => open = {})
<1>1. MenuInv => (~Watching => open = {})
  BY DEF MenuInv, OneStream
<1> QED BY <1>1, MenuInvariant, PTL

(* A signal that comes between the registration and the wait is not lost:  *)
(* the wait for it will end.                                               *)
THEOREM InterruptsAreKept ==
  Spec => [](Following /\ interrupted => stop)
<1>1. MenuInv => (Following /\ interrupted => stop)
  BY DEF MenuInv, InterruptIsKept
<1> QED BY <1>1, MenuInvariant, PTL

(* A log is followed until an interrupt that came after it was opened.     *)
THEOREM OnlyInterruptsEndALog == Spec => FollowsUntilInterrupted
<1>1. MenuInv /\ [Next]_vars => [menu = "follow" /\ menu' = "list" => interrupted]_vars
  <2> SUFFICES ASSUME MenuInv, Next, menu = "follow", menu' = "list"
               PROVE  interrupted
    OBVIOUS
  <2>1. MenuStep
    BY DEF Next, menuVars
  <2>2. CASE StopFollowing
    BY <2>2 DEF StopFollowing, MenuInv, InterruptIsKept, Following
  <2> QED
    BY <2>1, <2>2 DEF MenuStep, Loop, List, OpenLogs, ReopenLogs, Notify, SpawnCopier, Refresh,
                      Choose, Interrupt, Ends, CopierEnds
<1> QED BY <1>1, MenuInvariant, PTL DEF Spec, FollowsUntilInterrupted
=============================================================================
