------------------------- MODULE ImageBuilderProofs -------------------------
(***************************************************************************)
(* Type correctness of ImageBuilder, and what follows from it: no machine  *)
(* leaks but by lost answers, failed terminations and kills, and the runs  *)
(* implement ImageRelease.                                                 *)
(***************************************************************************)
EXTENDS ImageBuilder, TLAPS

USE CloudAssumption, ParameterAssumption

\* The stages after stage k are stages, or the end of the run.
LEMMA AfterIsStage ==
    ASSUME NEW b \in Builders, NEW k \in 0 .. 3
    PROVE  After(b, k) \in {"tag", "publish", "replicate", "down", "done"}
<1> DEFINE asked == {i \in (k + 1) .. Len(Stages) : run[b].flags[Stages[i]]}
<1>1. CASE asked = {}
  BY <1>1 DEF After
<1>2. CASE asked # {}
  <2>1. asked \subseteq 1 .. 4
    BY DEF Stages
  <2>2. \E i \in asked : \A j \in asked : i <= j
    BY <1>2, <2>1
  <2>3. Min(asked) \in asked
    BY <2>2 DEF Min
  <2>4. Min(asked) \in 1 .. 4
    BY <2>1, <2>3
  <2>5. After(b, k) = Stages[Min(asked)]
    BY <1>2 DEF After
  <2> QED
    BY <2>4, <2>5 DEF Stages
<1> QED
  BY <1>1, <1>2
-----------------------------------------------------------------------------
(* Type correctness                                                        *)

LEMMA IdleIsRun == Idle \in Runs
  BY DEF Idle, None, Runs, Places, Flags, Days, AtMachine

\* A run becomes another one.
LEMMA RunType ==
    ASSUME TypeOK, NEW b \in Builders, NEW r \in Runs,
           run' = [run EXCEPT ![b] = r]
    PROVE  run' \in [Builders -> Runs]
  BY DEF TypeOK

\* A run goes on to a place where it needs no machine, or has one.
LEMMA GotoType ==
    ASSUME TypeOK, NEW b \in Builders, NEW state \in Places, Goto(b, state),
           state \in AtMachine => run[b].machine \in Machines
    PROVE  run' \in [Builders -> Runs]
<1>1. run[b] \in Runs /\ run \in [Builders -> Runs]
  BY DEF TypeOK
<1>2. [run[b] EXCEPT !.pc = state] \in Runs
  BY <1>1 DEF Runs
<1>3. run' = [run EXCEPT ![b] = [run[b] EXCEPT !.pc = state]]
  BY DEF Goto
<1> QED
  BY <1>1, <1>2, <1>3

LEMMA ExitType ==
    ASSUME TypeOK, NEW b \in Builders, Exit(b)
    PROVE  run' \in [Builders -> Runs]
  BY IdleIsRun DEF TypeOK, Exit

LEMMA FaultType ==
    ASSUME TypeOK, Fault
    PROVE  faults' \in 0 .. MaxFaults
  BY DEF TypeOK, Fault

LEMMA AnswerType ==
    ASSUME TypeOK, NEW b \in Builders, NEW state \in Places, Answer(b, state),
           state \in AtMachine => run[b].machine \in Machines
    PROVE  /\ run' \in [Builders -> Runs]

           /\ faults' \in 0 .. MaxFaults
<1>1. CASE Goto(b, state) /\ UNCHANGED faults
  BY <1>1, GotoType DEF TypeOK
<1>2. CASE Fault /\ Exit(b)
  BY <1>2, ExitType, FaultType
<1> QED
  BY <1>1, <1>2 DEF Answer

LEMMA InitType == Init => TypeOK
  BY IdleIsRun DEF Init, TypeOK, Days, Image!States
-----------------------------------------------------------------------------
(* The run up to the build keeps the types.                                *)

LEMMA UpType ==
    ASSUME TypeOK, NEW b \in Builders,
           \/ GetInstance(b) \/ FindKey(b) \/ ImportKey(b)
           \/ CreateInstance(b) \/ CreateRefused(b) \/ Mark(b) \/ Unmark(b)
           \/ FindImage(b)
    PROVE  TypeOK'
<1>0. run[b] \in Runs
  BY DEF TypeOK
<1>1. CASE GetInstance(b)
  <2>1. CASE Goto(b, IF ~run[b].flags.up THEN "find"
                     ELSE IF Cloud = "aws" THEN "key" ELSE "create")
    <3>1. run' \in [Builders -> Runs]
      BY <2>1, GotoType DEF Places, AtMachine
    <3> QED
      BY <1>1, <3>1 DEF GetInstance, TypeOK, cloud, bounds
  <2>2. ASSUME NEW i \in Listed,
               run' = [run EXCEPT ![b].pc = "find", ![b].machine = i]
        PROVE  TypeOK'
    <3>1. i \in Machines
      BY DEF Listed, TypeOK
    <3>2. [run[b] EXCEPT !.pc = "find", !.machine = i] \in Runs
      BY <1>0, <3>1 DEF Runs, Places
    <3>3. run' = [run EXCEPT ![b] =
                     [run[b] EXCEPT !.pc = "find", !.machine = i]]
      BY <2>2
    <3>4. run' \in [Builders -> Runs]
      BY <3>2, <3>3, RunType
    <3> QED
      BY <1>1, <3>4 DEF GetInstance, TypeOK, cloud, bounds
  <2> QED
    BY <1>1, <2>1, <2>2 DEF GetInstance
<1>2. CASE FindKey(b)
  BY <1>2, GotoType DEF FindKey, TypeOK, Places, AtMachine, cloud, bounds
<1>3. CASE ImportKey(b)
  <2>1. CASE key
    BY <1>3, <2>1, ExitType DEF ImportKey, TypeOK
  <2>2. CASE ~key
    BY <1>3, <2>2, AnswerType DEF ImportKey, TypeOK, Places, AtMachine
  <2> QED
    BY <2>1, <2>2
<1>4. CASE CreateInstance(b)
  <2>1. PICK i \in Free :
           /\ machine' = [machine EXCEPT ![i] = "pending"]
           /\ marked' = marked \ {i}
           /\ \/ /\ run' = [run EXCEPT ![b].machine = i,
                               ![b].pc = IF Cloud = "aws" THEN "mark" ELSE "find"]
                 /\ lost' = lost \ {i}
                 /\ UNCHANGED faults
              \/ /\ Fault
                 /\ Exit(b)
                 /\ lost' = lost \cup {i}
    BY <1>4 DEF CreateInstance
  <2>2. i \in Machines
    BY DEF Free
  <2>3. run' \in [Builders -> Runs]
        /\ faults' \in 0 .. MaxFaults
    <3>1. CASE Fault /\ Exit(b)
      BY <3>1, ExitType, FaultType
    <3>2. CASE /\ run' = [run EXCEPT ![b].machine = i,
                             ![b].pc = IF Cloud = "aws" THEN "mark" ELSE "find"]
               /\ UNCHANGED faults
      <4> DEFINE r == [run[b] EXCEPT !.machine = i,
                             !.pc = IF Cloud = "aws" THEN "mark" ELSE "find"]
      <4>1. r \in Runs
        BY <1>0, <2>2 DEF Runs, Places
      <4>2. run' = [run EXCEPT ![b] = r]
        BY <3>2
      <4> QED
        BY <3>2, <4>1, <4>2, RunType DEF TypeOK
    <3> QED
      BY <2>1, <3>1, <3>2
  <2> QED
    BY <1>4, <2>1, <2>2, <2>3 DEF CreateInstance, TypeOK
<1>5. CASE CreateRefused(b)
  BY <1>5, ExitType DEF CreateRefused, TypeOK, cloud, bounds
<1>6. CASE Mark(b)
  <2>1. run[b].machine \in Machines
    BY <1>0, <1>6 DEF Mark, Runs, AtMachine
  <2>2. run' \in [Builders -> Runs]
    BY <1>6, <2>1, GotoType DEF Mark, Places
  <2>3. faults' \in 0 .. MaxFaults
    BY <1>6, FaultType DEF Mark, TypeOK
  <2> QED
    BY <1>6, <2>1, <2>2, <2>3 DEF Mark, TypeOK
<1>7. CASE Unmark(b)
  <2>1. run[b].machine \in Machines
    BY <1>0, <1>7 DEF Unmark, Runs, AtMachine
  <2>2. faults' \in 0 .. MaxFaults
    BY <1>7, FaultType DEF Unmark, TypeOK
  <2>3. run' \in [Builders -> Runs]
    BY <1>7, ExitType DEF Unmark
  <2> QED
    BY <1>7, <2>1, <2>2, <2>3 DEF Unmark, Terminate, TypeOK
<1>8. CASE FindImage(b)
  <2>1. CASE Exit(b)
    BY <1>8, <2>1, ExitType DEF FindImage, TypeOK, cloud, bounds
  <2>2. CASE run[b].machine # NoMachine /\ Goto(b, "ip")
    <3>1. run' \in [Builders -> Runs]
      BY <1>0, <2>2, GotoType DEF Runs, Places
    <3> QED
      BY <1>8, <2>2, <3>1 DEF FindImage, TypeOK, cloud, bounds
  <2>3. CASE /\ run' = [run EXCEPT ![b].pc = After(b, 0),
                           ![b].found = Exists(Home, run[b].name)]
    <3> DEFINE r == [run[b] EXCEPT !.pc = After(b, 0),
                                   !.found = Exists(Home, run[b].name)]
    <3>0. After(b, 0) \in Places \ AtMachine
      BY AfterIsStage DEF Places, AtMachine
    <3>1. r \in Runs
      BY <1>0, <3>0 DEF Runs, Exists
    <3>2. run' = [run EXCEPT ![b] = r]
      BY <2>3
    <3>3. run' \in [Builders -> Runs]
      BY <3>1, <3>2, RunType
    <3> QED
      BY <1>8, <2>3, <3>3 DEF FindImage, TypeOK, cloud, bounds
  <2> QED
    BY <1>8, <2>1, <2>2, <2>3 DEF FindImage
<1> QED
  BY <1>1, <1>2, <1>3, <1>4, <1>5, <1>6, <1>7, <1>8
-----------------------------------------------------------------------------
(* So does the build,                                                      *)

\* A machine with the name of that of b is a machine.
LEMMA NamedIsMachine ==
    ASSUME TypeOK, NEW b \in Builders
    PROVE  Named(b) \subseteq Machines
<1>1. run[b].machine \in Machines \cup {NoMachine}
  BY DEF TypeOK, Runs
<1> QED
  BY <1>1 DEF Named, Listed, TypeOK

LEMMA RegisterType ==
    ASSUME TypeOK, Register
    PROVE  image' \in [Regions -> [Days -> Image!States]]
  BY DEF TypeOK, Register, Image!States

LEMMA BuildType ==
    ASSUME TypeOK, NEW b \in Builders,
           \/ WaitPublicIP(b) \/ MachineForgotten(b) \/ DialSSH(b)
           \/ KeepsWaiting(b) \/ Setup(b) \/ BuildImage(b) \/ BuildRefused(b)
           \/ CheckImage(b)
    PROVE  TypeOK'
<1>0. run[b] \in Runs
  BY DEF TypeOK
<1>1. CASE WaitPublicIP(b)
  <2>1. PICK i \in Named(b) : run' = [run EXCEPT ![b].pc = "ssh", ![b].machine = i]
    BY <1>1 DEF WaitPublicIP
  <2>2. i \in Machines
    BY NamedIsMachine
  <2>3. [run[b] EXCEPT !.pc = "ssh", !.machine = i] \in Runs
    BY <1>0, <2>2 DEF Runs, Places
  <2>4. run' = [run EXCEPT ![b] = [run[b] EXCEPT !.pc = "ssh", !.machine = i]]
    BY <2>1
  <2>5. run' \in [Builders -> Runs]
    BY <2>3, <2>4, RunType
  <2> QED
    BY <1>1, <2>5 DEF WaitPublicIP, TypeOK, cloud, bounds
<1>2. CASE MachineForgotten(b)
  BY <1>2, ExitType DEF MachineForgotten, TypeOK, cloud, bounds
<1>3. CASE DialSSH(b)
  <2>1. run[b].machine \in Machines
    BY <1>0, <1>3 DEF DialSSH, Runs, AtMachine
  <2>2. run' \in [Builders -> Runs]
    BY <1>3, <2>1, GotoType DEF DialSSH, Places
  <2> QED
    BY <1>3, <2>2 DEF DialSSH, TypeOK, cloud, bounds
<1>4. CASE KeepsWaiting(b)
  BY <1>4 DEF KeepsWaiting, TypeOK, vars, cloud, bounds
<1>5. CASE Setup(b)
  <2>1. run[b].machine \in Machines
    BY <1>0, <1>5 DEF Setup, Runs, AtMachine
  <2>2. run' \in [Builders -> Runs]
    BY <1>5, <2>1, GotoType, ExitType DEF Setup, Places, TypeOK
  <2> QED
    BY <1>5, <2>2 DEF Setup, TypeOK, cloud, bounds
<1>6. CASE BuildImage(b)
  <2>1. /\ run' \in [Builders -> Runs]
        /\ faults' \in 0 .. MaxFaults
    BY <1>6, AnswerType DEF BuildImage, Places, AtMachine
  <2>2. image' \in [Regions -> [Days -> Image!States]]
    BY <1>6, RegisterType DEF BuildImage
  <2> QED
    BY <1>6, <2>1, <2>2 DEF BuildImage, TypeOK
<1>7. CASE BuildRefused(b)
  BY <1>7, ExitType DEF BuildRefused, TypeOK, cloud, bounds
<1>8. CASE CheckImage(b)
  <2>1. CASE Exit(b)
    BY <1>8, <2>1, ExitType DEF CheckImage, TypeOK, cloud, bounds
  <2>2. CASE /\ run' = [run EXCEPT ![b].pc = After(b, 0), ![b].found = TRUE]
    <3> DEFINE r == [run[b] EXCEPT !.pc = After(b, 0), !.found = TRUE]
    <3>1. After(b, 0) \in Places \ AtMachine
      BY AfterIsStage DEF Places, AtMachine
    <3>2. r \in Runs
      BY <1>0, <3>1 DEF Runs
    <3>3. run' = [run EXCEPT ![b] = r]
      BY <2>2
    <3>4. run' \in [Builders -> Runs]
      BY <3>2, <3>3, RunType
    <3> QED
      BY <1>8, <2>2, <3>4 DEF CheckImage, TypeOK, cloud, bounds
  <2> QED
    BY <1>8, <2>1, <2>2 DEF CheckImage
<1> QED
  BY <1>1, <1>2, <1>3, <1>4, <1>5, <1>6, <1>7, <1>8
-----------------------------------------------------------------------------
(* the stages after it,                                                    *)

LEMMA AfterType ==
    ASSUME NEW b \in Builders, NEW k \in 0 .. 3
    PROVE  After(b, k) \in Places /\ After(b, k) \notin AtMachine
  BY AfterIsStage DEF Places, AtMachine

LEMMA StagesType ==
    ASSUME TypeOK, NEW b \in Builders,
           \/ ImageNotFound(b) \/ AddTags(b) \/ EnsurePublic(b)
           \/ ReplicateImage(b)
           \/ \E r \in Regions : FindCopy(b, r) \/ OpenCopy(b, r)
           \/ CopyImage(b) \/ Copied(b) \/ Opened(b) \/ Shutdown(b) \/ Finish(b)
    PROVE  TypeOK'
<1>0. run[b] \in Runs
  BY DEF TypeOK
<1>a. run[b].name \in Days /\ run[b].region \in Regions
      /\ run[b].todo \in SUBSET Regions
  BY <1>0 DEF Runs
<1>1. CASE ImageNotFound(b)
  BY <1>1, ExitType DEF ImageNotFound, TypeOK, cloud, bounds
<1>2. CASE AddTags(b)
  <2>1. CASE Cloud = "gce"
    BY <1>2, <2>1, ExitType DEF AddTags, TypeOK
  <2>2. CASE Cloud # "gce"
    <3>1. /\ run' \in [Builders -> Runs]
          /\ faults' \in 0 .. MaxFaults
      BY <1>2, <2>2, AnswerType, AfterType DEF AddTags
    <3> QED
      BY <1>a, <1>2, <2>2, <3>1 DEF AddTags, TypeOK
  <2> QED
    BY <2>1, <2>2
<1>3. CASE EnsurePublic(b)
  <2>1. /\ run' \in [Builders -> Runs]
        /\ faults' \in 0 .. MaxFaults
    BY <1>3, AnswerType, AfterType DEF EnsurePublic
  <2>2. public' \subseteq Regions \X Days
    BY <1>a, <1>3 DEF EnsurePublic, MakePublic, TypeOK
  <2> QED
    BY <1>3, <2>1, <2>2 DEF EnsurePublic, TypeOK
<1>4. CASE ReplicateImage(b)
  <2>1. CASE Goto(b, After(b, 3))
    BY <1>4, <2>1, GotoType, AfterType
       DEF ReplicateImage, TypeOK, cloud, bounds
  <2>2. CASE run' = [run EXCEPT ![b].pc = "copy", ![b].todo = Regions \ {Home}]
    <3> DEFINE r == [run[b] EXCEPT !.pc = "copy", !.todo = Regions \ {Home}]
    <3>1. r \in Runs
      BY <1>0 DEF Runs, Places, AtMachine
    <3>2. run' = [run EXCEPT ![b] = r]
      BY <2>2
    <3>3. run' \in [Builders -> Runs]
      BY <3>1, <3>2, RunType
    <3> QED
      BY <1>4, <3>3 DEF ReplicateImage, TypeOK, cloud, bounds
  <2> QED
    BY <1>4, <2>1, <2>2 DEF ReplicateImage
<1>5. ASSUME NEW g \in Regions, FindCopy(b, g)
      PROVE  TypeOK'
  <2> DEFINE r == [run[b] EXCEPT
                     !.todo = @ \ {g},
                     !.pc = IF Exists(g, run[b].name) THEN "copy" ELSE "copying",
                     !.region = g]
  <2>1. r \in Runs
    BY <1>0 DEF Runs, Places, AtMachine
  <2>2. run' = [run EXCEPT ![b] = r]
    BY <1>5 DEF FindCopy
  <2>3. run' \in [Builders -> Runs]
    BY <2>1, <2>2, RunType
  <2> QED
    BY <1>5, <2>3 DEF FindCopy, TypeOK, cloud, bounds
<1>6. ASSUME NEW g \in Regions, OpenCopy(b, g)
      PROVE  TypeOK'
  <2>1. public' \subseteq Regions \X Days
    BY <1>a, <1>6 DEF OpenCopy, MakePublic, TypeOK
  <2>2. /\ run' \in [Builders -> Runs]
        /\ faults' \in 0 .. MaxFaults
    <3>1. CASE Fault /\ Exit(b)
      BY <3>1, ExitType, FaultType
    <3>2. CASE run' = [run EXCEPT ![b].todo = @ \ {g}] /\ UNCHANGED faults
      <4> DEFINE r == [run[b] EXCEPT !.todo = @ \ {g}]
      <4>1. r \in Runs
        BY <1>0 DEF Runs
      <4>2. run' = [run EXCEPT ![b] = r]
        BY <3>2
      <4> QED
        BY <3>2, <4>1, <4>2, RunType DEF TypeOK
    <3> QED
      BY <1>6, <3>1, <3>2 DEF OpenCopy
  <2> QED
    BY <1>6, <2>1, <2>2 DEF OpenCopy, TypeOK
<1>7. CASE CopyImage(b)
  <2>1. image' \in [Regions -> [Days -> Image!States]]
    BY <1>a, <1>7 DEF CopyImage, TypeOK, Image!States
  <2>2. /\ run' \in [Builders -> Runs]
        /\ faults' \in 0 .. MaxFaults
    <3>1. CASE Answer(b, "copy")
      BY <3>1, AnswerType DEF Places, AtMachine
    <3>2. CASE UNCHANGED faults /\ Exit(b)
      BY <3>2, ExitType DEF TypeOK
    <3> QED
      BY <1>7, <3>1, <3>2 DEF CopyImage
  <2> QED
    BY <1>7, <2>1, <2>2 DEF CopyImage, TypeOK
<1>8. CASE Copied(b)
  <2>1. CASE Goto(b, After(b, 3))
    BY <1>8, <2>1, GotoType, AfterType DEF Copied, TypeOK, cloud, bounds
  <2>2. CASE run' = [run EXCEPT ![b].pc = "open", ![b].todo = Regions]
    <3> DEFINE r == [run[b] EXCEPT !.pc = "open", !.todo = Regions]
    <3>1. r \in Runs
      BY <1>0 DEF Runs, Places, AtMachine
    <3>2. run' = [run EXCEPT ![b] = r]
      BY <2>2
    <3>3. run' \in [Builders -> Runs]
      BY <3>1, <3>2, RunType
    <3> QED
      BY <1>8, <3>3 DEF Copied, TypeOK, cloud, bounds
  <2> QED
    BY <1>8, <2>1, <2>2 DEF Copied
<1>9. CASE Opened(b)
  BY <1>9, GotoType, AfterType DEF Opened, TypeOK, cloud, bounds
<1>10. CASE Shutdown(b)
  <2>1. machine' \in [Machines -> {"none", "pending", "running", "gone"}]
        /\ orphans' \subseteq Machines
    BY <1>10, NamedIsMachine DEF Shutdown, Terminate, TypeOK
  <2>2. /\ run' \in [Builders -> Runs]
        /\ faults' \in 0 .. MaxFaults
    <3>1. CASE Goto(b, "done") /\ UNCHANGED faults
      BY <3>1, GotoType DEF Places, AtMachine, TypeOK
    <3>2. CASE Exit(b) /\ UNCHANGED faults
      BY <3>2, ExitType DEF TypeOK
    <3>3. CASE Answer(b, "done")
      BY <3>3, AnswerType DEF Places, AtMachine
    <3> QED
      BY <1>10, <3>1, <3>2, <3>3 DEF Shutdown
  <2> QED
    BY <1>10, <2>1, <2>2 DEF Shutdown, TypeOK
<1>11. CASE Finish(b)
  BY <1>11, ExitType DEF Finish, TypeOK, cloud, bounds
<1> QED
  BY <1>1, <1>2, <1>3, <1>4, <1>5, <1>6, <1>7, <1>8, <1>9, <1>10, <1>11
-----------------------------------------------------------------------------
(* and whatever goes wrong, the operators and the cloud.                   *)

LEMMA LeaveBuildType ==
    ASSUME TypeOK, NEW b \in Builders, LeaveBuild(b)
    PROVE  orphans' \subseteq Machines
<1>1. run[b].pc = "build" => run[b].machine \in Machines
  BY DEF TypeOK, Runs, AtMachine
<1> QED
  BY <1>1 DEF LeaveBuild, TypeOK

LEMMA EndType ==
    ASSUME TypeOK, NEW b \in Builders, CallFails(b) \/ Kill(b)
    PROVE  TypeOK'
<1>1. CASE CallFails(b)
  BY <1>1, LeaveBuildType, ExitType, FaultType DEF CallFails, TypeOK
<1>2. CASE Kill(b)
  <2>1. run[b] \in Runs
    BY DEF TypeOK
  <2>2. lost' \subseteq Machines
    BY <1>2, <2>1 DEF Kill, Runs, AtMachine, TypeOK
  <2>3. kills' \in 0 .. MaxKills
    BY <1>2 DEF Kill, TypeOK
  <2> QED
    BY <1>2, <2>2, <2>3, LeaveBuildType, ExitType DEF Kill, TypeOK
<1> QED
  BY <1>1, <1>2

LEMMA StartType ==
    ASSUME TypeOK, NEW b \in Builders, NEW f \in Invocations, Start(b, f)
    PROVE  TypeOK'
<1> DEFINE r == [Idle EXCEPT !.pc = "get", !.flags = f, !.name = today]
<1>1. r \in Runs
  BY IdleIsRun DEF Runs, Places, AtMachine, TypeOK, Idle
<1>2. run' = [run EXCEPT ![b] = r]
  BY DEF Start
<1>3. run' \in [Builders -> Runs]
  BY <1>1, <1>2, RunType
<1> QED
  BY <1>3 DEF Start, TypeOK, cloud, bounds

LEMMA AccountType ==
    ASSUME TypeOK, Account
    PROVE  TypeOK'
<1>1. ASSUME NEW i \in Machines, Boot(i)
      PROVE  TypeOK'
  BY <1>1 DEF Boot, TypeOK, bounds
<1>2. ASSUME NEW i \in Machines, Forget(i)
      PROVE  TypeOK'
  BY <1>2 DEF Forget, TypeOK, bounds
<1>3. ASSUME NEW i \in Machines, OrphanEnds(i)
      PROVE  TypeOK'
  <2>1. image' \in [Regions -> [Days -> Image!States]]
    BY <1>3, RegisterType DEF OrphanEnds, TypeOK
  <2> QED
    BY <1>3, <2>1 DEF OrphanEnds, TypeOK, bounds
<1>4. ASSUME NEW r \in Regions, NEW n \in Days, ImageReady(r, n)
      PROVE  TypeOK'
  BY <1>4 DEF ImageReady, TypeOK, bounds, Image!States
<1>5. ASSUME NEW r \in Regions, NEW n \in Days, ImageFails(r, n)
      PROVE  TypeOK'
  BY <1>5, FaultType DEF ImageFails, TypeOK, Image!States
<1>6. CASE Midnight
  BY <1>6 DEF Midnight, TypeOK, bounds, Days
<1> QED
  BY <1>1, <1>2, <1>3, <1>4, <1>5, <1>6 DEF Account

\* The variables hold what they are meant to hold, and where a run has a
\* machine in its hands, there is one.
THEOREM TypeCorrect == Spec => []TypeOK
<1>1. TypeOK /\ [Next]_vars => TypeOK'
  <2> SUFFICES ASSUME TypeOK, [Next]_vars
               PROVE  TypeOK'
    OBVIOUS
  <2>1. ASSUME NEW b \in Builders, Main(b)
        PROVE  TypeOK'
    BY <2>1, UpType, BuildType, StagesType DEF Main
  <2>2. ASSUME NEW b \in Builders, CallFails(b) \/ Operator(b)
        PROVE  TypeOK'
    BY <2>2, EndType, StartType DEF Operator
  <2>3. CASE Account
    BY <2>3, AccountType
  <2>4. CASE UNCHANGED vars
    BY <2>4 DEF TypeOK, vars, cloud, bounds
  <2> QED
    BY <2>1, <2>2, <2>3, <2>4 DEF Next
<1> QED
  BY InitType, <1>1, PTL DEF Spec
-----------------------------------------------------------------------------
(* No machine leaks                                                        *)

Others(b) == \A c \in Builders \ {b} : run'[c] = run[c]

\* A step of a run leaves the other runs alone.
LEMMA OthersStay ==
    ASSUME TypeOK, NEW b \in Builders, Main(b) \/ CallFails(b) \/ Operator(b)
    PROVE  Others(b)
<1> USE DEF Others, TypeOK
<1> DEFINE Moves == \/ \E s : Goto(b, s) \/ Answer(b, s)
                    \/ Exit(b)
                    \/ UNCHANGED run
<1>1. Moves => Others(b)
  BY DEF Goto, Answer, Exit
<1>2. CASE GetInstance(b) \/ FindKey(b) \/ ImportKey(b)
  BY <1>1, <1>2 DEF GetInstance, FindKey, ImportKey
<1>3. CASE CreateInstance(b) \/ CreateRefused(b) \/ Mark(b) \/ Unmark(b)
  BY <1>1, <1>3 DEF CreateInstance, CreateRefused, Mark, Unmark
<1>4. CASE FindImage(b) \/ WaitPublicIP(b) \/ MachineForgotten(b) \/ DialSSH(b)
  BY <1>1, <1>4 DEF FindImage, WaitPublicIP, MachineForgotten, DialSSH
<1>5. CASE KeepsWaiting(b) \/ Setup(b) \/ BuildImage(b) \/ BuildRefused(b)
  BY <1>1, <1>5 DEF KeepsWaiting, Setup, BuildImage, BuildRefused, vars
<1>6. CASE CheckImage(b) \/ ImageNotFound(b) \/ AddTags(b) \/ EnsurePublic(b)
  BY <1>1, <1>6 DEF CheckImage, ImageNotFound, AddTags, EnsurePublic
<1>7. CASE ReplicateImage(b) \/ \E r \in Regions : FindCopy(b, r) \/ OpenCopy(b, r)
  BY <1>1, <1>7 DEF ReplicateImage, FindCopy, OpenCopy
<1>8. CASE CopyImage(b) \/ Copied(b) \/ Opened(b)
  BY <1>1, <1>8 DEF CopyImage, Copied, Opened
<1>9. CASE Shutdown(b) \/ Finish(b) \/ CallFails(b) \/ Operator(b)
  BY <1>1, <1>9 DEF Shutdown, Finish, CallFails, Operator, Start, Kill
<1> QED
  BY <1>2, <1>3, <1>4, <1>5, <1>6, <1>7, <1>8, <1>9 DEF Main

\* A step of a run that is not about to mark its machine cannot leak one, if it
\* starts none, and takes neither a mark nor a record of a loss away.
LEMMA NoLeakElsewhere ==
    ASSUME TypeOK, NoLeak, NEW b \in Builders, Others(b),
           run[b].pc \notin {"mark", "unmark"},
           UNCHANGED <<marked, lost>>,
           \A i \in Machines : Live(i)' => Live(i)
    PROVE  NoLeak'
  BY DEF NoLeak, Others

\* Main marks, or terminates, what it creates.
LEMMA NoLeakByMain ==
    ASSUME TypeOK, NoLeak, NEW b \in Builders, Main(b)
    PROVE  NoLeak'
<1>0. Others(b)
  BY OthersStay
<1>1. CASE CreateInstance(b)
  <2>1. PICK i \in Free :
           /\ machine' = [machine EXCEPT ![i] = "pending"]
           /\ marked' = marked \ {i}
           /\ \/ /\ run' = [run EXCEPT ![b].machine = i,
                               ![b].pc = IF Cloud = "aws" THEN "mark" ELSE "find"]
                 /\ lost' = lost \ {i}
              \/ lost' = lost \cup {i}
    BY <1>1 DEF CreateInstance
  <2>2. ASSUME Cloud = "aws", NEW j \in Machines, j # i, Live(j)', j \notin marked'
        PROVE  \/ j \in lost'
               \/ \E c \in Builders : run'[c].machine = j
                                      /\ run'[c].pc \in {"mark", "unmark"}
    <3>1. Live(j) /\ j \notin marked
      BY <2>1, <2>2 DEF Live, TypeOK
    <3>2. run[b].pc = "create"
      BY <1>1 DEF CreateInstance
    <3> QED
      BY <1>0, <2>1, <2>2, <3>1, <3>2 DEF NoLeak, Others
  <2>3. ASSUME Cloud = "aws"
        PROVE  \/ i \in lost'
               \/ run'[b].machine = i /\ run'[b].pc \in {"mark", "unmark"}
    BY <2>1, <2>3 DEF TypeOK, Runs
  <2> QED
    BY <2>2, <2>3 DEF NoLeak
<1>2. CASE Mark(b)
  <2>1. \/ marked' = marked \cup {run[b].machine}
        \/ Goto(b, "unmark") /\ marked \subseteq marked'
    BY <1>2 DEF Mark
  <2>2. UNCHANGED <<machine, lost>>
    BY <1>2 DEF Mark
  <2>3. CASE marked' = marked \cup {run[b].machine}
    BY <1>0, <2>2, <2>3 DEF NoLeak, Others, Live
  <2>4. CASE Goto(b, "unmark") /\ marked \subseteq marked'
    <3>1. run'[b].machine = run[b].machine /\ run'[b].pc = "unmark"
      BY <2>4 DEF Goto, TypeOK, Runs
    <3> QED
      BY <1>0, <2>2, <2>4, <3>1 DEF NoLeak, Others, Live
  <2> QED
    BY <2>1, <2>3, <2>4
<1>3. CASE Unmark(b)
  <2>1. UNCHANGED marked /\ lost \subseteq lost'
    BY <1>3 DEF Unmark
  <2>2. \A i \in Machines : Live(i)' => Live(i) /\ (i # run[b].machine \/ i \in lost')
    BY <1>3 DEF Unmark, Terminate, Live, TypeOK
  <2> QED
    BY <1>0, <2>1, <2>2 DEF NoLeak, Others
<1>4. CASE Shutdown(b)
  <2>1. \A i \in Machines : Live(i)' => Live(i)
    BY <1>4, NamedIsMachine DEF Shutdown, Terminate, Live, TypeOK
  <2> QED
    BY <1>0, <1>4, <2>1, NoLeakElsewhere DEF Shutdown
<1>5. CASE \/ GetInstance(b) \/ FindKey(b) \/ ImportKey(b) \/ CreateRefused(b)
           \/ FindImage(b) \/ WaitPublicIP(b) \/ MachineForgotten(b)
           \/ DialSSH(b) \/ KeepsWaiting(b) \/ Setup(b)
  <2>1. UNCHANGED <<machine, marked, lost>>
    BY <1>5 DEF GetInstance, FindKey, ImportKey, CreateRefused, FindImage,
                WaitPublicIP, MachineForgotten, DialSSH, KeepsWaiting, Setup,
                cloud, vars
  <2>2. run[b].pc \notin {"mark", "unmark"}
    BY <1>5 DEF GetInstance, FindKey, ImportKey, CreateRefused, FindImage,
                WaitPublicIP, MachineForgotten, DialSSH, KeepsWaiting, Setup
  <2> QED
    BY <1>0, <2>1, <2>2, NoLeakElsewhere DEF Live
<1>6. CASE \/ BuildImage(b) \/ BuildRefused(b) \/ CheckImage(b)
           \/ ImageNotFound(b) \/ AddTags(b) \/ EnsurePublic(b)
           \/ ReplicateImage(b)
           \/ (\E r \in Regions : FindCopy(b, r) \/ OpenCopy(b, r))
           \/ CopyImage(b) \/ Copied(b) \/ Opened(b) \/ Finish(b)
  <2>1. UNCHANGED <<machine, marked, lost>>
    BY <1>6 DEF BuildImage, BuildRefused, CheckImage, ImageNotFound, AddTags,
                EnsurePublic, ReplicateImage, FindCopy, OpenCopy, CopyImage,
                Copied, Opened, Finish, cloud
  <2>2. run[b].pc \notin {"mark", "unmark"}
    BY <1>6 DEF BuildImage, BuildRefused, CheckImage, ImageNotFound, AddTags,
                EnsurePublic, ReplicateImage, FindCopy, OpenCopy, CopyImage,
                Copied, Opened, Finish
  <2> QED
    BY <1>0, <2>1, <2>2, NoLeakElsewhere DEF Live
<1> QED
  BY <1>1, <1>2, <1>3, <1>4, <1>5, <1>6 DEF Main

\* aws.go:481 "will terminate to prevent leaking": later runs find every
\* machine whose creator is done with it and did not lose control of it.
THEOREM MachinesDoNotLeak == Spec => []NoLeak
<1>1. Init => NoLeak
  BY DEF Init, NoLeak, Live
<1>2. TypeOK /\ NoLeak /\ [Next]_vars => NoLeak'
  <2> SUFFICES ASSUME TypeOK, NoLeak, [Next]_vars
               PROVE  NoLeak'
    OBVIOUS
  <2>1. ASSUME NEW b \in Builders, Main(b)
        PROVE  NoLeak'
    BY <2>1, NoLeakByMain
  <2>2. ASSUME NEW b \in Builders, CallFails(b)
        PROVE  NoLeak'
    <3>1. run[b].pc \notin {"mark", "unmark"}
      BY <2>2 DEF CallFails, Calls
    <3> QED
      BY <2>2, <3>1, OthersStay, NoLeakElsewhere DEF CallFails, Live
  <2>3. ASSUME NEW b \in Builders, NEW f \in Invocations, Start(b, f)
        PROVE  NoLeak'
    BY <2>3, OthersStay, NoLeakElsewhere DEF Operator, Start, cloud, Live
  <2>4. ASSUME NEW b \in Builders, Kill(b)
        PROVE  NoLeak'
    <3>1. UNCHANGED <<machine, marked>> /\ lost \subseteq lost'
          /\ (run[b].pc \in {"mark", "unmark"} => run[b].machine \in lost')
      BY <2>4 DEF Kill
    <3> QED
      BY <2>4, <3>1, OthersStay DEF Operator, NoLeak, Others, Live
  <2>5. CASE Account
    <3>1. UNCHANGED <<run, lost>>
          /\ \A i \in Machines : Live(i)' => Live(i) /\ (i \in marked => i \in marked')
      BY <2>5 DEF Account, Boot, Forget, OrphanEnds, ImageReady, ImageFails,
                  Midnight, Live, TypeOK
    <3> QED
      BY <3>1 DEF NoLeak
  <2>6. CASE UNCHANGED vars
    BY <2>6 DEF NoLeak, Live, vars, cloud
  <2> QED
    BY <2>1, <2>2, <2>3, <2>4, <2>5, <2>6 DEF Next, Operator
<1> QED
  BY <1>1, <1>2, TypeCorrect, PTL DEF Spec
-----------------------------------------------------------------------------
(* The runs implement ImageRelease.                                        *)

LEMMA InitRelease == Init => Image!Init
<1> SUFFICES ASSUME Init
             PROVE  Image!Init
  OBVIOUS
<1>1. image \in [Regions -> [Days -> Image!States]]
  BY DEF Init, Image!States
<1> QED
  BY <1>1 DEF Init, Image!Init

LEMMA RegisterRelease ==
    ASSUME TypeOK, Register, UNCHANGED public
    PROVE  Image!Next
<1>1. Image!Register(today)
  BY DEF Register, Exists, Image!Register, Image!Become
<1> QED
  BY <1>1 DEF TypeOK, Image!Next

LEMMA PublishRelease ==
    ASSUME TypeOK, NEW b \in Builders, NEW r \in Regions, MakePublic(b, r),
           UNCHANGED image
    PROVE  Image!Next
<1>1. run[b].name \in Days
  BY DEF TypeOK, Runs
<1>2. Image!Publish(r, run[b].name)
  BY DEF MakePublic, Image!Publish
<1> QED
  BY <1>1, <1>2 DEF Image!Next

LEMMA MainRelease ==
    ASSUME TypeOK, NEW b \in Builders, Main(b)
    PROVE  [Image!Next]_<<image, public>>
<1>1. CASE BuildImage(b)
  BY <1>1, RegisterRelease DEF BuildImage
<1>2. CASE EnsurePublic(b)
  BY <1>2, PublishRelease DEF EnsurePublic
<1>3. ASSUME NEW r \in Regions, OpenCopy(b, r)
      PROVE  Image!Next
  BY <1>3, PublishRelease DEF OpenCopy
<1>4. CASE CopyImage(b)
  <2>1. CASE UNCHANGED image
    BY <1>4, <2>1 DEF CopyImage
  <2>2. CASE image' # image
    <3>1. run[b].name \in Days /\ run[b].region \in Regions
      BY DEF TypeOK, Runs
    <3>2. Image!Copy(run[b].region, run[b].name)
      BY <1>4, <2>2 DEF CopyImage, Exists, Image!Copy, Image!Become
    <3> QED
      BY <3>1, <3>2 DEF Image!Next
  <2> QED
    BY <2>1, <2>2
<1>5. CASE \/ GetInstance(b) \/ FindKey(b) \/ ImportKey(b) \/ CreateInstance(b)
           \/ CreateRefused(b) \/ Mark(b) \/ Unmark(b) \/ FindImage(b)
           \/ WaitPublicIP(b) \/ MachineForgotten(b) \/ DialSSH(b)
           \/ KeepsWaiting(b) \/ Setup(b)
  BY <1>5 DEF GetInstance, FindKey, ImportKey, CreateInstance, CreateRefused,
              Mark, Unmark, FindImage, WaitPublicIP, MachineForgotten, DialSSH,
              KeepsWaiting, Setup, cloud, vars
<1>6. CASE \/ BuildRefused(b) \/ CheckImage(b) \/ ImageNotFound(b) \/ AddTags(b)
           \/ ReplicateImage(b) \/ (\E r \in Regions : FindCopy(b, r))
           \/ Copied(b) \/ Opened(b) \/ Shutdown(b) \/ Finish(b)
  BY <1>6 DEF BuildRefused, CheckImage, ImageNotFound, AddTags, ReplicateImage,
              FindCopy, Copied, Opened, Shutdown, Finish, cloud
<1> QED
  BY <1>1, <1>2, <1>3, <1>4, <1>5, <1>6 DEF Main

LEMMA AccountRelease ==
    ASSUME TypeOK, Account
    PROVE  [Image!Next]_<<image, public>>
<1>1. ASSUME NEW i \in Machines, OrphanEnds(i)
      PROVE  [Image!Next]_<<image, public>>
  BY <1>1, RegisterRelease DEF OrphanEnds
<1>2. ASSUME NEW r \in Regions, NEW n \in Days, ImageReady(r, n) \/ ImageFails(r, n)
      PROVE  Image!Next
  <2>1. Image!Complete(r, n)
    BY <1>2 DEF ImageReady, ImageFails, Image!Complete, Image!Become
  <2> QED
    BY <2>1 DEF Image!Next
<1>3. ASSUME NEW i \in Machines, Boot(i) \/ Forget(i)
      PROVE  UNCHANGED <<image, public>>
  BY <1>3 DEF Boot, Forget
<1>4. CASE Midnight
  BY <1>4 DEF Midnight
<1> QED
  BY <1>1, <1>2, <1>3, <1>4 DEF Account

LEMMA StepRelease ==
    ASSUME TypeOK, [Next]_vars
    PROVE  [Image!Next]_<<image, public>>
<1>1. ASSUME NEW b \in Builders, Main(b)
      PROVE  [Image!Next]_<<image, public>>
  BY <1>1, MainRelease
<1>2. ASSUME NEW b \in Builders, CallFails(b) \/ Operator(b)
      PROVE  UNCHANGED <<image, public>>
  BY <1>2 DEF CallFails, Operator, Start, Kill, cloud
<1>3. CASE Account
  BY <1>3, AccountRelease
<1>4. CASE UNCHANGED vars
  BY <1>4 DEF vars, cloud
<1> QED
  BY <1>1, <1>2, <1>3, <1>4 DEF Next

\* Whatever runs do at the same time, and whatever calls fail, images are
\* registered once per name, copied from an available image, made public when
\* they are available, and nothing of it is taken back.
THEOREM ImplementsRelease == Spec => ReleaseSpec
  BY StepRelease, InitRelease, TypeCorrect, PTL
     DEF Spec, ReleaseSpec, Image!Spec, Image!vars

\* What a step of ImageRelease does to the images.
LEMMA BecomeIs ==
    ASSUME TypeOK, NEW r \in Regions, NEW n \in Days, NEW old, NEW new,
           Image!Become(r, n, old, new)
    PROVE  /\ image[r][n] = old /\ image'[r][n] = new /\ public' = public
           /\ \A g \in Regions, d \in Days :
                <<g, d>> # <<r, n>> => image'[g][d] = image[g][d]
BY DEF Image!Become, TypeOK

LEMMA ReleaseKeeps ==
    ASSUME TypeOK, [Image!Next]_<<image, public>>
    PROVE  /\ Image!PublicIsAvailable => Image!PublicIsAvailable'
           /\ Image!CopiesAreOfImages => Image!CopiesAreOfImages'
           /\ public \subseteq public'
           /\ \A r \in Regions, n \in Days :
                /\ image[r][n] \in {"available", "failed"} => image'[r][n] = image[r][n]
                /\ image[r][n] = "pending" => image'[r][n] # "none"
<1> USE DEF Image!PublicIsAvailable, Image!CopiesAreOfImages
<1>1. ASSUME NEW n \in Days, Image!Register(n)
      PROVE  /\ image[Home][n] = "none" /\ image'[Home][n] = "pending" /\ public' = public
             /\ \A g \in Regions, d \in Days :
                  <<g, d>> # <<Home, n>> => image'[g][d] = image[g][d]
  BY <1>1, BecomeIs DEF Image!Register
<1>2. ASSUME NEW n \in Days, NEW r \in Regions, Image!Copy(r, n)
      PROVE  /\ image[Home][n] = "available" /\ image[r][n] = "none" /\ image'[r][n] = "pending"
             /\ public' = public
             /\ \A g \in Regions, d \in Days :
                  <<g, d>> # <<r, n>> => image'[g][d] = image[g][d]
  BY <1>2, BecomeIs DEF Image!Copy
<1>3. ASSUME NEW n \in Days, NEW r \in Regions, Image!Complete(r, n)
      PROVE  /\ image[r][n] = "pending" /\ image'[r][n] \in {"available", "failed"}
             /\ public' = public
             /\ \A g \in Regions, d \in Days :
                  <<g, d>> # <<r, n>> => image'[g][d] = image[g][d]
  <2>1. PICK new \in {"available", "failed"} : Image!Become(r, n, "pending", new)
    BY <1>3 DEF Image!Complete
  <2> QED
    BY <2>1, BecomeIs
<1>4. ASSUME NEW n \in Days, NEW r \in Regions, Image!Publish(r, n)
      PROVE  /\ image[r][n] = "available" /\ image' = image
             /\ public' = public \cup {<<r, n>>}
  BY <1>4 DEF Image!Publish
<1>5. CASE UNCHANGED <<image, public>>
  BY <1>5
<1> QED
  BY <1>1, <1>2, <1>3, <1>4, <1>5 DEF Image!Next

\* What follows for whoever uses the images: those that are public are
\* complete, and those in other regions were copied from a complete one, at
\* every moment.
THEOREM WhatIsOut ==
    Spec => [](Image!PublicIsAvailable /\ Image!CopiesAreOfImages)
<1>1. Init => Image!PublicIsAvailable /\ Image!CopiesAreOfImages
  BY InitRelease DEF Image!Init, Image!PublicIsAvailable, Image!CopiesAreOfImages
<1>2. TypeOK /\ [Next]_vars /\ Image!PublicIsAvailable /\ Image!CopiesAreOfImages =>
        (Image!PublicIsAvailable /\ Image!CopiesAreOfImages)'
  BY StepRelease, ReleaseKeeps
<1> QED
  BY <1>1, <1>2, TypeCorrect, PTL DEF Spec

\* And no run, failure or kill takes any of it back.
THEOREM NoneTakenBack == Spec => Image!NothingTakenBack
<1>1. TypeOK /\ [Next]_vars =>
        [/\ public \subseteq public'
         /\ \A r \in Regions, n \in Days :
               /\ image[r][n] \in {"available", "failed"} => image'[r][n] = image[r][n]
               /\ image[r][n] = "pending" => image'[r][n] # "none"]_<<image, public>>
  BY StepRelease, ReleaseKeeps
<1> QED
  BY <1>1, TypeCorrect, PTL DEF Spec, Image!NothingTakenBack, Image!vars
-----------------------------------------------------------------------------
(* A run that comes to its end has delivered.                              *)

\* Of the stages after stage k, those before the next one are not asked for.
LEMMA AfterSkips ==
    ASSUME NEW b \in Builders, NEW k \in 0 .. 3, run[b] \in Runs
    PROVE  LET next == After(b, k)
               r    == run[b]
           IN  /\ k < 1 /\ next \in {"publish", "replicate", "down", "done"}
                      => ~r.flags.tag
               /\ k < 2 /\ next \in {"replicate", "down", "done"}
                      => ~r.flags.publish
               /\ k < 3 /\ next \in {"down", "done"} => ~r.flags.replicate
               /\ next = "done" => ~r.flags.down
<1> DEFINE asked == {i \in (k + 1) .. Len(Stages) : run[b].flags[Stages[i]]}
<1>0. /\ Stages[1] = "tag" /\ Stages[2] = "publish" /\ Stages[3] = "replicate"
      /\ Stages[4] = "down" /\ Len(Stages) = 4
  BY DEF Stages
<1>1. CASE asked = {}
  <2>1. \A i \in 1 .. 4 : k < i => ~run[b].flags[Stages[i]]
    BY <1>0, <1>1
  <2> QED
    BY <1>0, <2>1
<1>2. CASE asked # {}
  <2>1. asked \subseteq 1 .. 4
    BY <1>0
  <2>2. \E i \in asked : \A j \in asked : i <= j
    BY <1>2, <2>1
  <2>3. Min(asked) \in asked /\ \A j \in asked : Min(asked) <= j
    BY <2>2 DEF Min
  <2>4. After(b, k) = Stages[Min(asked)]
    BY <1>2 DEF After
  <2>5. \A i \in 1 .. 4 : k < i /\ i < Min(asked) => ~run[b].flags[Stages[i]]
    BY <1>0, <2>1, <2>3
  <2>6. Min(asked) \in 1 .. 4
    BY <2>1, <2>3
  <2> QED
    BY <1>0, <2>4, <2>5, <2>6
<1> QED
  BY <1>1, <1>2

\* No image disappears, and neither does a tag or what was made public.
Grows ==
    /\ \A r \in Regions, n \in Days : image[r][n] # "none" => image'[r][n] # "none"
    /\ public \subseteq public'
    /\ tagged \subseteq tagged'

LEMMA NextGrows ==
    ASSUME TypeOK, [Next]_vars
    PROVE  Grows
<1>1. [Image!Next]_<<image, public>>
  BY StepRelease
<1>2. /\ \A r \in Regions, n \in Days : image[r][n] # "none" => image'[r][n] # "none"
      /\ public \subseteq public'
  <2>1. ASSUME NEW r \in Regions, NEW n \in Days, NEW old,
               NEW new \in {"pending", "available", "failed"},
               Image!Become(r, n, old, new)
        PROVE  /\ \A q \in Regions, m \in Days :
                      image[q][m] # "none" => image'[q][m] # "none"
               /\ public \subseteq public'
    BY <2>1 DEF Image!Become, TypeOK
  <2>2. CASE \E n \in Days : Image!Register(n) \/ \E r \in Regions : Image!Copy(r, n)
    BY <2>1, <2>2 DEF Image!Register, Image!Copy
  <2>3. CASE \E n \in Days, r \in Regions : Image!Complete(r, n)
    BY <2>1, <2>3 DEF Image!Complete
  <2>4. CASE \E n \in Days, r \in Regions : Image!Publish(r, n)
    BY <2>4 DEF Image!Publish
  <2>5. CASE UNCHANGED <<image, public>>
    BY <2>5
  <2> QED
    BY <1>1, <2>2, <2>3, <2>4, <2>5 DEF Image!Next
<1>3. tagged \subseteq tagged'
  <2>1. ASSUME NEW b \in Builders, Main(b)
        PROVE  tagged \subseteq tagged'
    <3>1. CASE AddTags(b)
      BY <3>1 DEF AddTags
    <3>2. CASE \/ GetInstance(b) \/ FindKey(b) \/ ImportKey(b)
               \/ CreateInstance(b) \/ CreateRefused(b) \/ Mark(b) \/ Unmark(b)
               \/ FindImage(b) \/ WaitPublicIP(b) \/ MachineForgotten(b)
               \/ DialSSH(b) \/ KeepsWaiting(b) \/ Setup(b)
      BY <3>2 DEF GetInstance, FindKey, ImportKey, CreateInstance,
                  CreateRefused, Mark, Unmark, FindImage, WaitPublicIP,
                  MachineForgotten, DialSSH, KeepsWaiting, Setup, cloud, vars
    <3>3. CASE \/ BuildImage(b) \/ BuildRefused(b) \/ CheckImage(b)
               \/ ImageNotFound(b) \/ EnsurePublic(b) \/ ReplicateImage(b)
               \/ (\E r \in Regions : FindCopy(b, r) \/ OpenCopy(b, r))
               \/ CopyImage(b) \/ Copied(b) \/ Opened(b) \/ Shutdown(b) \/ Finish(b)
      BY <3>3 DEF BuildImage, BuildRefused, CheckImage, ImageNotFound,
                  EnsurePublic, ReplicateImage, FindCopy, OpenCopy, CopyImage,
                  Copied, Opened, Shutdown, Finish, cloud
    <3> QED
      BY <2>1, <3>1, <3>2, <3>3 DEF Main
  <2>2. ASSUME NEW b \in Builders, CallFails(b) \/ Operator(b)
        PROVE  UNCHANGED tagged
    BY <2>2 DEF CallFails, Operator, Start, Kill, cloud
  <2>3. CASE Account
    BY <2>3 DEF Account, Boot, Forget, OrphanEnds, ImageReady, ImageFails, Midnight
  <2> QED
    BY <2>1, <2>2, <2>3 DEF Next, vars, cloud
<1> QED
  BY <1>1, <1>2, <1>3 DEF Grows

\* A machine that is terminated does not live again while a run holds it.
LEMMA NoneRevived ==
    ASSUME TypeOK, [Next]_vars, NEW c \in Builders, run[c].machine \in Machines,
           ~Live(run[c].machine)
    PROVE  machine'[run[c].machine] \notin {"pending", "running"}
<1>1. ASSUME NEW b \in Builders, CreateInstance(b)
      PROVE  machine'[run[c].machine] \notin {"pending", "running"}
  <2>1. PICK i \in Free : machine' = [machine EXCEPT ![i] = "pending"]
    BY <1>1 DEF CreateInstance
  <2>2. i # run[c].machine
    BY DEF Free
  <2> QED
    BY <2>1, <2>2 DEF Live, TypeOK
<1>2. ASSUME NEW b \in Builders, Unmark(b) \/ Shutdown(b)
      PROVE  machine'[run[c].machine] \notin {"pending", "running"}
  BY <1>2 DEF Unmark, Shutdown, Terminate, Live, TypeOK
<1>3. ASSUME NEW b \in Builders,
             \/ GetInstance(b) \/ FindKey(b) \/ ImportKey(b) \/ CreateRefused(b)
             \/ Mark(b) \/ FindImage(b) \/ WaitPublicIP(b) \/ MachineForgotten(b)
             \/ DialSSH(b) \/ KeepsWaiting(b) \/ Setup(b) \/ BuildImage(b)
             \/ BuildRefused(b) \/ CheckImage(b)
      PROVE  UNCHANGED machine
  BY <1>3 DEF GetInstance, FindKey, ImportKey, CreateRefused, Mark, FindImage,
              WaitPublicIP, MachineForgotten, DialSSH, KeepsWaiting, Setup,
              BuildImage, BuildRefused, CheckImage, cloud, vars
<1>4. ASSUME NEW b \in Builders,
             \/ ImageNotFound(b) \/ AddTags(b) \/ EnsurePublic(b)
             \/ ReplicateImage(b)
             \/ (\E r \in Regions : FindCopy(b, r) \/ OpenCopy(b, r))
             \/ CopyImage(b) \/ Copied(b) \/ Opened(b) \/ Finish(b)
             \/ CallFails(b) \/ Operator(b)
      PROVE  UNCHANGED machine
  BY <1>4 DEF ImageNotFound, AddTags, EnsurePublic, ReplicateImage, FindCopy,
              OpenCopy, CopyImage, Copied, Opened, Finish, CallFails, Operator,
              Start, Kill, cloud
<1>5. CASE Account
  BY <1>5 DEF Account, Boot, Forget, OrphanEnds, ImageReady, ImageFails,
              Midnight, Live, TypeOK
<1> QED
  BY <1>1, <1>2, <1>3, <1>4, <1>5 DEF Next, Main, Live, vars, cloud

\* A run keeps what it has done while it does nothing.
LEMMA KeptByOthers ==
    ASSUME TypeOK, [Next]_vars, NEW c \in Builders, Kept(c), run'[c] = run[c]
    PROVE  Kept(c)'
<1>1. Grows
  BY NextGrows
<1>2. run[c].name \in Days /\ run[c].machine \in Machines \cup {NoMachine}
  BY DEF TypeOK, Runs
<1>3. run[c].machine # NoMachine /\ ~Live(run[c].machine) => ~Live(run[c].machine)'
  BY <1>2, NoneRevived DEF Live
<1> QED
  BY <1>1, <1>2, <1>3 DEF Kept, Grows, Exists, Live

\* A run that ends has nothing to keep, and one that has not got to its stages
\* only that its image exists.
LEMMA KeptEarly ==
    ASSUME TypeOK, [Next]_vars, NEW b \in Builders, Kept(b),
           run'[b].pc \notin {"publish", "replicate", "copy", "copying", "open",
                              "down", "done"},
           run'[b].found => run[b].found /\ run'[b].name = run[b].name
    PROVE  Kept(b)'
<1>1. Grows /\ run[b].name \in Days
  BY NextGrows DEF TypeOK, Runs
<1> QED
  BY <1>1 DEF Kept, Grows, Exists

LEMMA KeptAtExit ==
    ASSUME TypeOK, [Next]_vars, NEW b \in Builders, Kept(b),
           Exit(b)
    PROVE  Kept(b)'
<1>1. run'[b] = Idle
  BY DEF Exit, TypeOK
<1> QED
  BY <1>1, KeptEarly DEF Idle

\* Once the stages up to stage k are done, those up to the next one are.
LEMMA KeptAfter ==
    ASSUME TypeOK, NEW b \in Builders, NEW k \in 0 .. 3,
           run'[b].pc = After(b, k), run'[b].flags = run[b].flags,
           run'[b].found => image'[Home][run'[b].name] # "none",
           k >= 1 /\ run[b].flags.tag => run'[b].name \in tagged',
           k >= 2 /\ run[b].flags.publish => <<Home, run'[b].name>> \in public',
           k >= 3 /\ run[b].flags.replicate =>
               \A g \in Regions :
                   /\ image'[g][run'[b].name] # "none"
                   /\ run[b].flags.publish => <<g, run'[b].name>> \in public'
    PROVE  Kept(b)'
<1>1. run[b] \in Runs
  BY DEF TypeOK
<1>2. After(b, k) \in {"tag", "publish", "replicate", "down", "done"}
  BY AfterIsStage
<1> QED
  BY <1>1, <1>2, AfterSkips DEF Kept, Exists

LEMMA KeptAfterBuild ==
    ASSUME TypeOK, NEW b \in Builders,
           run'[b].pc = After(b, 0), run'[b].flags = run[b].flags,
           run'[b].found => image'[Home][run'[b].name] # "none"
    PROVE  Kept(b)'
<1> DEFINE k == 0
<1>1. k \in 0 .. 3 /\ ~(k >= 1) /\ ~(k >= 2) /\ ~(k >= 3)
  OBVIOUS
<1>2. run'[b].pc = After(b, k)
  OBVIOUS
<1> HIDE DEF k
<1> QED
  BY <1>1, <1>2, KeptAfter

LEMMA KeptAfterTag ==
    ASSUME TypeOK, NEW b \in Builders,
           run'[b].pc = After(b, 1), run'[b].flags = run[b].flags,
           run'[b].found => image'[Home][run'[b].name] # "none",
           run[b].flags.tag => run'[b].name \in tagged'
    PROVE  Kept(b)'
<1> DEFINE k == 1
<1>1. k \in 0 .. 3 /\ ~(k >= 2) /\ ~(k >= 3)
  OBVIOUS
<1>2. run'[b].pc = After(b, k)
  OBVIOUS
<1> HIDE DEF k
<1> QED
  BY <1>1, <1>2, KeptAfter

\* Only the place of a run changes.
LEMMA GotoFields ==
    ASSUME TypeOK, NEW b \in Builders, NEW state, Goto(b, state)
    PROVE  /\ run'[b].pc = state /\ run'[b].flags = run[b].flags
           /\ run'[b].name = run[b].name /\ run'[b].machine = run[b].machine
           /\ run'[b].found = run[b].found /\ run'[b].todo = run[b].todo
           /\ run'[b].region = run[b].region
<1>1. run[b] \in Runs /\ run' = [run EXCEPT ![b] = [run[b] EXCEPT !.pc = state]]
  BY DEF TypeOK, Goto
<1>2. run'[b] = [run[b] EXCEPT !.pc = state]
  BY <1>1 DEF TypeOK
<1> QED
  BY <1>1, <1>2 DEF Runs

\* Up to the build, a run has done nothing that it must keep.
LEMMA KeptUpToBuild ==
    ASSUME TypeOK, [Next]_vars, NEW b \in Builders, Kept(b),
           \/ GetInstance(b) \/ FindKey(b) \/ ImportKey(b)
           \/ CreateInstance(b) \/ CreateRefused(b) \/ Mark(b) \/ Unmark(b)
           \/ FindImage(b) \/ WaitPublicIP(b) \/ MachineForgotten(b)
           \/ DialSSH(b) \/ Setup(b) \/ BuildImage(b) \/ BuildRefused(b)
           \/ CheckImage(b)
    PROVE  Kept(b)'
<1>0. /\ run[b] \in Runs /\ Grows /\ run \in [Builders -> Runs]
      /\ run[b].name \in Days
  BY NextGrows DEF TypeOK, Runs
<1>1. CASE GetInstance(b)
  <2>1. run'[b].pc \in {"find", "key", "create"} /\ run'[b].found = run[b].found
        /\ run'[b].name = run[b].name
    BY <1>0, <1>1 DEF GetInstance, Goto, Runs
  <2> QED
    BY <2>1, KeptEarly
<1>2. CASE FindKey(b) \/ ImportKey(b) \/ Mark(b)
  <2>1. CASE \E s \in {"create", "import", "find", "unmark"} : Goto(b, s)
    BY <2>1, GotoFields, KeptEarly
  <2> QED
    BY <1>2, <2>1, KeptAtExit DEF FindKey, ImportKey, Mark, Answer
<1>3. CASE CreateInstance(b)
  <2>1. CASE Exit(b)
    BY <2>1, KeptAtExit
  <2>2. CASE \E i \in Free :
               run' = [run EXCEPT ![b].machine = i,
                         ![b].pc = IF Cloud = "aws" THEN "mark" ELSE "find"]
    <3>1. run'[b].pc \in {"mark", "find"} /\ run'[b].found = run[b].found
          /\ run'[b].name = run[b].name
      BY <1>0, <2>2 DEF Runs
    <3> QED
      BY <3>1, KeptEarly
  <2> QED
    BY <1>3, <2>1, <2>2 DEF CreateInstance
<1>4. CASE CreateRefused(b) \/ Unmark(b) \/ MachineForgotten(b) \/ BuildRefused(b)
  BY <1>4, KeptAtExit DEF CreateRefused, Unmark, MachineForgotten, BuildRefused
<1>5. CASE FindImage(b)
  <2>1. CASE Exit(b)
    BY <2>1, KeptAtExit
  <2>2. CASE Goto(b, "ip")
    BY <2>2, GotoFields, KeptEarly
  <2>3. CASE run' = [run EXCEPT ![b].pc = After(b, 0),
                                ![b].found = Exists(Home, run[b].name)]
    <3>1. run'[b].pc = After(b, 0) /\ run'[b].flags = run[b].flags
          /\ run'[b].found = Exists(Home, run[b].name)
          /\ run'[b].name = run[b].name
      BY <1>0, <2>3 DEF Runs
    <3>2. run'[b].found => image'[Home][run'[b].name] # "none"
      BY <1>0, <3>1 DEF Exists, Grows
    <3> QED
      BY <3>1, <3>2, KeptAfterBuild
  <2> QED
    BY <1>5, <2>1, <2>2, <2>3 DEF FindImage
<1>6. CASE WaitPublicIP(b)
  <2>0. PICK i \in Named(b) :
           run' = [run EXCEPT ![b].pc = "ssh", ![b].machine = i]
    BY <1>6 DEF WaitPublicIP
  <2>1. run'[b].pc = "ssh" /\ run'[b].found = run[b].found
        /\ run'[b].name = run[b].name
    BY <1>0, <2>0 DEF Runs
  <2> QED
    BY <2>1, KeptEarly
<1>7. CASE DialSSH(b) \/ Setup(b) \/ BuildImage(b)
  <2>1. CASE \E s \in {"setup", "build", "check"} : Goto(b, s)
    BY <2>1, GotoFields, KeptEarly
  <2> QED
    BY <1>7, <2>1, KeptAtExit DEF DialSSH, Setup, BuildImage, Answer
<1>8. CASE CheckImage(b)
  <2>1. CASE Exit(b)
    BY <2>1, KeptAtExit
  <2>2. CASE Exists(Home, run[b].name)
             /\ run' = [run EXCEPT ![b].pc = After(b, 0), ![b].found = TRUE]
    <3>1. run'[b].pc = After(b, 0) /\ run'[b].flags = run[b].flags
          /\ run'[b].name = run[b].name
      BY <1>0, <2>2 DEF Runs
    <3>2. image'[Home][run'[b].name] # "none"
      BY <1>0, <2>2, <3>1 DEF Exists, Grows
    <3> QED
      BY <3>1, <3>2, KeptAfterBuild
  <2> QED
    BY <1>8, <2>1, <2>2 DEF CheckImage
<1> QED
  BY <1>1, <1>2, <1>3, <1>4, <1>5, <1>6, <1>7, <1>8

\* Each stage adds what it is for.
LEMMA KeptByStages ==
    ASSUME TypeOK, [Next]_vars, OneListed, NEW b \in Builders, Kept(b),
           \/ ImageNotFound(b) \/ AddTags(b) \/ EnsurePublic(b)
           \/ ReplicateImage(b)
           \/ (\E r \in Regions : FindCopy(b, r) \/ OpenCopy(b, r))
           \/ CopyImage(b) \/ Copied(b) \/ Opened(b) \/ Shutdown(b) \/ Finish(b)
    PROVE  Kept(b)'
<1>0. /\ run[b] \in Runs /\ Grows /\ run \in [Builders -> Runs]
      /\ run[b].name \in Days /\ Home \in Regions
  BY NextGrows DEF TypeOK, Runs
<1>1. CASE ImageNotFound(b) \/ Finish(b)
  BY <1>1, KeptAtExit DEF ImageNotFound, Finish
<1>2. CASE AddTags(b)
  <2>1. CASE Goto(b, After(b, 1)) /\ tagged' = tagged \cup {run[b].name}
    <3>1. run'[b].found => image'[Home][run'[b].name] # "none"
      BY <1>0, <2>1, GotoFields DEF Kept, Exists, Grows
    <3> QED
      BY <2>1, <3>1, GotoFields, KeptAfterTag
  <2> QED
    BY <1>2, <2>1, KeptAtExit DEF AddTags, Answer
<1>3. CASE EnsurePublic(b)
  <2>1. CASE Goto(b, After(b, 2)) /\ MakePublic(b, Home)
    <3>1. run'[b].found => image'[Home][run'[b].name] # "none"
      BY <1>0, <2>1, GotoFields DEF Kept, Exists, Grows
    <3>2. run[b].flags.tag => run'[b].name \in tagged'
      BY <1>0, <1>3, <2>1, GotoFields DEF Kept, EnsurePublic, Grows
    <3>3. <<Home, run'[b].name>> \in public'
      BY <2>1, GotoFields DEF MakePublic
    <3> QED
      BY <2>1, <3>1, <3>2, <3>3, GotoFields, KeptAfter
  <2> QED
    BY <1>3, <2>1, KeptAtExit DEF EnsurePublic, Answer
<1>4. CASE ReplicateImage(b)
  <2>1. /\ Exists(Home, run[b].name)
        /\ run[b].flags.tag => run[b].name \in tagged
        /\ run[b].flags.publish => <<Home, run[b].name>> \in public
    BY <1>4 DEF ReplicateImage, Kept
  <2>2. CASE Cloud = "gce"
    <3>1. Goto(b, After(b, 3)) /\ Regions = {Home}
      BY <1>4, <2>2 DEF ReplicateImage
    <3>2. image'[Home][run'[b].name] # "none"
      BY <1>0, <2>1, <3>1, GotoFields DEF Exists, Grows
    <3> QED
      BY <1>0, <2>1, <3>1, <3>2, GotoFields, KeptAfter DEF Grows
  <2>3. CASE run' = [run EXCEPT ![b].pc = "copy", ![b].todo = Regions \ {Home}]
    <3>1. /\ run'[b].pc = "copy" /\ run'[b].todo = Regions \ {Home}
          /\ run'[b].flags = run[b].flags /\ run'[b].name = run[b].name
          /\ run'[b].found = run[b].found
      BY <1>0, <2>3 DEF Runs
    <3> QED
      BY <1>0, <2>1, <3>1 DEF Kept, Exists, Grows
  <2> QED
    BY <1>4, <2>2, <2>3 DEF ReplicateImage
<1>5. ASSUME NEW g \in Regions, FindCopy(b, g)
      PROVE  Kept(b)'
  <2>1. /\ run'[b].pc = IF Exists(g, run[b].name) THEN "copy" ELSE "copying"
        /\ run'[b].todo = run[b].todo \ {g} /\ run'[b].region = g
        /\ run'[b].flags = run[b].flags /\ run'[b].name = run[b].name
        /\ run'[b].found = run[b].found
    BY <1>0, <1>5 DEF FindCopy, Runs
  <2>2. run[b].pc = "copy" /\ UNCHANGED <<image, public, tagged>>
    BY <1>5 DEF FindCopy, cloud
  <2> QED
    BY <2>1, <2>2 DEF Kept, Exists
<1>6. ASSUME NEW g \in Regions, OpenCopy(b, g)
      PROVE  Kept(b)'
  <2>1. CASE run' = [run EXCEPT ![b].todo = @ \ {g}]
    <3>1. /\ run'[b].pc = "open" /\ run'[b].todo = run[b].todo \ {g}
          /\ run'[b].flags = run[b].flags /\ run'[b].name = run[b].name
          /\ run'[b].found = run[b].found
      BY <1>0, <1>6, <2>1 DEF OpenCopy, Runs
    <3>2. run[b].pc = "open" /\ public' = public \cup {<<g, run[b].name>>}
          /\ UNCHANGED <<image, tagged>>
      BY <1>6 DEF OpenCopy, MakePublic
    <3> QED
      BY <3>1, <3>2 DEF Kept, Exists
  <2> QED
    BY <1>6, <2>1, KeptAtExit DEF OpenCopy
<1>7. CASE CopyImage(b)
  <2>1. CASE Goto(b, "copy") /\ image'[run[b].region][run[b].name] # "none"
    <3>1. run[b].pc = "copying" /\ UNCHANGED <<public, tagged>>
      BY <1>7 DEF CopyImage
    <3> QED
      BY <1>0, <2>1, <3>1, GotoFields DEF Kept, Exists, Grows
  <2>2. CASE Exit(b)
    BY <2>2, KeptAtExit
  <2>3. run[b].region \in Regions
    BY <1>0 DEF Runs
  <2>4. Exists(run[b].region, run[b].name) \/ image[Home][run[b].name] = "available"
        => Exit(b) \/ image'[run[b].region][run[b].name] # "none"
    BY <1>0, <1>7, <2>3 DEF CopyImage, Exists, TypeOK
  <2> QED
    BY <1>7, <2>1, <2>2, <2>4 DEF CopyImage, Answer
<1>8. CASE Copied(b)
  <2>1. /\ run[b].pc = "copy" /\ run[b].todo = {}
        /\ UNCHANGED <<image, public, tagged>>
    BY <1>8 DEF Copied, cloud
  <2>2. \A g \in Regions : image[g][run[b].name] # "none"
    BY <2>1 DEF Kept, Exists
  <2>3. CASE ~run[b].flags.publish /\ Goto(b, After(b, 3))
    BY <1>0, <2>1, <2>2, <2>3, GotoFields, KeptAfter DEF Kept
  <2>4. CASE run[b].flags.publish
             /\ run' = [run EXCEPT ![b].pc = "open", ![b].todo = Regions]
    <3>1. /\ run'[b].pc = "open" /\ run'[b].todo = Regions
          /\ run'[b].flags = run[b].flags /\ run'[b].name = run[b].name
          /\ run'[b].found = run[b].found
      BY <1>0, <2>4 DEF Runs
    <3> QED
      BY <1>0, <2>1, <2>2, <2>4, <3>1 DEF Kept, Exists
  <2> QED
    BY <1>8, <2>3, <2>4 DEF Copied
<1>9. CASE Opened(b)
  <2>1. /\ run[b].pc = "open" /\ run[b].todo = {} /\ Goto(b, After(b, 3))
        /\ UNCHANGED <<image, public, tagged>>
    BY <1>9 DEF Opened, cloud
  <2>2. \A g \in Regions : /\ image[g][run[b].name] # "none"
                           /\ <<g, run[b].name>> \in public
    BY <2>1 DEF Kept, Exists
  <2> QED
    BY <1>0, <2>1, <2>2, GotoFields, KeptAfter DEF Kept
<1>10. CASE Shutdown(b)
  <2>1. run[b].pc = "down" /\ UNCHANGED <<image, public, tagged>>
    BY <1>10 DEF Shutdown
  <2>2. CASE run[b].machine = NoMachine /\ Goto(b, "done")
    BY <2>1, <2>2, GotoFields DEF Kept, Exists
  <2>3. CASE run[b].machine # NoMachine
             /\ \E i \in Named(b) : Terminate(i) /\ Goto(b, "done")
    <3>1. PICK i \in Named(b) : Terminate(i) /\ Goto(b, "done")
      BY <2>3
    <3>2. i \in Machines /\ run[b].machine \in Machines
      BY <1>0, <2>3, NamedIsMachine DEF Runs
    <3>3. CASE i = run[b].machine
      <4>1. machine'[run[b].machine] = "gone"
        BY <3>1, <3>2, <3>3 DEF Terminate, TypeOK
      <4> QED
        BY <2>1, <3>1, <4>1, GotoFields DEF Kept, Exists, Live
    <3>4. CASE i # run[b].machine
      <4>1. Cloud = "gce" /\ i \in Listed
        BY <3>4 DEF Named
      <4>2. machine[run[b].machine] = "none"
        BY <3>2, <3>4, <4>1 DEF OneListed, Listed
      <4>3. machine'[run[b].machine] = "none"
        BY <3>1, <3>2, <3>4, <4>2 DEF Terminate, TypeOK
      <4> QED
        BY <2>1, <3>1, <4>3, GotoFields DEF Kept, Exists, Live
    <3> QED
      BY <3>3, <3>4
  <2> QED
    BY <1>10, <2>2, <2>3, KeptAtExit DEF Shutdown, Answer
<1> QED
  BY <1>1, <1>2, <1>3, <1>4, <1>5, <1>6, <1>7, <1>8, <1>9, <1>10

\* On GCE no run gets to where the machine is tagged.
LEMMA NoMarking ==
    ASSUME TypeOK, Cloud = "gce", NEW b \in Builders,
           run[b].pc \notin {"mark", "unmark"},
           Main(b) \/ CallFails(b) \/ Operator(b)
    PROVE  run'[b].pc \notin {"mark", "unmark"}
<1>0. /\ run[b] \in Runs /\ run \in [Builders -> Runs] /\ Cloud # "aws"
      /\ \A k \in 0 .. 3 : After(b, k) \notin {"mark", "unmark"}
  BY AfterIsStage DEF TypeOK
<1>1. Exit(b) => run'[b].pc = "idle"
  BY <1>0 DEF Exit, Idle
<1>2. \A state : Goto(b, state) => run'[b].pc = state
  BY <1>0, GotoFields
<1>3. CASE GetInstance(b)
  <2>1. CASE \E i \in Listed : run' = [run EXCEPT ![b].pc = "find", ![b].machine = i]
    BY <1>0, <2>1 DEF Runs
  <2> QED
    BY <1>0, <1>2, <1>3, <2>1 DEF GetInstance
<1>4. CASE CreateInstance(b)
  <2>1. CASE \E i \in Free :
               run' = [run EXCEPT ![b].machine = i,
                         ![b].pc = IF Cloud = "aws" THEN "mark" ELSE "find"]
    BY <1>0, <2>1 DEF Runs
  <2> QED
    BY <1>1, <1>4, <2>1 DEF CreateInstance
<1>5. CASE WaitPublicIP(b)
  <2>1. PICK i \in Named(b) :
           run' = [run EXCEPT ![b].pc = "ssh", ![b].machine = i]
    BY <1>5 DEF WaitPublicIP
  <2> QED
    BY <1>0, <2>1 DEF Runs
<1>6. CASE FindImage(b) \/ CheckImage(b)
  <2>1. CASE \E f : run' = [run EXCEPT ![b].pc = After(b, 0), ![b].found = f]
    BY <1>0, <2>1 DEF Runs
  <2> QED
    BY <1>1, <1>2, <1>6, <2>1 DEF FindImage, CheckImage
<1>7. CASE ReplicateImage(b) \/ Copied(b)
  <2>1. CASE \E t, p : p \in {"copy", "open"}
                       /\ run' = [run EXCEPT ![b].pc = p, ![b].todo = t]
    BY <1>0, <2>1 DEF Runs
  <2> QED
    BY <1>0, <1>2, <1>7, <2>1 DEF ReplicateImage, Copied
<1>8. ASSUME NEW g \in Regions, FindCopy(b, g) \/ OpenCopy(b, g)
      PROVE  run'[b].pc \notin {"mark", "unmark"}
  <2>1. CASE FindCopy(b, g)
    BY <1>0, <2>1 DEF FindCopy, Runs
  <2>2. CASE run' = [run EXCEPT ![b].todo = @ \ {g}]
    BY <1>0, <2>2 DEF Runs
  <2> QED
    BY <1>1, <1>8, <2>1, <2>2 DEF OpenCopy
<1>9. CASE KeepsWaiting(b) \/ Mark(b) \/ Unmark(b)
  BY <1>9 DEF KeepsWaiting, Mark, Unmark, vars
<1>10. CASE \/ FindKey(b) \/ ImportKey(b) \/ CreateRefused(b)
            \/ MachineForgotten(b) \/ DialSSH(b) \/ Setup(b) \/ BuildImage(b)
            \/ BuildRefused(b) \/ ImageNotFound(b)
  BY <1>1, <1>2, <1>10 DEF FindKey, ImportKey, CreateRefused,
     MachineForgotten, DialSSH, Setup, BuildImage, BuildRefused, ImageNotFound,
     Answer
<1>11. CASE \/ AddTags(b) \/ EnsurePublic(b) \/ CopyImage(b) \/ Opened(b)
            \/ Shutdown(b) \/ Finish(b)
  BY <1>0, <1>1, <1>2, <1>11 DEF AddTags, EnsurePublic, CopyImage, Opened,
     Shutdown, Finish, Answer
<1>12. CASE CallFails(b) \/ Operator(b)
  <2>1. ASSUME NEW f \in Invocations, Start(b, f)
        PROVE  run'[b].pc = "get"
    BY <1>0, <2>1 DEF Start, Idle
  <2> QED
    BY <1>1, <1>12, <2>1 DEF CallFails, Operator, Kill
<1> QED
  BY <1>3, <1>4, <1>5, <1>6, <1>7, <1>8, <1>9, <1>10, <1>11, <1>12 DEF Main

\* On GCE a machine is created when none is listed, so at most one is.
LEMMA OneListedStays ==
    ASSUME TypeOK, [Next]_vars, OneListed
    PROVE  OneListed'
<1> SUFFICES ASSUME Cloud = "gce"
             PROVE  OneListed'
  BY DEF OneListed
<1>0. /\ Listed = {i \in Machines : machine[i] # "none"}
      /\ Listed' = {i \in Machines : machine'[i] # "none"}
      /\ \A b \in Builders : run[b].pc \notin {"mark", "unmark"}
      /\ \A i, j \in Listed : i = j
  BY DEF Listed, OneListed
<1>a. \A b \in Builders : run'[b].pc \notin {"mark", "unmark"}
  <2>1. ASSUME NEW b \in Builders, Main(b) \/ CallFails(b) \/ Operator(b)
        PROVE  \A c \in Builders : run'[c].pc \notin {"mark", "unmark"}
    BY <1>0, <2>1, NoMarking, OthersStay DEF Others
  <2>2. CASE Account
    BY <1>0, <2>2 DEF Account, Boot, Forget, OrphanEnds, ImageReady, ImageFails,
                      Midnight
  <2>3. CASE UNCHANGED vars
    BY <1>0, <2>3 DEF vars
  <2> QED
    BY <2>1, <2>2, <2>3 DEF Next
<1>b. \A i, j \in Listed' : i = j
  <2>1. ASSUME NEW b \in Builders, CreateInstance(b)
        PROVE  \A i, j \in Listed' : i = j
    <3>1. PICK i \in Free : machine' = [machine EXCEPT ![i] = "pending"]
      BY <2>1 DEF CreateInstance
    <3>2. Listed = {}
      BY <3>1 DEF Free
    <3> QED
      BY <1>0, <3>1, <3>2 DEF TypeOK
  <2>2. ASSUME NEW b \in Builders, Shutdown(b)
        PROVE  Listed' \subseteq Listed
    <3>1. Named(b) = Listed
      BY DEF Named
    <3> QED
      BY <1>0, <2>2, <3>1 DEF Shutdown, Terminate, TypeOK
  <2>3. ASSUME NEW b \in Builders,
               \/ GetInstance(b) \/ FindKey(b) \/ ImportKey(b)
               \/ CreateRefused(b) \/ FindImage(b) \/ WaitPublicIP(b)
               \/ MachineForgotten(b) \/ DialSSH(b) \/ KeepsWaiting(b)
               \/ Setup(b) \/ BuildImage(b) \/ BuildRefused(b) \/ CheckImage(b)
        PROVE  UNCHANGED machine
    BY <2>3 DEF GetInstance, FindKey, ImportKey, CreateRefused, FindImage,
                WaitPublicIP, MachineForgotten, DialSSH, KeepsWaiting, Setup,
                BuildImage, BuildRefused, CheckImage, cloud, vars
  <2>4. ASSUME NEW b \in Builders,
               \/ ImageNotFound(b) \/ AddTags(b) \/ EnsurePublic(b)
               \/ ReplicateImage(b)
               \/ (\E r \in Regions : FindCopy(b, r) \/ OpenCopy(b, r))
               \/ CopyImage(b) \/ Copied(b) \/ Opened(b) \/ Finish(b)
               \/ CallFails(b) \/ Operator(b)
        PROVE  UNCHANGED machine
    BY <2>4 DEF ImageNotFound, AddTags, EnsurePublic, ReplicateImage, FindCopy,
                OpenCopy, CopyImage, Copied, Opened, Finish, CallFails,
                Operator, Start, Kill, cloud
  <2>5. ASSUME NEW b \in Builders
        PROVE  ~Mark(b) /\ ~Unmark(b)
    BY <1>0 DEF Mark, Unmark
  <2>6. CASE Account
    <3>1. \A i \in Machines : machine'[i] # "none" => machine[i] # "none"
      BY <2>6 DEF Account, Boot, Forget, OrphanEnds, ImageReady, ImageFails,
                  Midnight, TypeOK
    <3> QED
      BY <1>0, <3>1
  <2>7. CASE UNCHANGED vars
    BY <1>0, <2>7 DEF vars, cloud
  <2> QED
    BY <1>0, <2>1, <2>2, <2>3, <2>4, <2>5, <2>6, <2>7 DEF Next, Main
<1> QED
  BY <1>a, <1>b DEF OneListed

\* No step takes back what a run relies on.
THEOREM InductiveHolds == Spec => []Inductive
<1>1. Init => Inductive
  BY DEF Init, Inductive, OneListed, Listed, Kept, Idle
<1>2. TypeOK /\ Inductive /\ [Next]_vars => Inductive'
  <2> SUFFICES ASSUME TypeOK, Inductive, [Next]_vars
               PROVE  Inductive'
    OBVIOUS
  <2>0. OneListed /\ \A c \in Builders : Kept(c)
    BY DEF Inductive
  <2>1. ASSUME NEW b \in Builders, Main(b) \/ CallFails(b) \/ Operator(b)
        PROVE  \A c \in Builders : Kept(c)'
    <3>1. \A c \in Builders \ {b} : Kept(c)'
      BY <2>0, <2>1, OthersStay, KeptByOthers DEF Others
    <3>2. ASSUME Main(b)
          PROVE  Kept(b)'
      <4>1. CASE KeepsWaiting(b)
        BY <2>0, <4>1, KeptByOthers DEF KeepsWaiting, vars
      <4> QED
        BY <2>0, <3>2, <4>1, KeptUpToBuild, KeptByStages DEF Main
    <3>3. ASSUME CallFails(b) \/ Kill(b)
          PROVE  Kept(b)'
      BY <2>0, <3>3, KeptAtExit DEF CallFails, Kill
    <3>4. ASSUME NEW f \in Invocations, Start(b, f)
          PROVE  Kept(b)'
      <4>1. run'[b].pc = "get" /\ run'[b].found = FALSE
        BY <3>4 DEF Start, Idle, TypeOK
      <4> QED
        BY <2>0, <4>1, KeptEarly
    <3>5. Kept(b)'
      BY <2>1, <3>2, <3>3, <3>4 DEF Operator
    <3> QED
      BY <3>1, <3>5
  <2>2. CASE Account \/ UNCHANGED vars
    <3>1. UNCHANGED run
      BY <2>2 DEF Account, Boot, Forget, OrphanEnds, ImageReady, ImageFails,
                  Midnight, vars
    <3>2. \A c \in Builders : Kept(c)'
      BY <2>0, <3>1, KeptByOthers
    <3> QED
      BY <2>0, <3>2, OneListedStays DEF Inductive
  <2> QED
    BY <2>0, <2>1, <2>2, OneListedStays DEF Inductive, Next
<1> QED
  BY <1>1, <1>2, TypeCorrect, PTL DEF Spec

\* A run that comes to its end has done all it was asked for, whatever earlier
\* runs left half done and other runs do at the same time.
THEOREM EndMeansDelivered == Spec => []SuccessMeansDelivered
<1>1. Inductive => SuccessMeansDelivered
  BY DEF Inductive, Kept, SuccessMeansDelivered, Delivered
<1> QED
  BY <1>1, InductiveHolds, PTL
=============================================================================
