----------------------- MODULE ImageBuilderRunsProofs -----------------------
(***************************************************************************)
(* Runs of ImageBuilder that follow, or meet, each other: one machine is   *)
(* rented at a time, and runs do not make each other fail while they       *)
(* release an image.                                                       *)
(***************************************************************************)
EXTENDS ImageBuilderProofs, FiniteSetTheorems

USE CloudAssumption, ParameterAssumption

\* Where a run is about to create a machine, having found none.
Creating == {"key", "import", "create"}

\* What the steps of a run have in common, but for its start: its flags stay
\* until it ends, and only GetInstance leads to the creation of a machine.
LEMMA RunStep ==
    ASSUME TypeOK, NEW b \in Builders, Main(b) \/ CallFails(b) \/ Kill(b)
    PROVE  /\ run[b].pc # "idle"
           /\ run'[b] = Idle \/ run'[b].flags = run[b].flags
           /\ run'[b].pc \in Creating => GetInstance(b) \/ run[b].pc \in Creating
<1> DEFINE Same == run'[b] = Idle \/ run'[b].flags = run[b].flags
           Safe == run'[b].pc \notin Creating
<1>0. /\ run[b] \in Runs /\ run \in [Builders -> Runs]
      /\ \A k \in 0 .. 3 : After(b, k) \notin Creating
  BY AfterIsStage DEF TypeOK, Creating
<1>1. Exit(b) => Same /\ Safe
  BY <1>0 DEF Exit, Idle, Creating
<1>2. \A state : Goto(b, state) => Same /\ run'[b].pc = state
  BY <1>0, GotoFields
<1>3. CASE GetInstance(b)
  <2>1. ASSUME NEW i \in Listed,
               run' = [run EXCEPT ![b].pc = "find", ![b].machine = i]
        PROVE  Same
    BY <1>0, <2>1 DEF Runs
  <2> QED
    BY <1>2, <1>3, <2>1 DEF GetInstance
<1>4. CASE CreateInstance(b)
  <2>1. CASE \E i \in Free :
               run' = [run EXCEPT ![b].machine = i,
                         ![b].pc = IF Cloud = "aws" THEN "mark" ELSE "find"]
    BY <1>0, <2>1 DEF Runs
  <2> QED
    BY <1>1, <1>4, <2>1 DEF CreateInstance, Creating
<1>5. CASE WaitPublicIP(b)
  <2>1. PICK i \in Named(b) :
           run' = [run EXCEPT ![b].pc = "ssh", ![b].machine = i]
    BY <1>5 DEF WaitPublicIP
  <2> QED
    BY <1>0, <1>5, <2>1 DEF Runs, WaitPublicIP, Creating
<1>6. CASE FindImage(b) \/ CheckImage(b)
  <2>1. ASSUME NEW f, run' = [run EXCEPT ![b].pc = After(b, 0), ![b].found = f]
        PROVE  Same /\ Safe
    BY <1>0, <2>1 DEF Runs
  <2>2. Same /\ Safe
    BY <1>1, <1>2, <1>6, <2>1 DEF FindImage, CheckImage, Creating
  <2> QED
    BY <1>6, <2>2 DEF FindImage, CheckImage
<1>7. CASE ReplicateImage(b) \/ Copied(b)
  <2>1. ASSUME NEW t, NEW p \in {"copy", "open"},
               run' = [run EXCEPT ![b].pc = p, ![b].todo = t]
        PROVE  Same /\ Safe
    BY <1>0, <2>1 DEF Runs, Creating
  <2>2. Same /\ Safe
    BY <1>0, <1>2, <1>7, <2>1 DEF ReplicateImage, Copied
  <2> QED
    BY <1>7, <2>2 DEF ReplicateImage, Copied
<1>8. ASSUME NEW g \in Regions, FindCopy(b, g) \/ OpenCopy(b, g)
      PROVE  run[b].pc # "idle" /\ Same /\ Safe
  <2>1. CASE FindCopy(b, g)
    BY <1>0, <2>1 DEF FindCopy, Runs, Creating
  <2>2. CASE OpenCopy(b, g) /\ run' = [run EXCEPT ![b].todo = @ \ {g}]
    BY <1>0, <2>2 DEF Runs, OpenCopy, Creating
  <2> QED
    BY <1>1, <1>8, <2>1, <2>2 DEF OpenCopy
<1>9. CASE KeepsWaiting(b)
  BY <1>9 DEF KeepsWaiting, vars
<1>10. CASE \/ FindKey(b) \/ ImportKey(b) \/ CreateRefused(b) \/ Mark(b)
            \/ Unmark(b) \/ MachineForgotten(b) \/ DialSSH(b) \/ Setup(b)
            \/ BuildImage(b) \/ BuildRefused(b) \/ ImageNotFound(b)
  BY <1>1, <1>2, <1>10 DEF FindKey, ImportKey, CreateRefused, Mark, Unmark,
     MachineForgotten, DialSSH, Setup, BuildImage, BuildRefused, ImageNotFound,
     Answer, Creating
<1>11. CASE \/ AddTags(b) \/ EnsurePublic(b) \/ CopyImage(b) \/ Opened(b)
            \/ Shutdown(b) \/ Finish(b)
  BY <1>0, <1>1, <1>2, <1>11 DEF AddTags, EnsurePublic, CopyImage, Opened,
     Shutdown, Finish, Answer, Creating
<1>12. CASE CallFails(b) \/ Kill(b)
  BY <1>1, <1>12 DEF CallFails, Kill, Calls
<1> QED
  BY <1>3, <1>4, <1>5, <1>6, <1>7, <1>8, <1>9, <1>10, <1>11, <1>12 DEF Main

LEMMA StartedRun ==
    ASSUME TypeOK, NEW b \in Builders, NEW f \in Invocations, Start(b, f)
    PROVE  run'[b].flags = f /\ run'[b].pc = "get"
  BY DEF Start, TypeOK, Idle
-----------------------------------------------------------------------------
(* One machine                                                             *)

\* The machines somebody pays for and can find.
Rented == {i \in Machines : Live(i) /\ i \notin lost}

\* One operator rents one machine: it creates one when it has found none, and
\* finds every one that it has not lost.
OneRented ==
    /\ \A i, j \in Rented : i = j
    /\ \A b \in Builders : run[b].pc \in Creating => Rented = {}

\* A machine more is rented only by CreateInstance.
LEMMA RentedStep ==
    ASSUME TypeOK, [Next]_vars, ~\E b \in Builders : CreateInstance(b)
    PROVE  Rented' \subseteq Rented
<1>1. ASSUME NEW b \in Builders, Unmark(b) \/ Shutdown(b)
      PROVE  Rented' \subseteq Rented
  BY <1>1 DEF Unmark, Shutdown, Terminate, Rented, Live, TypeOK
<1>2. ASSUME NEW b \in Builders,
             \/ GetInstance(b) \/ FindKey(b) \/ ImportKey(b) \/ CreateRefused(b)
             \/ Mark(b) \/ FindImage(b) \/ WaitPublicIP(b) \/ MachineForgotten(b)
             \/ DialSSH(b) \/ KeepsWaiting(b) \/ Setup(b) \/ BuildImage(b)
             \/ BuildRefused(b) \/ CheckImage(b)
      PROVE  UNCHANGED <<machine, lost>>
  BY <1>2 DEF GetInstance, FindKey, ImportKey, CreateRefused, Mark, FindImage,
              WaitPublicIP, MachineForgotten, DialSSH, KeepsWaiting, Setup,
              BuildImage, BuildRefused, CheckImage, cloud, vars
<1>3. ASSUME NEW b \in Builders,
             \/ ImageNotFound(b) \/ AddTags(b) \/ EnsurePublic(b)
             \/ ReplicateImage(b)
             \/ (\E r \in Regions : FindCopy(b, r) \/ OpenCopy(b, r))
             \/ CopyImage(b) \/ Copied(b) \/ Opened(b) \/ Finish(b)
             \/ CallFails(b) \/ Operator(b)
      PROVE  machine' = machine /\ lost \subseteq lost'
  BY <1>3 DEF ImageNotFound, AddTags, EnsurePublic, ReplicateImage, FindCopy,
              OpenCopy, CopyImage, Copied, Opened, Finish, CallFails, Operator,
              Start, Kill, cloud
<1>4. CASE Account
  BY <1>4 DEF Account, Boot, Forget, OrphanEnds, ImageReady, ImageFails,
              Midnight, Rented, Live, TypeOK
<1>5. CASE UNCHANGED vars
  BY <1>5 DEF vars, cloud, Rented, Live
<1>6. machine' = machine /\ lost \subseteq lost' => Rented' \subseteq Rented
  BY DEF Rented, Live
<1> QED
  BY <1>1, <1>2, <1>3, <1>4, <1>5, <1>6 DEF Next, Main

LEMMA OneRentedStep ==
    ASSUME TypeOK, NoLeak, Cloud = "aws", \A b, c \in Builders : b = c,
           OneRented, [Next]_vars
    PROVE  OneRented'
<1>1. ASSUME NEW b \in Builders, CreateInstance(b)
      PROVE  OneRented'
  <2>1. Rented = {}
    BY <1>1 DEF CreateInstance, OneRented, Creating
  <2>2. PICK i \in Free :
           /\ machine' = [machine EXCEPT ![i] = "pending"]
           /\ \/ lost' = lost \ {i}
              \/ lost' = lost \cup {i}
    BY <1>1 DEF CreateInstance
  <2>3. Rented' \subseteq {i}
    BY <2>1, <2>2 DEF Rented, Live, TypeOK
  <2>4. run'[b].pc \notin Creating
    BY <1>1 DEF CreateInstance, Exit, Idle, TypeOK, Runs, Creating
  <2> QED
    BY <2>3, <2>4 DEF OneRented
<1>2. ASSUME NEW b \in Builders, GetInstance(b), run'[b].pc \in Creating
      PROVE  Rented = {}
  <2>1. ASSUME NEW i \in Listed,
               run' = [run EXCEPT ![b].pc = "find", ![b].machine = i]
        PROVE  FALSE
    BY <1>2, <2>1 DEF TypeOK, Runs, Creating
  <2>2. Listed = {} /\ run[b].pc = "get"
    BY <1>2, <2>1 DEF GetInstance
  <2>3. \A i \in Machines : Live(i) => i \notin marked
    BY <2>2 DEF Listed, Live
  <2> QED
    BY <2>2, <2>3 DEF NoLeak, Rented
<1>3. CASE ~\E b \in Builders : CreateInstance(b)
  <2>1. Rented' \subseteq Rented
    BY <1>3, RentedStep
  <2>2. ASSUME NEW b \in Builders, run'[b].pc \in Creating
        PROVE  Rented = {}
    <3>1. CASE Main(b) \/ CallFails(b) \/ Kill(b)
      BY <1>2, <2>2, <3>1, RunStep DEF OneRented
    <3>2. CASE \E f \in Invocations : Start(b, f)
      BY <2>2, <3>2, StartedRun DEF Creating
    <3>3. CASE Account \/ UNCHANGED vars
      <4>1. UNCHANGED run
        BY <3>3 DEF Account, Boot, Forget, OrphanEnds, ImageReady, ImageFails,
                    Midnight, vars
      <4> QED
        BY <2>2, <4>1 DEF OneRented
    <3> QED
      BY <3>1, <3>2, <3>3 DEF Next, Operator
  <2> QED
    BY <2>1, <2>2 DEF OneRented
<1> QED
  BY <1>1, <1>3

\* However often one operator starts the program, is killed or has it fail, one
\* machine is rented at a time, but for those the program lost.
THEOREM OneIsRented ==
    ASSUME Cloud = "aws", \A b, c \in Builders : b = c
    PROVE  Spec => []OneMachine
<1>1. (\A i, j \in Rented : i = j) => OneMachine
  <2> SUFFICES ASSUME \A i, j \in Rented : i = j
               PROVE  Cardinality(Rented) \in {0, 1}
    BY DEF OneMachine, Rented
  <2>1. Rented = {} \/ \E i : Rented = {i}
    OBVIOUS
  <2> QED
    BY <2>1, FS_EmptySet, FS_Singleton
<1>2. Init => OneRented
  BY DEF Init, OneRented, Rented, Live
<1>3. TypeOK /\ NoLeak /\ OneRented /\ [Next]_vars => OneRented'
  BY OneRentedStep
<1>4. OneRented => OneMachine
  BY <1>1 DEF OneRented
<1> QED
  BY <1>2, <1>3, <1>4, TypeCorrect, MachinesDoNotLeak, PTL DEF Spec
-----------------------------------------------------------------------------
(* Runs that release an image at the same time                             *)

Releasing == {"tag", "publish", "replicate", "copy", "copying", "open"}

\* A run knows what it was asked for, and what is public can be copied.
Releasable ==
    /\ \A b \in Builders : run[b].pc # "idle" => run[b].flags \in Invocations
    /\ \A r \in Regions, n \in Days :
           <<r, n>> \in public => image[r][n] = "available"

LEMMA ReleasableStep == TypeOK /\ Releasable /\ [Next]_vars => Releasable'
<1> SUFFICES ASSUME TypeOK, Releasable, [Next]_vars
             PROVE  Releasable'
  OBVIOUS
<1>1. ASSUME NEW b \in Builders, run'[b].pc # "idle"
      PROVE  run'[b].flags \in Invocations
  <2>1. ASSUME NEW c \in Builders, Main(c) \/ CallFails(c) \/ Operator(c), c # b
        PROVE  run'[b].flags \in Invocations
    BY <1>1, <2>1, OthersStay DEF Others, Releasable
  <2>2. CASE Main(b) \/ CallFails(b) \/ Kill(b)
    BY <1>1, <2>2, RunStep DEF Releasable, Idle
  <2>3. CASE \E f \in Invocations : Start(b, f)
    BY <2>3, StartedRun
  <2>4. CASE Account \/ UNCHANGED vars
    <3>1. UNCHANGED run
      BY <2>4 DEF Account, Boot, Forget, OrphanEnds, ImageReady, ImageFails,
                  Midnight, vars
    <3> QED
      BY <1>1, <3>1 DEF Releasable
  <2> QED
    BY <2>1, <2>2, <2>3, <2>4 DEF Next, Operator
<1>2. \A r \in Regions, n \in Days :
          <<r, n>> \in public' => image'[r][n] = "available"
  <2>1. ASSUME NEW r \in Regions, NEW n \in Days, NEW old \in {"none", "pending"},
               NEW new, Image!Become(r, n, old, new)
        PROVE  \A q \in Regions, m \in Days :
                   <<q, m>> \in public' => image'[q][m] = "available"
    BY <2>1 DEF Image!Become, Releasable, TypeOK
  <2>2. CASE \E n \in Days : Image!Register(n) \/ \E r \in Regions : Image!Copy(r, n)
    BY <2>1, <2>2 DEF Image!Register, Image!Copy
  <2>3. CASE \E n \in Days, r \in Regions : Image!Complete(r, n)
    BY <2>1, <2>3 DEF Image!Complete
  <2>4. CASE \E n \in Days, r \in Regions : Image!Publish(r, n)
    BY <2>4 DEF Image!Publish, Releasable
  <2>5. CASE UNCHANGED <<image, public>>
    BY <2>5 DEF Releasable
  <2> QED
    BY StepRelease, <2>2, <2>3, <2>4, <2>5 DEF Image!Next
<1> QED
  BY <1>1, <1>2 DEF Releasable

\* On AWS, a run that publishes copies an image that is available: the answer of
\* no call depends on what other runs have done by then.
LEMMA ReleaseStep ==
    ASSUME TypeOK, Releasable, Cloud = "aws", \A f \in Invocations : f.publish,
           NEW b \in Builders, Kept(b), Main(b), run[b].pc \in Releasing, run[b].found,
           run'[b].pc = "idle"
    PROVE  bounds' # bounds
<1>0. /\ run[b] \in Runs /\ run \in [Builders -> Runs]
      /\ \A k \in 0 .. 3 : After(b, k) # "idle"
      /\ Fault => bounds' # bounds
  BY AfterIsStage DEF TypeOK, Fault, bounds
<1>1. \A state : Goto(b, state) => run'[b].pc = state
  BY <1>0, GotoFields
<1>2. \A state : Answer(b, state) /\ state # "idle" => bounds' # bounds
  BY <1>0, <1>1 DEF Answer
<1>3. CASE AddTags(b) \/ EnsurePublic(b)
  BY <1>0, <1>2, <1>3 DEF AddTags, EnsurePublic
<1>4. CASE CopyImage(b)
  <2>1. run[b].pc = "copying" /\ run[b].name \in Days
    BY <1>0, <1>4 DEF CopyImage, Runs
  <2>2. run[b].flags.publish
    BY <2>1 DEF Releasable
  <2>3. <<Home, run[b].name>> \in public
    BY <2>1, <2>2 DEF Kept
  <2>4. image[Home][run[b].name] = "available"
    BY <2>1, <2>3 DEF Releasable
  <2> QED
    BY <1>2, <1>4, <2>4 DEF CopyImage
<1>5. CASE ReplicateImage(b) \/ Copied(b) \/ Opened(b)
  <2>1. ASSUME NEW t, NEW p \in {"copy", "open"},
               run' = [run EXCEPT ![b].pc = p, ![b].todo = t]
        PROVE  FALSE
    BY <1>0, <2>1 DEF Runs
  <2> QED
    BY <1>0, <1>1, <1>5, <2>1 DEF ReplicateImage, Copied, Opened
<1>6. ASSUME NEW r \in Regions, FindCopy(b, r) \/ OpenCopy(b, r)
      PROVE  bounds' # bounds
  <2>1. CASE FindCopy(b, r)
    BY <1>0, <2>1 DEF FindCopy, Runs
  <2>2. CASE OpenCopy(b, r) /\ run' = [run EXCEPT ![b].todo = @ \ {r}]
    BY <1>0, <2>2 DEF OpenCopy, Runs
  <2> QED
    BY <1>0, <1>6, <2>1, <2>2 DEF OpenCopy
<1>7. CASE KeepsWaiting(b)
  BY <1>7 DEF KeepsWaiting, vars, Releasing
<1> QED
  BY <1>3, <1>4, <1>5, <1>6, <1>7 DEF Main, Releasing, GetInstance, FindKey,
     ImportKey, CreateInstance, CreateRefused, Mark, Unmark, FindImage,
     WaitPublicIP, MachineForgotten, DialSSH, Setup, BuildImage, BuildRefused,
     CheckImage, ImageNotFound, Shutdown, Finish

\* Any number of runs that tag, publish and copy an image at the same time do
\* not make each other fail, if all of them publish what they copy.
THEOREM ReleasesFailByFaults ==
    ASSUME Cloud = "aws", \A f \in Invocations : f.publish
    PROVE  Spec => ReleaseFailsOnFaults
<1>1. Init => Releasable
  BY DEF Init, Releasable, Idle
<1>2. ASSUME TypeOK, Inductive, Releasable, [Next]_vars,
             NEW b \in Builders, run[b].pc \in Releasing, run[b].found,
             run'[b].pc = "idle"
      PROVE  bounds' # bounds
  <2>1. ASSUME NEW c \in Builders, Main(c) \/ CallFails(c) \/ Operator(c), c # b
        PROVE  FALSE
    BY <1>2, <2>1, OthersStay DEF Others, Releasing
  <2>2. CASE Main(b)
    BY <1>2, <2>2, ReleaseStep DEF Inductive
  <2>3. CASE CallFails(b) \/ Kill(b)
    BY <1>2, <2>3 DEF CallFails, Kill, Fault, bounds, TypeOK
  <2>4. CASE \E f \in Invocations : Start(b, f)
    BY <1>2, <2>4, StartedRun
  <2>5. CASE Account \/ UNCHANGED vars
    BY <1>2, <2>5 DEF Account, Boot, Forget, OrphanEnds, ImageReady, ImageFails,
                      Midnight, vars, Releasing
  <2> QED
    BY <1>2, <2>1, <2>2, <2>3, <2>4, <2>5 DEF Next, Operator
<1>3. TypeOK /\ Inductive /\ Releasable /\ [Next]_vars =>
        [\A b \in Builders :
            /\ run[b].pc \in {"tag", "publish", "replicate", "copy", "copying", "open"}
            /\ run[b].found
            /\ run'[b].pc = "idle"
            => bounds' # bounds]_vars
  BY <1>2 DEF Releasing
<1> QED
  BY <1>1, <1>3, ReleasableStep, TypeCorrect, InductiveHolds, PTL
     DEF Spec, ReleaseFailsOnFaults
-----------------------------------------------------------------------------
(* One run after the other                                                 *)

\* No call has failed, and no run was killed.
Unspoiled == bounds = <<MaxFaults, MaxKills>>

\* What is true of a single operator's run at each place, whatever has gone
\* wrong before: it has its machine, and found the image that it is to release.
Going(b) ==
    LET r == run[b] IN
    /\ r.name <= today
    /\ r.pc \in Creating \cup {"get"} => r.machine = NoMachine
    /\ r.pc = "import" => ~key
    /\ r.pc \notin Creating \cup {"idle", "get", "unmark", "done"} =>
           r.machine # NoMachine /\ Live(r.machine)
    /\ r.pc \in {"setup", "build"} => machine[r.machine] = "running"
    /\ r.pc \in {"ip", "ssh", "setup", "build"} =>
           ~Exists(Home, r.name) \/ ~Unspoiled
    /\ r.pc = "check" => Exists(Home, r.name) \/ r.name # today
    /\ r.pc \in Releasing => r.found

\* Only failed calls and kills leave a bootstrap-vz behind.
Smooth ==
    /\ orphans # {} => ~Unspoiled
    /\ \A b \in Builders : Going(b)

\* One operator, who asks for all that a release takes.
Alone ==
    /\ Cloud = "aws" /\ \A b, c \in Builders : b = c
    /\ \A f \in Invocations : f.up /\ f.build /\ f.publish

\* A run that goes on as Going says, or ends for a reason.
GoesOn(b) ==
    /\ Going(b)'
    /\ run'[b].pc = "idle" => run[b].pc = "done" \/ Reason(b)

\* The bounds only fall, and the days pass.
LEMMA OnlyWorse ==
    ASSUME TypeOK, [Next]_vars
    PROVE  /\ Unspoiled' => Unspoiled /\ UNCHANGED bounds
           /\ today' \in {today, today + 1}
<1> DEFINE Falls == (faults' = faults \/ Fault) /\ kills' = kills /\ today' = today
<1>1. ASSUME NEW b \in Builders,
             \/ GetInstance(b) \/ FindKey(b) \/ ImportKey(b) \/ CreateInstance(b)
             \/ CreateRefused(b) \/ Mark(b) \/ Unmark(b) \/ FindImage(b)
             \/ WaitPublicIP(b) \/ MachineForgotten(b) \/ DialSSH(b)
             \/ KeepsWaiting(b) \/ Setup(b) \/ BuildImage(b) \/ BuildRefused(b)
      PROVE  Falls
  BY <1>1 DEF GetInstance, FindKey, ImportKey, CreateInstance, CreateRefused,
     Mark, Unmark, FindImage, WaitPublicIP, MachineForgotten, DialSSH,
     KeepsWaiting, Setup, BuildImage, BuildRefused, Answer, cloud, bounds, vars
<1>2. ASSUME NEW b \in Builders,
             \/ CheckImage(b) \/ ImageNotFound(b) \/ AddTags(b)
             \/ EnsurePublic(b) \/ ReplicateImage(b)
             \/ (\E r \in Regions : FindCopy(b, r) \/ OpenCopy(b, r))
             \/ CopyImage(b) \/ Copied(b) \/ Opened(b) \/ Shutdown(b)
             \/ Finish(b) \/ CallFails(b) \/ \E f \in Invocations : Start(b, f)
      PROVE  Falls
  BY <1>2 DEF CheckImage, ImageNotFound, AddTags, EnsurePublic, ReplicateImage,
     FindCopy, OpenCopy, CopyImage, Copied, Opened, Shutdown, Finish, CallFails,
     Start, Answer, cloud, bounds
<1>3. Falls => (Unspoiled' => Unspoiled /\ UNCHANGED bounds) /\ today' = today
  BY DEF Fault, Unspoiled, bounds, TypeOK, Days
<1>4. ASSUME NEW b \in Builders, Kill(b)
      PROVE  ~Unspoiled' /\ today' = today
  BY <1>4 DEF Kill, TypeOK, Unspoiled, bounds
<1>5. CASE Account \/ UNCHANGED vars
  <2>1. /\ faults' = faults \/ Fault
        /\ kills' = kills /\ today' \in {today, today + 1}
    BY <1>5 DEF Account, Boot, Forget, OrphanEnds, ImageReady, ImageFails,
                Midnight, vars, bounds, cloud
  <2> QED
    BY <2>1 DEF Fault, Unspoiled, bounds, TypeOK, Days
<1> QED
  BY <1>1, <1>2, <1>3, <1>4, <1>5 DEF Next, Main, Operator

\* A run that has ended keeps nothing.
LEMMA IdleGoes ==
    ASSUME TypeOK, [Next]_vars, NEW b \in Builders, run'[b] = Idle
    PROVE  Going(b)'
<1>1. 0 <= today'
  BY OnlyWorse DEF TypeOK, Days
<1> QED
  BY <1>1 DEF Going, Idle, Creating, Releasing

\* An error ends the run; a failed call is a reason for that.
LEMMA ExitGoes ==
    ASSUME TypeOK, [Next]_vars, NEW b \in Builders, Exit(b)
    PROVE  Going(b)' /\ (Reason(b) => GoesOn(b)) /\ (Fault => GoesOn(b))
<1>1. run'[b] = Idle
  BY DEF Exit, TypeOK
<1>2. Fault => Reason(b)
  BY DEF Fault, Reason, bounds, TypeOK
<1> QED
  BY <1>1, <1>2, IdleGoes DEF GoesOn

LEMMA UpGoes ==
    ASSUME TypeOK, Alone, OneRented, Releasable, [Next]_vars,
           NEW b \in Builders, Going(b),
           \/ GetInstance(b) \/ FindKey(b) \/ ImportKey(b) \/ CreateInstance(b)
           \/ CreateRefused(b) \/ Mark(b) \/ Unmark(b) \/ FindImage(b)
    PROVE  GoesOn(b)
<1> USE DEF Going, Live, Exists
<1>0. /\ run[b] \in Runs /\ run \in [Builders -> Runs]
      /\ Cloud = "aws" /\ NoMachine \notin Machines
      /\ After(b, 0) \in {"tag", "publish", "replicate", "down", "done"}
  BY AfterIsStage DEF TypeOK, Alone
<1>a. run[b].pc # "idle" => run[b].flags.up /\ run[b].flags.build
  BY DEF Releasable, Alone
<1>b. ASSUME NEW s \in Creating \cup {"find", "ip", "unmark"}, Goto(b, s), run[b].pc # "idle"
      PROVE  /\ run'[b].pc = s /\ run'[b].machine = run[b].machine
             /\ run'[b].name = run[b].name
  BY <1>0, <1>b, GotoFields
<1>c. today' = today
  BY DEF GetInstance, FindKey, ImportKey, CreateInstance, CreateRefused, Mark,
         Unmark, FindImage, cloud
<1>1. CASE GetInstance(b)
  <2>1. ASSUME NEW i \in Listed,
               run' = [run EXCEPT ![b].pc = "find", ![b].machine = i]
        PROVE  GoesOn(b)
    <3>1. i \in Machines /\ machine[i] \in {"pending", "running"}
      BY <1>0, <2>1 DEF Listed, TypeOK
    <3>2. run'[b].pc = "find" /\ run'[b].machine = i /\ run'[b].name = run[b].name
      BY <1>0, <2>1 DEF Runs
    <3> QED
      BY <1>0, <1>1, <3>1, <3>2 DEF GetInstance, GoesOn, Creating, Releasing, cloud
  <2>2. CASE Goto(b, "key")
    BY <1>b, <1>1, <2>2 DEF GetInstance, GoesOn, Creating, Releasing, cloud
  <2> QED
    BY <1>0, <1>a, <1>1, <2>1, <2>2 DEF GetInstance
<1>2. CASE FindKey(b)
  BY <1>b, <1>2 DEF FindKey, GoesOn, Creating, Releasing, cloud
<1>3. CASE ImportKey(b)
  <2>1. run[b].pc = "import" /\ ~key /\ Answer(b, "create")
    BY <1>3 DEF ImportKey
  <2>2. CASE Goto(b, "create")
    BY <1>b, <1>c, <2>1, <2>2 DEF GoesOn, Creating, Releasing
  <2> QED
    BY <2>1, <2>2, ExitGoes DEF Answer
<1>4. CASE CreateInstance(b)
  <2>1. ASSUME NEW i \in Free,
               machine' = [machine EXCEPT ![i] = "pending"],
               run' = [run EXCEPT ![b].machine = i,
                         ![b].pc = IF Cloud = "aws" THEN "mark" ELSE "find"]
        PROVE  GoesOn(b)
    <3>1. i \in Machines /\ machine'[i] = "pending"
      BY <2>1 DEF Free, TypeOK
    <3>2. run'[b].pc = "mark" /\ run'[b].machine = i /\ run'[b].name = run[b].name
      BY <1>0, <2>1 DEF Runs
    <3> QED
      BY <1>0, <1>c, <3>1, <3>2 DEF GoesOn, Creating, Releasing
  <2>2. (Exit(b) /\ Fault) => GoesOn(b)
    BY ExitGoes
  <2> QED
    BY <1>4, <2>1, <2>2 DEF CreateInstance
<1>5. CASE CreateRefused(b)
  <2>1. run[b].pc = "create" /\ Free = {} /\ run[b].machine = NoMachine /\ Exit(b)
    BY <1>5 DEF CreateRefused, Creating
  <2>2. Rented = {}
    BY <2>1 DEF OneRented, Creating
  <2>3. \A c \in Builders : run[c].machine \notin Machines
    BY <1>0, <2>1 DEF Alone
  <2>4. \A i \in Machines : Live(i)
    BY <1>0, <2>1, <2>3 DEF Free
  <2>5. Machines \subseteq lost
    BY <2>2, <2>4 DEF Rented
  <2> QED
    BY <2>1, <2>5, ExitGoes DEF Reason
<1>6. CASE Mark(b)
  <2>1. run[b].pc = "mark" /\ machine' = machine
    BY <1>6 DEF Mark
  <2> QED
    BY <1>b, <1>c, <1>6, <2>1 DEF Mark, GoesOn, Creating, Releasing
<1>7. CASE Unmark(b)
  BY <1>7, ExitGoes DEF Unmark, Reason
<1>8. CASE FindImage(b)
  <2>1. run[b].pc = "find" /\ run[b].flags.build /\ run[b].machine # NoMachine
    BY <1>a, <1>8 DEF FindImage, Creating
  <2>2. CASE ~Exists(Home, run[b].name)
    <3>1. Goto(b, "ip")
      BY <1>8, <2>1, <2>2 DEF FindImage
    <3> QED
      BY <1>b, <1>8, <2>1, <2>2, <3>1 DEF FindImage, GoesOn, Creating, Releasing, cloud
  <2>3. CASE Exists(Home, run[b].name)
    <3>1. run' = [run EXCEPT ![b].pc = After(b, 0), ![b].found = TRUE]
      BY <1>8, <2>1, <2>3 DEF FindImage
    <3>2. /\ run'[b].pc = After(b, 0) /\ run'[b].machine = run[b].machine
          /\ run'[b].name = run[b].name /\ run'[b].found
      BY <1>0, <2>1, <3>1 DEF Runs
    <3> QED
      BY <1>0, <1>8, <2>1, <3>2 DEF FindImage, GoesOn, Creating, cloud
  <2> QED
    BY <2>2, <2>3
<1> QED
  BY <1>1, <1>2, <1>3, <1>4, <1>5, <1>6, <1>7, <1>8

LEMMA BuildGoes ==
    ASSUME TypeOK, Alone, [Next]_vars, NEW b \in Builders, Going(b),
           \/ WaitPublicIP(b) \/ MachineForgotten(b) \/ DialSSH(b)
           \/ KeepsWaiting(b) \/ Setup(b) \/ BuildImage(b) \/ BuildRefused(b)
           \/ CheckImage(b)
    PROVE  GoesOn(b)
<1> USE DEF Going, Live, Exists
<1>0. /\ run[b] \in Runs /\ run \in [Builders -> Runs]
      /\ Cloud = "aws" /\ NoMachine \notin Machines
      /\ After(b, 0) \in {"tag", "publish", "replicate", "down", "done"}
      /\ Unspoiled' => Unspoiled
  BY AfterIsStage, OnlyWorse DEF TypeOK, Alone
<1>b. ASSUME NEW s \in {"setup", "build", "check"}, Goto(b, s), run[b].pc # "idle"
      PROVE  /\ run'[b].pc = s /\ run'[b].machine = run[b].machine
             /\ run'[b].name = run[b].name
  BY <1>0, <1>b, GotoFields
<1>c. run[b].pc = "ip" => Named(b) = {run[b].machine}
  BY <1>0 DEF Named, Creating
<1>1. CASE WaitPublicIP(b)
  <2>1. /\ run' = [run EXCEPT ![b].pc = "ssh", ![b].machine = run[b].machine]
        /\ machine[run[b].machine] = "running"
    BY <1>c, <1>1 DEF WaitPublicIP
  <2>2. /\ run'[b].pc = "ssh" /\ run'[b].machine = run[b].machine
        /\ run'[b].name = run[b].name
    BY <1>0, <2>1 DEF Runs
  <2> QED
    BY <1>0, <1>1, <2>2 DEF WaitPublicIP, GoesOn, Creating, Releasing, cloud
<1>2. ~MachineForgotten(b)
  BY <1>c DEF MachineForgotten
<1>3. CASE DialSSH(b)
  BY <1>0, <1>b, <1>3 DEF DialSSH, Reachable, GoesOn, Creating, Releasing, cloud
<1>4. CASE KeepsWaiting(b)
  BY <1>0, <1>4 DEF KeepsWaiting, GoesOn, Unspoiled, vars, cloud
<1>5. CASE Setup(b)
  <2>1. run[b].pc = "setup" /\ UNCHANGED <<image, machine, today>>
    BY <1>5 DEF Setup, cloud
  <2>2. CASE Goto(b, "build")
    BY <1>0, <1>b, <2>1, <2>2 DEF GoesOn, Creating, Releasing
  <2>3. CASE Exit(b)
    BY <2>1, <2>3, ExitGoes DEF Reason
  <2> QED
    BY <1>5, <2>2, <2>3 DEF Setup
<1>6. CASE BuildImage(b)
  <2>1. /\ run[b].pc = "build" /\ machine' = machine /\ today' = today
        /\ Answer(b, "check")
    BY <1>6 DEF BuildImage
  <2>2. image'[Home][today] = "pending"
    BY <1>6 DEF BuildImage, Register, TypeOK
  <2>3. CASE Goto(b, "check")
    BY <1>0, <1>b, <2>1, <2>2, <2>3 DEF GoesOn, Creating, Releasing
  <2> QED
    BY <2>1, <2>3, ExitGoes DEF Answer
<1>7. CASE BuildRefused(b)
  <2>1. run[b].pc = "build" /\ Exists(Home, today) /\ Exit(b)
    BY <1>7 DEF BuildRefused, Reachable
  <2>2. Reason(b)
    BY <2>1 DEF Reason, Unspoiled
  <2> QED
    BY <2>1, <2>2, ExitGoes
<1>8. CASE CheckImage(b)
  <2>1. run[b].pc = "check"
    BY <1>8 DEF CheckImage
  <2>2. CASE Exists(Home, run[b].name)
    <3>1. run' = [run EXCEPT ![b].pc = After(b, 0), ![b].found = TRUE]
      BY <1>8, <2>2 DEF CheckImage
    <3>2. /\ run'[b].pc = After(b, 0) /\ run'[b].machine = run[b].machine
          /\ run'[b].name = run[b].name /\ run'[b].found
      BY <1>0, <2>1, <3>1 DEF Runs
    <3> QED
      BY <1>0, <1>8, <2>1, <3>2 DEF CheckImage, GoesOn, Creating, cloud
  <2>3. CASE ~Exists(Home, run[b].name)
    <3>1. Exit(b) /\ Reason(b)
      BY <1>8, <2>1, <2>3 DEF CheckImage, Reason
    <3> QED
      BY <3>1, ExitGoes
  <2> QED
    BY <2>2, <2>3
<1> QED
  BY <1>1, <1>2, <1>3, <1>4, <1>5, <1>6, <1>7, <1>8

LEMMA StagesGo ==
    ASSUME TypeOK, Alone, Releasable, [Next]_vars,
           NEW b \in Builders, Kept(b), Going(b), Main(b),
           \/ ImageNotFound(b) \/ AddTags(b) \/ EnsurePublic(b)
           \/ ReplicateImage(b)
           \/ (\E r \in Regions : FindCopy(b, r) \/ OpenCopy(b, r))
           \/ CopyImage(b) \/ Copied(b) \/ Opened(b)
    PROVE  GoesOn(b)
<1> USE DEF Going
<1>0. /\ run[b] \in Runs /\ run \in [Builders -> Runs] /\ Cloud = "aws"
      /\ \A k \in 0 .. 3 : After(b, k) \in Releasing \cup {"down", "done"}
  BY AfterIsStage DEF TypeOK, Alone, Releasing
<1>1. run[b].pc \in Releasing
  BY DEF ImageNotFound, AddTags, EnsurePublic, ReplicateImage, FindCopy,
         OpenCopy, CopyImage, Copied, Opened, Releasing
<1>2. Exit(b) => GoesOn(b)
  <2>1. Exit(b) => run'[b].pc = "idle"
    BY <1>0 DEF Exit, Idle
  <2>2. Exit(b) => bounds' # bounds
    BY <1>1, <2>1, ReleaseStep DEF Alone
  <2> QED
    BY <2>2, ExitGoes DEF Reason
<1>3. UNCHANGED <<machine, today>>
  BY DEF ImageNotFound, AddTags, EnsurePublic, ReplicateImage, FindCopy,
         OpenCopy, CopyImage, Copied, Opened, cloud
<1>4. /\ run'[b].pc \in Releasing \cup {"down", "done"}
      /\ run'[b].machine = run[b].machine /\ run'[b].name = run[b].name
      /\ run'[b].found = run[b].found
      => GoesOn(b)
  BY <1>1, <1>3 DEF GoesOn, Releasing, Creating, Live
<1>5. ASSUME NEW k \in 0 .. 3, Goto(b, After(b, k)) \/ Goto(b, "copy")
      PROVE  GoesOn(b)
  BY <1>0, <1>4, <1>5, GotoFields DEF Releasing
<1>6. ASSUME NEW t, NEW p \in {"copy", "open"},
             run' = [run EXCEPT ![b].pc = p, ![b].todo = t]
      PROVE  GoesOn(b)
  BY <1>0, <1>4, <1>6 DEF Runs, Releasing
<1>7. CASE AddTags(b) \/ EnsurePublic(b) \/ CopyImage(b) \/ Opened(b)
  BY <1>0, <1>2, <1>5, <1>7 DEF AddTags, EnsurePublic, CopyImage, Opened, Answer
<1>8. CASE ReplicateImage(b) \/ Copied(b)
  BY <1>0, <1>5, <1>6, <1>8 DEF ReplicateImage, Copied
<1>9. ASSUME NEW r \in Regions, FindCopy(b, r)
      PROVE  GoesOn(b)
  BY <1>0, <1>4, <1>9 DEF FindCopy, Runs, Releasing
<1>10. ASSUME NEW r \in Regions, OpenCopy(b, r)
       PROVE  GoesOn(b)
  <2>1. CASE run' = [run EXCEPT ![b].todo = @ \ {r}]
    BY <1>0, <1>1, <1>4, <2>1 DEF Runs
  <2> QED
    BY <1>2, <1>10, <2>1 DEF OpenCopy
<1>11. CASE ImageNotFound(b)
  BY <1>2, <1>11 DEF ImageNotFound
<1> QED
  BY <1>7, <1>8, <1>9, <1>10, <1>11

LEMMA EndGoes ==
    ASSUME TypeOK, Alone, [Next]_vars, NEW b \in Builders, Going(b),
           \/ Shutdown(b) \/ Finish(b) \/ CallFails(b) \/ Operator(b)
    PROVE  GoesOn(b)
<1> USE DEF Going
<1>0. /\ run[b] \in Runs /\ run \in [Builders -> Runs]
      /\ Cloud = "aws" /\ NoMachine \notin Machines
  BY DEF TypeOK, Alone
<1>1. CASE Shutdown(b)
  <2>1. run[b].pc = "down" /\ run[b].machine # NoMachine /\ Named(b) # {}
    BY <1>0, <1>1 DEF Shutdown, Named, Live, Creating
  <2>2. Answer(b, "done") /\ today' = today
    BY <1>1, <2>1 DEF Shutdown
  <2>3. CASE Goto(b, "done")
    <3>1. run'[b].pc = "done" /\ run'[b].name = run[b].name
      BY <2>3, GotoFields
    <3> QED
      BY <2>1, <2>2, <3>1 DEF GoesOn, Creating, Releasing
  <2> QED
    BY <2>2, <2>3, ExitGoes DEF Answer
<1>2. CASE Finish(b)
  BY <1>2, ExitGoes DEF Finish, GoesOn
<1>3. CASE CallFails(b)
  BY <1>3, ExitGoes DEF CallFails
<1>4. CASE Kill(b)
  <2>1. bounds' # bounds
    BY <1>4 DEF Kill, bounds, TypeOK
  <2> QED
    BY <1>4, <2>1, ExitGoes DEF Kill, Reason
<1>5. ASSUME NEW f \in Invocations, Start(b, f)
      PROVE  GoesOn(b)
  <2>1. /\ run'[b].pc = "get" /\ run'[b].name = today /\ run'[b].machine = NoMachine
        /\ today' = today /\ today <= today
    BY <1>0, <1>5 DEF Start, Idle, cloud, TypeOK, Days
  <2> QED
    BY <2>1 DEF GoesOn, Creating, Releasing
<1> QED
  BY <1>1, <1>2, <1>3, <1>4, <1>5 DEF Operator

LEMMA AccountGoes ==
    ASSUME TypeOK, [Next]_vars, orphans # {} => ~Unspoiled,
           NEW b \in Builders, Going(b), Account \/ UNCHANGED vars
    PROVE  Going(b)' /\ run'[b] = run[b]
<1>1. UNCHANGED <<run, key>>
  BY DEF Account, Boot, Forget, OrphanEnds, ImageReady, ImageFails, Midnight,
         vars, cloud
<1>2. /\ \A i \in Machines : Live(i) => Live(i)'
      /\ \A i \in Machines : machine[i] = "running" => machine'[i] = "running"
  BY DEF Account, Boot, Forget, OrphanEnds, ImageReady, ImageFails, Midnight,
         vars, cloud, Live, TypeOK
<1>3. \A n \in Days : /\ Exists(Home, n) => Exists(Home, n)'
                      /\ Exists(Home, n)' => Exists(Home, n) \/ orphans # {}
  <2>1. ASSUME NEW r \in Regions, NEW n \in Days, ImageReady(r, n) \/ ImageFails(r, n),
               NEW m \in Days
        PROVE  image'[Home][m] = "none" <=> image[Home][m] = "none"
    BY <2>1 DEF ImageReady, ImageFails, TypeOK
  <2>2. ASSUME NEW i \in Machines, OrphanEnds(i), NEW m \in Days
        PROVE  orphans # {} /\ (Exists(Home, m) => Exists(Home, m)')
    BY <2>2 DEF OrphanEnds, Register, Exists, TypeOK
  <2> QED
    BY <2>1, <2>2 DEF Account, Boot, Forget, Midnight, Exists, vars, cloud
<1>4. /\ run[b].machine \in Machines \cup {NoMachine} /\ run[b].name \in Days
      /\ NoMachine \notin Machines
  BY DEF TypeOK, Runs
<1>5. (Unspoiled' => Unspoiled) /\ today' >= today /\ today \in Nat /\ today' \in Nat
  BY OnlyWorse DEF TypeOK, Days
<1>6. /\ run[b].name <= today'
      /\ run[b].name # today => run[b].name # today'
  BY <1>4, <1>5 DEF Going, Days
<1>7. /\ run[b].pc \in {"ip", "ssh", "setup", "build"} =>
             image'[Home][run[b].name] = "none" \/ ~Unspoiled'
      /\ run[b].pc = "check" =>
             image'[Home][run[b].name] # "none" \/ run[b].name # today'
  BY <1>3, <1>4, <1>5, <1>6 DEF Going, Exists
<1>8. /\ run[b].pc \notin Creating \cup {"idle", "get", "unmark", "done"} =>
             run[b].machine # NoMachine
             /\ machine'[run[b].machine] \in {"pending", "running"}
      /\ run[b].pc \in {"setup", "build"} => machine'[run[b].machine] = "running"
  BY <1>2, <1>4 DEF Going, Creating, Live, AtMachine
<1> QED
  BY <1>1, <1>6, <1>7, <1>8 DEF Going, Exists, Live

\* bootstrap-vz is left behind where a call fails or a run is killed.
LEMMA OrphansSpoil ==
    ASSUME TypeOK, orphans # {} => ~Unspoiled, [Next]_vars
    PROVE  orphans' # {} => ~Unspoiled'
<1>0. Unspoiled' => Unspoiled /\ UNCHANGED bounds
  BY OnlyWorse
<1>1. ASSUME NEW b \in Builders,
             \/ GetInstance(b) \/ FindKey(b) \/ ImportKey(b) \/ CreateInstance(b)
             \/ CreateRefused(b) \/ Mark(b) \/ Unmark(b) \/ FindImage(b)
             \/ WaitPublicIP(b) \/ MachineForgotten(b) \/ DialSSH(b)
             \/ KeepsWaiting(b) \/ Setup(b) \/ BuildImage(b) \/ BuildRefused(b)
      PROVE  orphans' \subseteq orphans
  BY <1>1 DEF GetInstance, FindKey, ImportKey, CreateInstance, CreateRefused,
     Mark, Unmark, Terminate, FindImage, WaitPublicIP, MachineForgotten, DialSSH,
     KeepsWaiting, Setup, BuildImage, BuildRefused, cloud, vars
<1>2. ASSUME NEW b \in Builders,
             \/ CheckImage(b) \/ ImageNotFound(b) \/ AddTags(b)
             \/ EnsurePublic(b) \/ ReplicateImage(b)
             \/ (\E r \in Regions : FindCopy(b, r) \/ OpenCopy(b, r))
             \/ CopyImage(b) \/ Copied(b) \/ Opened(b) \/ Shutdown(b)
             \/ Finish(b) \/ \E f \in Invocations : Start(b, f)
      PROVE  orphans' \subseteq orphans
  BY <1>2 DEF CheckImage, ImageNotFound, AddTags, EnsurePublic, ReplicateImage,
     FindCopy, OpenCopy, CopyImage, Copied, Opened, Shutdown, Terminate, Finish,
     Start, cloud
<1>3. ASSUME NEW b \in Builders, CallFails(b) \/ Kill(b)
      PROVE  bounds' # bounds
  BY <1>3 DEF CallFails, Kill, Fault, bounds, TypeOK
<1>4. CASE Account \/ UNCHANGED vars
  BY <1>0, <1>4 DEF Account, Boot, Forget, OrphanEnds, ImageReady, ImageFails,
                    Midnight, vars, cloud
<1> QED
  BY <1>0, <1>1, <1>2, <1>3, <1>4 DEF Next, Main, Operator

LEMMA SmoothStep ==
    ASSUME TypeOK, Inductive, Alone, OneRented, Releasable, Smooth, [Next]_vars
    PROVE  /\ Smooth'
           /\ \A b \in Builders : run[b].pc \notin {"idle", "done"} /\ run'[b].pc = "idle"
                                  => Reason(b)
<1>1. ASSUME NEW b \in Builders
      PROVE  GoesOn(b) \/ (Going(b)' /\ run'[b] = run[b])
  <2>1. CASE Main(b)
    BY <2>1, UpGoes, BuildGoes, StagesGo, EndGoes DEF Main, Inductive, Smooth
  <2>2. CASE Operator(b) \/ CallFails(b)
    BY <2>2, EndGoes DEF Smooth
  <2>3. CASE Account \/ UNCHANGED vars
    BY <2>3, AccountGoes DEF Smooth
  <2> QED
    BY <2>1, <2>2, <2>3 DEF Next, Alone
<1> QED
  BY <1>1, OrphansSpoil DEF Smooth, GoesOn

\* A run of a single operator takes up whatever earlier runs left, on this day
\* or another: the machine, the key, the image, its copies.  It ends early for
\* one of the reasons that Reason lists and for no other, however many calls
\* failed and runs were killed before.
THEOREM FailuresHaveReasons == ASSUME Alone PROVE Spec => FailsForAReason
<1>1. Init => Smooth /\ OneRented /\ Releasable
  BY DEF Init, Smooth, Going, OneRented, Rented, Live, Releasable, Idle,
         Creating, Releasing
<1>2. TypeOK /\ NoLeak /\ OneRented /\ [Next]_vars => OneRented'
  BY OneRentedStep DEF Alone
<1>3. TypeOK /\ Inductive /\ OneRented /\ Releasable /\ Smooth /\ [Next]_vars
      => Smooth'
  BY SmoothStep
<1>4. TypeOK /\ Inductive /\ OneRented /\ Releasable /\ Smooth /\ [Next]_vars
      => [\A b \in Builders : run[b].pc \notin {"idle", "done"} /\ run'[b].pc = "idle"
                              => Reason(b)]_vars
  BY SmoothStep
<1> QED
  BY <1>1, <1>2, <1>3, <1>4, ReleasableStep, TypeCorrect, InductiveHolds,
     MachinesDoNotLeak, PTL DEF Spec, FailsForAReason
-----------------------------------------------------------------------------
(* How much of a run is left                                               *)

\* Left, place by place.
LeftTable(b) ==
    LET all  == Cardinality(Regions)
        some == Cardinality(run[b].todo)
        At(place, left) == run[b].pc = place => Left(b) = left
    IN  /\ At("idle", 0) /\ At("done", 1) /\ At("down", 2)
        /\ At("open", 3 + some)
        /\ At("copy", 4 + all + 2 * some) /\ At("copying", 5 + all + 2 * some)
        /\ At("replicate", 6 + 3 * all) /\ At("publish", 7 + 3 * all)
        /\ At("tag", 8 + 3 * all) /\ At("check", 9 + 3 * all)
        /\ At("build", 10 + 3 * all) /\ At("setup", 11 + 3 * all)
        /\ At("ssh", 12 + 3 * all) /\ At("ip", 13 + 3 * all)
        /\ At("find", 14 + 3 * all) /\ At("unmark", 14 + 3 * all)
        /\ At("mark", 15 + 3 * all) /\ At("create", 16 + 3 * all)
        /\ At("import", 17 + 3 * all) /\ At("key", 18 + 3 * all)
        /\ At("get", 19 + 3 * all)

LEMMA LeftIs == \A b \in Builders : LeftTable(b)
<1> SUFFICES ASSUME NEW b \in Builders
             PROVE  LeftTable(b)
  OBVIOUS
<1>1. /\ Course["get"] = 15   /\ Course["key"] = 14    /\ Course["import"] = 13
      /\ Course["create"] = 12 /\ Course["mark"] = 11  /\ Course["unmark"] = 10
      /\ Course["find"] = 10  /\ Course["ip"] = 9      /\ Course["ssh"] = 8
      /\ Course["setup"] = 7  /\ Course["build"] = 6   /\ Course["check"] = 5
      /\ Course["tag"] = 4    /\ Course["publish"] = 3 /\ Course["replicate"] = 2
  BY DEF Course
<1>2. Cardinality(Regions) \in Nat
  BY FS_CardinalityType
<1> QED
  BY <1>1, <1>2 DEF LeftTable, Left

\* The regions in a loop of ReplicateImage.
LEMMA LoopIs ==
    ASSUME NEW T \in SUBSET Regions
    PROVE  /\ Cardinality(T) \in Nat /\ Cardinality(Regions) \in Nat
           /\ Cardinality(T) <= Cardinality(Regions)
           /\ \A r \in T : Cardinality(T \ {r}) = Cardinality(T) - 1
  BY FS_Subset, FS_CardinalityType, FS_RemoveElement

\* The stage after a stage is a later one.
LEMMA AfterIsLater ==
    ASSUME NEW b \in Builders
    PROVE  /\ After(b, 0) \in {"tag", "publish", "replicate", "down", "done"}
           /\ After(b, 1) \in {"publish", "replicate", "down", "done"}
           /\ After(b, 2) \in {"replicate", "down", "done"}
           /\ After(b, 3) \in {"down", "done"}
<1>0. /\ Stages[1] = "tag" /\ Stages[2] = "publish" /\ Stages[3] = "replicate"
      /\ Stages[4] = "down" /\ Len(Stages) = 4
  BY DEF Stages
<1>1. ASSUME NEW k \in 0 .. 3, After(b, k) # "done"
      PROVE  \E i \in (k + 1) .. 4 : After(b, k) = Stages[i]
  <2> DEFINE asked == {i \in (k + 1) .. Len(Stages) : run[b].flags[Stages[i]]}
  <2>1. asked # {} /\ asked \subseteq (k + 1) .. 4 /\ After(b, k) = Stages[Min(asked)]
    BY <1>0, <1>1 DEF After
  <2>2. \E i \in asked : \A j \in asked : i <= j
    BY <2>1
  <2>3. Min(asked) \in asked
    BY <2>2 DEF Min
  <2> QED
    BY <2>1, <2>3
<1> QED
  BY <1>0, <1>1

\* The end of a run is nearer than all else.
LEMMA EndIsNear ==
    ASSUME TypeOK, NEW b \in Builders, LeftTable(b), LeftTable(b)',
           run[b].pc # "idle", run'[b].pc = "idle"
    PROVE  Left(b)' < Left(b)
<1>1. run[b].pc \in Places /\ Cardinality(run[b].todo) \in Nat /\ Cardinality(Regions) \in Nat
  BY LoopIs DEF TypeOK, Runs
<1>2. Left(b)' = 0
  BY DEF LeftTable
<1>3. Left(b) \in Nat /\ Left(b) > 0
  BY <1>1 DEF LeftTable, Places
<1> QED
  BY <1>2, <1>3

\* Each step of a run that is not a wait brings it nearer to its end.
LEMMA MainForward ==
    ASSUME TypeOK, NEW b \in Builders, LeftTable(b), LeftTable(b)',
           Main(b) \/ CallFails(b) \/ Kill(b), ~UNCHANGED vars
    PROVE  Left(b)' < Left(b)
<1> DEFINE Nearer == Left(b)' < Left(b)
           all    == Cardinality(Regions)
<1>0. /\ run[b] \in Runs /\ run \in [Builders -> Runs]
      /\ run[b].todo \subseteq Regions /\ all \in Nat
      /\ run[b].pc # "idle"
  BY LoopIs, RunStep DEF TypeOK, Runs
<1>1. Exit(b) => Nearer
  BY <1>0, EndIsNear DEF Exit, Idle
<1>2. \A state : Goto(b, state) => run'[b].pc = state /\ run'[b].todo = run[b].todo
  BY GotoFields
<1>a. \A state : Answer(b, state) => Nearer \/ (run'[b].pc = state /\ run'[b].todo = run[b].todo)
  BY <1>1, <1>2 DEF Answer
<1> SUFFICES Nearer
  OBVIOUS
<1> HIDE DEF Nearer
<1>3. CASE GetInstance(b)
  <2>1. run[b].pc = "get" /\ run'[b].pc \in {"find", "key", "create"}
    <3>1. ASSUME NEW i \in Listed, run' = [run EXCEPT ![b].pc = "find", ![b].machine = i]
          PROVE  run'[b].pc = "find"
      BY <1>0, <3>1 DEF Runs
    <3> QED
      BY <1>2, <1>3, <3>1 DEF GetInstance
  <2> QED
    BY <1>0, <2>1 DEF LeftTable, Nearer
<1>4. CASE CreateInstance(b)
  <2>1. run[b].pc = "create" /\ (Nearer \/ run'[b].pc \in {"mark", "find"})
    <3>1. ASSUME NEW i \in Free,
                 run' = [run EXCEPT ![b].machine = i,
                           ![b].pc = IF Cloud = "aws" THEN "mark" ELSE "find"]
          PROVE  run'[b].pc \in {"mark", "find"}
      BY <1>0, <3>1 DEF Runs
    <3> QED
      BY <1>1, <1>4, <3>1 DEF CreateInstance
  <2> QED
    BY <1>0, <2>1 DEF LeftTable, Nearer
<1>5. CASE WaitPublicIP(b)
  <2>1. run[b].pc = "ip" /\ run'[b].pc = "ssh"
    BY <1>0, <1>5 DEF WaitPublicIP, Runs
  <2> QED
    BY <1>0, <2>1 DEF LeftTable, Nearer
<1>6. CASE FindImage(b) \/ CheckImage(b)
  <2>1. ASSUME NEW f, run' = [run EXCEPT ![b].pc = After(b, 0), ![b].found = f]
        PROVE  run'[b].pc = After(b, 0)
    BY <1>0, <2>1 DEF Runs
  <2>2. Nearer \/ (run[b].pc = "find" /\ run'[b].pc = "ip") \/ run'[b].pc = After(b, 0)
    BY <1>1, <1>2, <1>6, <2>1 DEF FindImage, CheckImage
  <2>3. run[b].pc \in {"find", "check"}
    BY <1>6 DEF FindImage, CheckImage
  <2> QED
    BY <1>0, <2>2, <2>3, AfterIsLater DEF LeftTable, Nearer
<1>7. CASE ReplicateImage(b)
  <2>1. /\ run[b].pc = "replicate"
        /\ \/ run'[b].pc \in {"down", "done"}
           \/ run'[b].pc = "copy" /\ run'[b].todo \subseteq Regions
    <3>1. ASSUME run' = [run EXCEPT ![b].pc = "copy", ![b].todo = Regions \ {Home}]
          PROVE  run'[b].pc = "copy" /\ run'[b].todo \subseteq Regions
      BY <1>0, <3>1 DEF Runs
    <3> QED
      BY <1>2, <1>7, <3>1, AfterIsLater DEF ReplicateImage
  <2> QED
    BY <1>0, <2>1, LoopIs DEF LeftTable, Nearer
<1>8. CASE Copied(b)
  <2>1. /\ run[b].pc = "copy"
        /\ \/ run'[b].pc \in {"down", "done"}
           \/ run'[b].pc = "open" /\ run'[b].todo = Regions
    <3>1. ASSUME run' = [run EXCEPT ![b].pc = "open", ![b].todo = Regions]
          PROVE  run'[b].pc = "open" /\ run'[b].todo = Regions
      BY <1>0, <3>1 DEF Runs
    <3> QED
      BY <1>2, <1>8, <3>1, AfterIsLater DEF Copied
  <2> QED
    BY <1>0, <2>1, LoopIs DEF LeftTable, Nearer
<1>9. ASSUME NEW g \in Regions, FindCopy(b, g)
      PROVE  Nearer
  <2>1. /\ run[b].pc = "copy" /\ g \in run[b].todo
        /\ run'[b].pc \in {"copy", "copying"} /\ run'[b].todo = run[b].todo \ {g}
    BY <1>0, <1>9 DEF FindCopy, Runs
  <2> QED
    BY <1>0, <2>1, LoopIs DEF LeftTable, Nearer
<1>10. ASSUME NEW g \in Regions, OpenCopy(b, g)
       PROVE  Nearer
  <2>1. CASE run' = [run EXCEPT ![b].todo = @ \ {g}]
    <3>1. /\ run[b].pc = "open" /\ g \in run[b].todo
          /\ run'[b].pc = "open" /\ run'[b].todo = run[b].todo \ {g}
      BY <1>0, <1>10, <2>1 DEF OpenCopy, Runs
    <3> QED
      BY <1>0, <3>1, LoopIs DEF LeftTable, Nearer
  <2> QED
    BY <1>1, <1>10, <2>1 DEF OpenCopy
<1>11. CASE KeepsWaiting(b)
  BY <1>11 DEF KeepsWaiting
<1>12. CASE \/ FindKey(b) \/ ImportKey(b) \/ Mark(b) \/ DialSSH(b) \/ Setup(b)
            \/ BuildImage(b)
  <2>1. \/ Nearer
        \/ run[b].pc = "key" /\ run'[b].pc \in {"create", "import"}
        \/ run[b].pc = "import" /\ run'[b].pc = "create"
        \/ run[b].pc = "mark" /\ run'[b].pc \in {"find", "unmark"}
        \/ run[b].pc = "ssh" /\ run'[b].pc = "setup"
        \/ run[b].pc = "setup" /\ run'[b].pc = "build"
        \/ run[b].pc = "build" /\ run'[b].pc = "check"
    BY <1>1, <1>2, <1>a, <1>12 DEF FindKey, ImportKey, Mark, DialSSH, Setup, BuildImage
  <2> QED
    BY <1>0, <2>1 DEF LeftTable, Nearer
<1>13. CASE \/ CreateRefused(b) \/ Unmark(b) \/ MachineForgotten(b) \/ BuildRefused(b)
            \/ ImageNotFound(b) \/ Finish(b) \/ CallFails(b) \/ Kill(b)
  BY <1>1, <1>13 DEF CreateRefused, Unmark, MachineForgotten, BuildRefused,
     ImageNotFound, Finish, CallFails, Kill
<1>14. CASE \/ AddTags(b) \/ EnsurePublic(b) \/ Opened(b) \/ Shutdown(b)
  <2>1. \/ Nearer
        \/ run[b].pc = "tag" /\ run'[b].pc \in {"publish", "replicate", "down", "done"}
        \/ run[b].pc = "publish" /\ run'[b].pc \in {"replicate", "down", "done"}
        \/ run[b].pc = "open" /\ run'[b].pc \in {"down", "done"}
        \/ run[b].pc = "down" /\ run'[b].pc = "done"
    BY <1>1, <1>2, <1>a, <1>14, AfterIsLater DEF AddTags, EnsurePublic, Opened, Shutdown
  <2> QED
    BY <1>0, <2>1, LoopIs DEF LeftTable, Nearer
<1>15. CASE CopyImage(b)
  <2>1. run[b].pc = "copying" /\ (Nearer \/ (run'[b].pc = "copy" /\ run'[b].todo = run[b].todo))
    BY <1>1, <1>a, <1>15 DEF CopyImage
  <2> QED
    BY <1>0, <2>1, LoopIs DEF LeftTable, Nearer
<1> QED
  BY <1>3, <1>4, <1>5, <1>6, <1>7, <1>8, <1>9, <1>10, <1>11, <1>12, <1>13,
     <1>14, <1>15 DEF Main

\* No run goes back, whatever other runs, failing calls and the account do, and
\* each of its steps but the waits brings it nearer to its end, also in the
\* loops over regions.  That it comes to its end then rests on the waits alone.
THEOREM RunsGoForward == Spec => OnlyForward
<1>1. ASSUME TypeOK, \A b \in Builders : LeftTable(b) /\ LeftTable(b)', [Next]_vars,
             ~UNCHANGED vars, NEW b \in Builders, run[b].pc # "idle"
      PROVE  /\ run'[b] # run[b] => Left(b)' < Left(b)
             /\ Main(b) => run'[b] # run[b]
  <2>0. run[b].pc \in Places /\ Left(b) \in Int
    <3>1. /\ run[b].pc \in Places /\ Cardinality(run[b].todo) \in Nat
          /\ Cardinality(Regions) \in Nat /\ LeftTable(b)
      BY <1>1, LoopIs DEF TypeOK, Runs
    <3> QED
      BY <3>1 DEF LeftTable, Places
  <2>1. run'[b] = run[b] => Left(b)' = Left(b)
    BY DEF Left
  <2>2. Main(b) \/ CallFails(b) \/ Kill(b) => Left(b)' < Left(b)
    BY <1>1, MainForward
  <2>3. ASSUME run'[b] # run[b]
        PROVE  Main(b) \/ CallFails(b) \/ Kill(b)
    <3>1. ASSUME NEW c \in Builders, c # b, Main(c) \/ CallFails(c) \/ Operator(c)
          PROVE  FALSE
      BY <1>1, <2>3, <3>1, OthersStay DEF Others
    <3>2. ~Account
      BY <2>3 DEF Account, Boot, Forget, OrphanEnds, ImageReady, ImageFails, Midnight
    <3>3. \A f \in Invocations : ~Start(b, f)
      BY <1>1 DEF Start
    <3> QED
      BY <1>1, <3>1, <3>2, <3>3 DEF Next, Operator
  <2> QED
    BY <2>0, <2>1, <2>2, <2>3
<1>2. TypeOK /\ (\A b \in Builders : LeftTable(b)) /\ (\A b \in Builders : LeftTable(b))'
        /\ [Next]_vars
      => [\A b \in Builders : run[b].pc # "idle" =>
            /\ run'[b] # run[b] => Left(b)' < Left(b)
            /\ Main(b) => run'[b] # run[b]]_vars
  BY <1>1
<1> QED
  BY <1>2, LeftIs, TypeCorrect, PTL DEF Spec, OnlyForward
=============================================================================
