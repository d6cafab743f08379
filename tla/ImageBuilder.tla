---------------------------- MODULE ImageBuilder ----------------------------
(***************************************************************************)
(* imagebuilder: operators run main() against one cloud account to build   *)
(* an image on a machine it rents, tag it, publish it, copy it to all      *)
(* regions and give the machine back.  A run keeps nothing when it ends;   *)
(* what the next one knows is what it finds in the account: a machine with *)
(* the role tag (AWS) or the configured name (GCE), and an image with the  *)
(* name of the day.                                                        *)
(*                                                                         *)
(* Each call of the cloud's API is a step.  It may fail before or after it *)
(* was carried out, and a run may be killed at any point; every error ends *)
(* the run at once (glog.Fatalf), without giving the machine back.         *)
(***************************************************************************)
EXTENDS Integers, Sequences, FiniteSetsExt

CONSTANTS
    Cloud,          \* "aws" or "gce"
    Builders,       \* runs of imagebuilder there may be at the same time
    Machines,       \* machines the account can have
    NoMachine,
    Regions, Home,  \* regions, and the one the run works in
    MaxDay,         \* bound: the last day, and name of an image
    Invocations,    \* the flags the program is run with
    Built,          \* does an image of day 0 exist to begin with?
    ImagesFail,     \* may the cloud fail to complete an image?
    MaxFaults,      \* bound: failing calls and images in a behaviour
    MaxKills        \* bound: killed runs in a behaviour

Stages == <<"tag", "publish", "replicate", "down">>

Flags == [up : BOOLEAN, build : BOOLEAN, tag : BOOLEAN, publish : BOOLEAN,
          replicate : BOOLEAN, down : BOOLEAN]

ASSUME CloudAssumption ==
    /\ Cloud \in {"aws", "gce"}
    /\ NoMachine \notin Machines
    /\ Home \in Regions
    /\ IsFiniteSet(Regions)
    /\ Cloud = "gce" => Regions = {Home}

ASSUME ParameterAssumption ==
    /\ MaxDay \in Nat /\ MaxFaults \in Nat /\ MaxKills \in Nat
    /\ Invocations \subseteq Flags
    /\ Built \in BOOLEAN /\ ImagesFail \in BOOLEAN

Days == 0 .. MaxDay

Places == {"idle", "get", "key", "import", "create", "mark", "unmark", "find",
           "ip", "ssh", "setup", "build", "check", "tag", "publish",
           "replicate", "copy", "copying", "open", "down", "done"}

\* Where a run has a machine in its hands.
AtMachine == {"mark", "unmark", "ip", "ssh", "setup", "build"}

\* What a run holds: `name' is the image name it worked out when it started,
\* `machine' and `found' are its instance and whether its image is not nil,
\* `todo' the regions left in a loop of ReplicateImage and `region' the one
\* it is copying to.
Runs ==
    {r \in [pc : Places, flags : Flags, name : Days,
            machine : Machines \cup {NoMachine}, found : BOOLEAN,
            todo : SUBSET Regions, region : Regions] :
        r.pc \in AtMachine => r.machine \in Machines}

VARIABLES
    \* The account:
    today,     \* the date
    machine,   \* machine -> its state
    marked,    \* machines GetInstance looks for
    key,       \* is the key pair imported?
    image,     \* region -> name -> state
    public,    \* <<region, name>> of public images
    tagged,    \* names of tagged images
    orphans,   \* machines where bootstrap-vz runs on without its run
    \* The runs:
    run,       \* builder -> run
    \* The bounds, and a history read by properties only:
    faults, kills,
    lost       \* machines whose run could not learn or do anything about them

cloud  == <<today, machine, marked, key, image, public, tagged, orphans>>
bounds == <<faults, kills>>
vars   == <<cloud, run, bounds, lost>>

None == [tag |-> FALSE, publish |-> FALSE, replicate |-> FALSE, down |-> FALSE,
         up |-> FALSE, build |-> FALSE]

Idle == [pc |-> "idle", flags |-> None, name |-> 0, machine |-> NoMachine,
         found |-> FALSE, todo |-> {}, region |-> Home]

Image == INSTANCE ImageRelease WITH Names <- Days
-----------------------------------------------------------------------------
Init ==
    /\ today = 0
    /\ machine = [i \in Machines |-> "none"]
    /\ marked = {}
    /\ key \in BOOLEAN /\ (Cloud = "gce" => ~key)
    /\ image = [r \in Regions |-> [n \in Days |->
                   IF r = Home /\ n = 0 /\ Built THEN "available" ELSE "none"]]
    /\ public = {} /\ tagged = {} /\ orphans = {}
    /\ run = [b \in Builders |-> Idle]
    /\ faults = MaxFaults /\ kills = MaxKills
    /\ lost = {}

Goto(b, state) == run' = [run EXCEPT ![b].pc = state]

\* The run of b ends, well or with an error.
Exit(b) == run' = [run EXCEPT ![b] = Idle]

Fault == faults > 0 /\ faults' = faults - 1

\* The answer to a call that was carried out: b goes on, or it gets an error.
Answer(b, state) ==
    \/ Goto(b, state) /\ UNCHANGED faults
    \/ Fault /\ Exit(b)

\* The stages after stage k that the flags of b ask for.
After(b, k) ==
    LET asked == {i \in (k + 1) .. Len(Stages) : run[b].flags[Stages[i]]}
    IN  IF asked = {} THEN "done" ELSE Stages[Min(asked)]
-----------------------------------------------------------------------------
(* main(), up to the build *)

\* Mutant of Start: the date is not that of bootstrap-vz, as in a local time.
StartAhead(b, f) ==
    /\ run[b].pc = "idle"
    /\ Cloud = "gce" => ~f.publish
    /\ run' = [run EXCEPT ![b] = [Idle EXCEPT !.pc = "get", !.flags = f,
                                              !.name = today + 1]]
    /\ UNCHANGED <<cloud, bounds, lost>>

\* The flags and the template are read, and the image gets the name of the
\* day.  On GCE publishing is refused.
Start(b, f) ==
    /\ run[b].pc = "idle"
    /\ Cloud = "gce" => ~f.publish
    /\ run' = [run EXCEPT ![b] = [Idle EXCEPT !.pc = "get", !.flags = f,
                                              !.name = today]]
    /\ UNCHANGED <<cloud, bounds, lost>>

\* Mutant of Listed: a machine that does not run yet is overlooked.
ListedRunning == {i \in marked : machine[i] = "running"}

\* The machines GetInstance may return: on AWS the marked ones that are not
\* going away, on GCE whatever is listed under the configured name.
Listed ==
    IF Cloud = "aws"
    THEN {i \in marked : machine[i] \in {"pending", "running"}}
    ELSE {i \in Machines : machine[i] # "none"}

GetInstance(b) ==
    /\ run[b].pc = "get"
    /\ \/ /\ Listed = {}
          /\ Goto(b, IF ~run[b].flags.up THEN "find"
                     ELSE IF Cloud = "aws" THEN "key" ELSE "create")
       \/ \E i \in Listed :
            run' = [run EXCEPT ![b].pc = "find", ![b].machine = i]
    /\ UNCHANGED <<cloud, bounds, lost>>

\* ensureSSHKey looks for the key pair ...
FindKey(b) ==
    /\ run[b].pc = "key"
    /\ Goto(b, IF key THEN "create" ELSE "import")
    /\ UNCHANGED <<cloud, bounds, lost>>

\* ... and imports it, unless someone else has meanwhile.
ImportKey(b) ==
    /\ run[b].pc = "import"
    /\ IF key THEN Exit(b) /\ UNCHANGED faults
              ELSE Answer(b, "create")
    /\ key' = TRUE
    /\ UNCHANGED <<today, machine, marked, image, public, tagged, orphans,
                   kills, lost>>

Live(i) == machine[i] \in {"pending", "running"}

\* What stands for a new machine.  The account has room for so many live ones,
\* and on GCE nothing else may be listed under the configured name.
Free ==
    IF Cloud = "gce" /\ Listed # {} THEN {}
    ELSE {i \in Machines : ~Live(i) /\ \A b \in Builders : run[b].machine # i}

\* The call is carried out.  On AWS the machine is not marked yet, and if the
\* answer gets lost nobody knows it.
CreateInstance(b) ==
    /\ run[b].pc = "create"
    /\ \E i \in Free :
         /\ machine' = [machine EXCEPT ![i] = "pending"]
         /\ marked' = marked \ {i}
         /\ \/ /\ run' = [run EXCEPT ![b].machine = i,
                             ![b].pc = IF Cloud = "aws" THEN "mark" ELSE "find"]
               /\ lost' = lost \ {i}
               /\ UNCHANGED faults
            \/ /\ Fault
               /\ Exit(b)
               /\ lost' = lost \cup {i}
    /\ UNCHANGED <<today, key, image, public, tagged, orphans, kills>>

CreateRefused(b) ==
    /\ run[b].pc = "create" /\ Free = {}
    /\ Exit(b)
    /\ UNCHANGED <<cloud, bounds, lost>>

\* CreateInstance tags the machine; if that fails, it terminates it again.
Mark(b) ==
    /\ run[b].pc = "mark"
    /\ \/ /\ marked' = marked \cup {run[b].machine}
          /\ Goto(b, "find")
          /\ UNCHANGED faults
       \/ /\ Fault
          /\ marked' \in {marked, marked \cup {run[b].machine}}
          /\ Goto(b, "unmark")
    /\ UNCHANGED <<today, machine, key, image, public, tagged, orphans,
                   kills, lost>>

Terminate(i) ==
    /\ machine' = [machine EXCEPT ![i] = "gone"]
    /\ orphans' = orphans \ {i}

\* Mutant of Unmark: the machine that could not be tagged is left alone.
UnmarkNot(b) ==
    /\ run[b].pc = "unmark"
    /\ Exit(b)
    /\ UNCHANGED <<cloud, bounds, lost>>

Unmark(b) ==
    /\ run[b].pc = "unmark"
    /\ \/ Terminate(run[b].machine) /\ UNCHANGED <<faults, lost>>
       \/ /\ Fault
          /\ Terminate(run[b].machine) \/ UNCHANGED <<machine, orphans>>
          /\ lost' = lost \cup {run[b].machine}
    /\ Exit(b)
    /\ UNCHANGED <<today, marked, key, image, public, tagged, kills>>

Exists(r, n) == image[r][n] # "none"

\* Mutant of FindImage: the image is built whether it exists or not.
FindImageAndBuild(b) ==
    /\ run[b].pc = "find"
    /\ IF run[b].flags.build
       THEN IF run[b].machine = NoMachine
            THEN Exit(b)
            ELSE Goto(b, "ip")
       ELSE run' = [run EXCEPT ![b].pc = After(b, 0),
                               ![b].found = Exists(Home, run[b].name)]
    /\ UNCHANGED <<cloud, bounds, lost>>

\* Mutant of FindImage: an image that exists is taken for published as well.
FindImageIsEnough(b) ==
    /\ run[b].pc = "find"
    /\ IF Exists(Home, run[b].name)
       THEN Goto(b, "down")
       ELSE IF run[b].flags.build /\ run[b].machine # NoMachine
       THEN Goto(b, "ip")
       ELSE Exit(b)
    /\ UNCHANGED <<cloud, bounds, lost>>

\* An image that exists is not built again; a build needs a machine.
FindImage(b) ==
    /\ run[b].pc = "find"
    /\ LET r     == run[b]
           found == Exists(Home, r.name)
       IN  IF r.flags.build /\ ~found
           THEN IF r.machine = NoMachine
                THEN Exit(b)
                ELSE Goto(b, "ip")
           ELSE run' = [run EXCEPT ![b].pc = After(b, 0),
                                   ![b].found = found]
    /\ UNCHANGED <<cloud, bounds, lost>>
-----------------------------------------------------------------------------
(* main(): the build *)

\* What the next call about the machine of b is about: on GCE, whatever has
\* its name by now.
Named(b) ==
    IF Cloud = "aws"
    THEN {i \in {run[b].machine} \ {NoMachine} : machine[i] # "none"}
    ELSE Listed

\* WaitPublicIP: a machine has an address when it runs.
WaitPublicIP(b) ==
    /\ run[b].pc = "ip"
    /\ \E i \in Named(b) :
         /\ machine[i] = "running"
         /\ run' = [run EXCEPT ![b].pc = "ssh", ![b].machine = i]
    /\ UNCHANGED <<cloud, bounds, lost>>

\* Mutant of MachineForgotten: no answer is taken for `not yet'.
MachineForgottenWaits(b) ==
    /\ run[b].pc = "ip"
    /\ Named(b) = {}
    /\ UNCHANGED vars

\* There is no such machine any more: describeInstance returns an error, or
\* nothing, which WaitPublicIP takes for an instance.
MachineForgotten(b) ==
    /\ run[b].pc = "ip"
    /\ Named(b) = {}
    /\ Exit(b)
    /\ UNCHANGED <<cloud, bounds, lost>>

Reachable(b) == machine[run[b].machine] = "running"

\* DialSSH tries until it gets through.
DialSSH(b) ==
    /\ run[b].pc = "ssh"
    /\ Reachable(b)
    /\ Goto(b, "setup")
    /\ UNCHANGED <<cloud, bounds, lost>>

\* WaitPublicIP and DialSSH, and ensurePublic below, ask again and again.
KeepsWaiting(b) ==
    /\ \/ run[b].pc = "ip"
       \/ run[b].pc = "ssh" /\ ~Reachable(b)
       \/ run[b].pc = "publish" /\ image[Home][run[b].name] # "available"
       \/ run[b].pc = "open" /\ run[b].todo # {}
    /\ UNCHANGED vars

\* RunSetupCommands, and BuildImage up to the start of bootstrap-vz.  It may
\* fail though the machine answers and no call does: the session of an scp may
\* start before the goroutine that is to feed it (RemoteExec).
Setup(b) ==
    /\ run[b].pc = "setup"
    /\ \/ Reachable(b) /\ Goto(b, "build")
       \/ Exit(b)
    /\ UNCHANGED <<cloud, bounds, lost>>

Prepared(b) == Setup(b) /\ run'[b].pc = "build"

\* bootstrap-vz works the name of the image out by itself and registers it.
Register ==
    /\ ~Exists(Home, today)
    /\ image' = [image EXCEPT ![Home][today] = "pending"]

BuildImage(b) ==
    /\ run[b].pc = "build"
    /\ Reachable(b)
    /\ Register
    /\ Answer(b, "check")
    /\ UNCHANGED <<today, machine, marked, key, public, tagged, orphans,
                   kills, lost>>

\* The machine is gone, or an image of that name exists.
BuildRefused(b) ==
    /\ run[b].pc = "build"
    /\ ~Reachable(b) \/ Exists(Home, today)
    /\ Exit(b)
    /\ UNCHANGED <<cloud, bounds, lost>>

CheckImage(b) ==
    /\ run[b].pc = "check"
    /\ IF Exists(Home, run[b].name)
       THEN run' = [run EXCEPT ![b].pc = After(b, 0), ![b].found = TRUE]
       ELSE Exit(b)
    /\ UNCHANGED <<cloud, bounds, lost>>
-----------------------------------------------------------------------------
(* main(): the stages after the build *)

ImageNotFound(b) ==
    /\ run[b].pc \in {"tag", "publish", "replicate"}
    /\ ~run[b].found
    /\ Exit(b)
    /\ UNCHANGED <<cloud, bounds, lost>>

\* AddTags, which GCE does not have.
AddTags(b) ==
    /\ run[b].pc = "tag" /\ run[b].found
    /\ IF Cloud = "gce"
       THEN Exit(b) /\ UNCHANGED <<tagged, faults>>
       ELSE tagged' = tagged \cup {run[b].name} /\ Answer(b, After(b, 1))
    /\ UNCHANGED <<today, machine, marked, key, image, public, orphans, kills,
                   lost>>

\* Mutant of MakePublic: nobody waits for the image.
MakePublicAtOnce(b, r) == public' = public \cup {<<r, run[b].name>>}

\* ensurePublic waits until the image is available.
MakePublic(b, r) ==
    /\ image[r][run[b].name] = "available"
    /\ public' = public \cup {<<r, run[b].name>>}

EnsurePublic(b) ==
    /\ run[b].pc = "publish" /\ run[b].found
    /\ MakePublic(b, Home)
    /\ Answer(b, After(b, 2))
    /\ UNCHANGED <<today, machine, marked, key, image, tagged, orphans, kills,
                   lost>>

\* ReplicateImage: GCE images are everywhere already; on AWS the image is
\* looked for in every other region ...
ReplicateImage(b) ==
    /\ run[b].pc = "replicate" /\ run[b].found
    /\ IF Cloud = "gce"
       THEN Goto(b, After(b, 3))
       ELSE run' = [run EXCEPT ![b].pc = "copy", ![b].todo = Regions \ {Home}]
    /\ UNCHANGED <<cloud, bounds, lost>>

FindCopy(b, r) ==
    /\ run[b].pc = "copy" /\ r \in run[b].todo
    /\ run' = [run EXCEPT
                 ![b].todo = @ \ {r},
                 ![b].pc = IF Exists(r, run[b].name) THEN "copy" ELSE "copying",
                 ![b].region = r]
    /\ UNCHANGED <<cloud, bounds, lost>>

\* Mutant of CopyImage: without a client token the second call is refused.
CopyImageOnce(b) ==
    /\ run[b].pc = "copying"
    /\ LET r == run[b].region
           n == run[b].name
       IN  IF ~Exists(r, n) /\ image[Home][n] = "available"
           THEN /\ image' = [image EXCEPT ![r][n] = "pending"]
                /\ Answer(b, "copy")
           ELSE UNCHANGED <<image, faults>> /\ Exit(b)
    /\ UNCHANGED <<today, machine, marked, key, public, tagged, orphans, kills,
                   lost>>

\* ... and copied to where it is not.  The client token, made of the name and
\* the region, gives a second call the copy that the first one started.
CopyImage(b) ==
    /\ run[b].pc = "copying"
    /\ LET r == run[b].region
           n == run[b].name
       IN  IF Exists(r, n)
           THEN UNCHANGED image /\ Answer(b, "copy")
           ELSE IF image[Home][n] = "available"
           THEN /\ image' = [image EXCEPT ![r][n] = "pending"]
                /\ Answer(b, "copy")
           ELSE UNCHANGED <<image, faults>> /\ Exit(b)
    /\ UNCHANGED <<today, machine, marked, key, public, tagged, orphans, kills,
                   lost>>

\* Mutant of Copied: only the image itself is made public.
CopiedPrivately(b) ==
    /\ run[b].pc = "copy" /\ run[b].todo = {}
    /\ Goto(b, After(b, 3))
    /\ UNCHANGED <<cloud, bounds, lost>>

\* All copies there, they are made public like the image itself.
Copied(b) ==
    /\ run[b].pc = "copy" /\ run[b].todo = {}
    /\ IF run[b].flags.publish
       THEN run' = [run EXCEPT ![b].pc = "open", ![b].todo = Regions]
       ELSE Goto(b, After(b, 3))
    /\ UNCHANGED <<cloud, bounds, lost>>

OpenCopy(b, r) ==
    /\ run[b].pc = "open" /\ r \in run[b].todo
    /\ MakePublic(b, r)
    /\ \/ run' = [run EXCEPT ![b].todo = @ \ {r}] /\ UNCHANGED faults
       \/ Fault /\ Exit(b)
    /\ UNCHANGED <<today, machine, marked, key, image, tagged, orphans, kills,
                   lost>>

Opened(b) ==
    /\ run[b].pc = "open" /\ run[b].todo = {}
    /\ Goto(b, After(b, 3))
    /\ UNCHANGED <<cloud, bounds, lost>>

\* Mutant of Shutdown: a machine that does not run yet is not given back.
ShutdownRunning(b) ==
    /\ run[b].pc = "down"
    /\ IF run[b].machine = NoMachine \/ \A i \in Named(b) : machine[i] = "pending"
       THEN Goto(b, "done") /\ UNCHANGED <<machine, orphans, faults>>
       ELSE \E i \in Named(b) : Terminate(i) /\ Answer(b, "done")
    /\ UNCHANGED <<today, marked, key, image, public, tagged, kills, lost>>

\* Shutdown gives back the machine the run found or created.
Shutdown(b) ==
    /\ run[b].pc = "down"
    /\ IF run[b].machine = NoMachine
       THEN Goto(b, "done") /\ UNCHANGED <<machine, orphans, faults>>
       ELSE IF Named(b) = {}
       THEN Exit(b) /\ UNCHANGED <<machine, orphans, faults>>
       ELSE \E i \in Named(b) : Terminate(i) /\ Answer(b, "done")
    /\ UNCHANGED <<today, marked, key, image, public, tagged, kills, lost>>

Finish(b) ==
    /\ run[b].pc = "done"
    /\ Exit(b)
    /\ UNCHANGED <<cloud, bounds, lost>>
-----------------------------------------------------------------------------
(* What goes wrong, and what the cloud does *)

\* bootstrap-vz may survive the run that started it.
LeaveBuild(b) ==
    IF run[b].pc = "build" /\ Reachable(b)
    THEN orphans' \in {orphans, orphans \cup {run[b].machine}}
    ELSE UNCHANGED orphans

\* Does b call the cloud or its machine, and give up if that fails?  DialSSH
\* never does, and CreateInstance deals with the failures of Mark and Unmark.
Calls(b) ==
    \/ run[b].pc \in {"get", "key", "import", "create", "find", "ip", "setup",
                     "build", "check", "copying"}
    \/ run[b].pc \in {"tag", "publish", "replicate"} /\ run[b].found
    \/ run[b].pc \in {"copy", "open"} /\ run[b].todo # {}
    \/ run[b].pc = "down" /\ run[b].machine # NoMachine

\* A call that was not carried out.
CallFails(b) ==
    /\ Calls(b)
    /\ Fault
    /\ LeaveBuild(b)
    /\ Exit(b)
    /\ UNCHANGED <<today, machine, marked, key, image, public, tagged, kills,
                   lost>>

\* An operator, or the host of imagebuilder, kills the run.
Kill(b) ==
    /\ run[b].pc # "idle"
    /\ kills > 0 /\ kills' = kills - 1
    /\ LeaveBuild(b)
    /\ lost' = IF run[b].pc \in {"mark", "unmark"}
               THEN lost \cup {run[b].machine} ELSE lost
    /\ Exit(b)
    /\ UNCHANGED <<today, machine, marked, key, image, public, tagged, faults>>

Midnight ==
    /\ today < MaxDay
    /\ today' = today + 1
    /\ UNCHANGED <<machine, marked, key, image, public, tagged, orphans, run,
                   bounds, lost>>

Boot(i) ==
    /\ machine[i] = "pending"
    /\ machine' = [machine EXCEPT ![i] = "running"]
    /\ UNCHANGED <<today, marked, key, image, public, tagged, orphans, run,
                   bounds, lost>>

\* The cloud lists a terminated machine for a while, and then no more.
Forget(i) ==
    /\ machine[i] = "gone"
    /\ machine' = [machine EXCEPT ![i] = "none"]
    /\ marked' = marked \ {i}
    /\ UNCHANGED <<today, key, image, public, tagged, orphans, run, bounds, lost>>

\* bootstrap-vz without its run comes to an end.
OrphanEnds(i) ==
    /\ i \in orphans
    /\ orphans' = orphans \ {i}
    /\ Register \/ UNCHANGED image
    /\ UNCHANGED <<today, machine, marked, key, public, tagged, run, bounds, lost>>

ImageReady(r, n) ==
    /\ image[r][n] = "pending"
    /\ image' = [image EXCEPT ![r][n] = "available"]
    /\ UNCHANGED <<today, machine, marked, key, public, tagged, orphans, run,
                   bounds, lost>>

ImageFails(r, n) ==
    /\ image[r][n] = "pending"
    /\ ImagesFail /\ Fault
    /\ image' = [image EXCEPT ![r][n] = "failed"]
    /\ UNCHANGED <<today, machine, marked, key, public, tagged, orphans, run,
                   kills, lost>>
-----------------------------------------------------------------------------
Main(b) ==
    \/ GetInstance(b) \/ FindKey(b) \/ ImportKey(b)
    \/ CreateInstance(b) \/ CreateRefused(b) \/ Mark(b) \/ Unmark(b)
    \/ FindImage(b) \/ WaitPublicIP(b) \/ MachineForgotten(b) \/ DialSSH(b)
    \/ KeepsWaiting(b) \/ Setup(b) \/ BuildImage(b) \/ BuildRefused(b) \/ CheckImage(b)
    \/ ImageNotFound(b) \/ AddTags(b) \/ EnsurePublic(b) \/ ReplicateImage(b)
    \/ (\E r \in Regions : FindCopy(b, r) \/ OpenCopy(b, r))
    \/ CopyImage(b) \/ Copied(b) \/ Opened(b) \/ Shutdown(b) \/ Finish(b)

Operator(b) == (\E f \in Invocations : Start(b, f)) \/ Kill(b)

Account ==
    \/ \E i \in Machines : Boot(i) \/ Forget(i) \/ OrphanEnds(i)
    \/ \E r \in Regions, n \in Days : ImageReady(r, n) \/ ImageFails(r, n)
    \/ Midnight

Next ==
    \/ \E b \in Builders : Main(b) \/ CallFails(b) \/ Operator(b)
    \/ Account

\* The program runs and the cloud answers; machines boot, terminated ones
\* disappear and images get ready.  And an operator whose run has ended starts
\* the next one.  Runs that start over and over are not overtaken each time they
\* copy a file, and one that asks for its machine every few seconds does not
\* miss each moment at which others give it back or rent another.
Fairness ==
    /\ \A b \in Builders :
         /\ WF_vars(Main(b)) /\ WF_vars(\E f \in Invocations : Start(b, f))
         /\ SF_vars(Prepared(b)) /\ SF_vars(WaitPublicIP(b) \/ MachineForgotten(b))
    /\ \A i \in Machines : WF_vars(Boot(i)) /\ WF_vars(Forget(i))
                           /\ WF_vars(OrphanEnds(i))
    /\ \A r \in Regions, n \in Days : WF_vars(ImageReady(r, n))

Spec == Init /\ [][Next]_vars /\ Fairness
-----------------------------------------------------------------------------
TypeOK ==
    /\ today \in Days
    /\ machine \in [Machines -> {"none", "pending", "running", "gone"}]
    /\ marked \subseteq Machines
    /\ key \in BOOLEAN
    /\ image \in [Regions -> [Days -> Image!States]]
    /\ public \subseteq Regions \X Days
    /\ tagged \subseteq Days
    /\ orphans \subseteq Machines
    /\ run \in [Builders -> Runs]
    /\ faults \in 0 .. MaxFaults /\ kills \in 0 .. MaxKills
    /\ lost \subseteq Machines

\* What a run with the flags of b owes to whoever started it.
Delivered(b) ==
    LET r == run[b] IN
    /\ r.flags.tag => r.name \in tagged
    /\ r.flags.publish => <<Home, r.name>> \in public
    /\ r.flags.replicate => \A g \in Regions :
           /\ Exists(g, r.name)
           /\ r.flags.publish => <<g, r.name>> \in public
    /\ r.flags.down /\ r.machine # NoMachine => ~Live(r.machine)

\* A run that comes to its end has done all it was asked for, whatever earlier
\* runs left half done and other runs do at the same time.
SuccessMeansDelivered ==
    \A b \in Builders : run[b].pc = "done" => Delivered(b)

\* What a run has done by the time it gets to a place.
Kept(b) ==
    LET r == run[b]
        Past(stages) == r.pc \in stages \cup {"copy", "copying", "open", "down", "done"}
    IN
    /\ r.found => Exists(Home, r.name)
    /\ Past({"publish", "replicate"}) /\ r.flags.tag => r.name \in tagged
    /\ Past({"replicate"}) /\ r.flags.publish => <<Home, r.name>> \in public
    /\ r.pc \in {"copy", "copying"} =>
           \A g \in Regions \ r.todo :
               Exists(g, r.name) \/ (r.pc = "copying" /\ g = r.region)
    /\ r.pc = "open" =>
           /\ r.flags.publish
           /\ \A g \in Regions : Exists(g, r.name)
           /\ \A g \in Regions \ r.todo : <<g, r.name>> \in public
    /\ r.pc \in {"down", "done"} /\ r.flags.replicate =>
           \A g \in Regions : /\ Exists(g, r.name)
                              /\ r.flags.publish => <<g, r.name>> \in public
    /\ r.pc = "done" /\ r.flags.down /\ r.machine # NoMachine =>
           ~Live(r.machine)

OneListed ==
    Cloud = "gce" => /\ \A i, j \in Listed : i = j
                     /\ \A b \in Builders : run[b].pc \notin {"mark", "unmark"}

\* Why a run that gets to its end has delivered: no step takes back what a run
\* relies on, and no machine with the configured name hides another one.
Inductive == OneListed /\ \A b \in Builders : Kept(b)

\* aws.go:481 "will terminate to prevent leaking": a machine that later runs
\* cannot find is one whose creator is dealing with it, or lost control of it.
NoLeak ==
    Cloud = "aws" => \A i \in Machines : Live(i) /\ i \notin marked =>
        \/ i \in lost
        \/ \E b \in Builders : run[b].machine = i
                               /\ run[b].pc \in {"mark", "unmark"}

\* One machine is rented at a time, and the next run takes over the machine
\* that a failed one left behind.
OneMachine == Cardinality({i \in Machines : Live(i) /\ i \notin lost}) <= 1

\* What may end a run of a single operator before it is done.
Reason(b) ==
    \* a call failed, or the run was killed;
    \/ bounds' # bounds
    \* the machine could not be tagged;
    \/ run[b].pc = "unmark"
    \* scp was overtaken;
    \/ run[b].pc = "setup"
    \* it was midnight, and bootstrap-vz took another name than the run;
    \/ run[b].pc \in {"build", "check"} /\ run[b].name # today
    \* bootstrap-vz, left behind by a failed or killed run, was faster;
    \/ run[b].pc = "build" /\ Exists(Home, today) /\ bounds # <<MaxFaults, MaxKills>>
    \* the account is full of machines that earlier runs lost.
    \/ run[b].pc = "create" /\ Machines \subseteq lost

\* Whatever earlier runs left in the account, half a release included, a run
\* takes it up: it fails for one of the reasons above, and for no other.
FailsForAReason ==
    [][\A b \in Builders :
          run[b].pc \notin {"idle", "done"} /\ run'[b].pc = "idle" => Reason(b)]_vars

\* Runs that tag, publish and copy an image at the same time do not make each
\* other fail: there only a failing call, or a kill, ends a run early.
ReleaseFailsOnFaults ==
    [][\A b \in Builders :
          /\ run[b].pc \in {"tag", "publish", "replicate", "copy", "copying", "open"}
          /\ run[b].found
          /\ run'[b].pc = "idle"
          => bounds' # bounds]_vars

\* Two places of the code wait without a timeout.
WaitsForImage(b) ==
    LET r == run[b] IN
    \/ r.pc = "publish" /\ image[Home][r.name] = "failed"
    \/ r.pc = "open" /\ \E g \in r.todo : image[g][r.name] = "failed"

WaitsForMachine(b) ==
    run[b].pc = "ssh" /\ ~Live(run[b].machine)

\* A run ends unless it waits for an image that failed, or dials a machine
\* that another run has given back: nothing else can hold it up for ever.
RunEnds ==
    \A b \in Builders :
        run[b].pc # "idle" ~>
            run[b].pc = "idle" \/ WaitsForImage(b) \/ WaitsForMachine(b)

\* How much of a run is left: a loop of ReplicateImage has two calls for each
\* region it has yet to look at, or one.
Course ==
    [get |-> 15, key |-> 14, import |-> 13, create |-> 12, mark |-> 11,
     unmark |-> 10, find |-> 10, ip |-> 9, ssh |-> 8, setup |-> 7, build |-> 6,
     check |-> 5, tag |-> 4, publish |-> 3, replicate |-> 2]

Left(b) ==
    LET r    == run[b]
        all  == Cardinality(Regions)
        some == Cardinality(r.todo)
    IN  IF r.pc = "idle" THEN 0
        ELSE IF r.pc = "done" THEN 1
        ELSE IF r.pc = "down" THEN 2
        ELSE IF r.pc = "open" THEN 3 + some
        ELSE IF r.pc = "copy" THEN 4 + all + 2 * some
        ELSE IF r.pc = "copying" THEN 5 + all + 2 * some
        ELSE 4 + 3 * all + Course[r.pc]

\* No run goes back, whatever else happens to it, and it goes on with each of
\* its steps but the waits.  It is what makes RunEnds true where those end.
OnlyForward ==
    [][\A b \in Builders : run[b].pc # "idle" =>
          /\ run'[b] # run[b] => Left(b)' < Left(b)
          /\ Main(b) => run'[b] # run[b]]_vars

Released(n) == \A g \in Regions : <<g, n>> \in public

\* Run again and again, imagebuilder gets the image of the day out to all
\* regions and its machine given back, whatever call failed, run was killed or
\* midnight passed before.
EventuallyReleased ==
    /\ <>[]Released(today)
    /\ []<>(\A i \in Machines : Live(i) => i \in lost)

\* The runs implement ImageRelease.
ReleaseSpec == Image!Spec
=============================================================================
