# A verification development for kube-deploy

This directory models the programs of this repository in TLA+, checks the
models with TLC and proves the most important facts about them with TLAPS.
`PROJECT.json` names, for every definition, the lines it stands for, and for
every run and theorem what it is about; this file says how to read them.

    tlc -workers 2 -config reconcile_safety.cfg MCAddonReconcile
    tlapm AddonReconcileProofs.tla

## 1. The system

kube-deploy collects independent deployment automations.  Three of its
directories hold programs of its own; the rest are pointers to other
repositories (`min-turnup`, `upup`, `protokube`, `navops-launch`), prose
(`docs`) and vendored Go packages (`imagebuilder/vendor`).

| component | state it keeps | operations | modelled by |
|---|---|---|---|
| `kube_addon_manager/kube-addon-update.sh`, names | none | `get-suffix`, `get-basename`, comparison in `match-objects` | `AddonNames` |
| the same, one cycle over one kind | in a cycle: the plan (`nsnames_for_delete`, `for_update`, `new_files`) and bash's job table; across cycles nothing | list, match, stop, wait, create and update, wait, report | `AddonReconcile`, promise: `AddonSync` |
| `kube_addon_manager/kube-addons.sh` | docker's images; on the API server the namespace, its token, secrets, admission controls | load images, create in the background, wait for a token, run the update every interval | `AddonManager` |
| `imagebuilder` (`main.go`, `builder.go`, `aws.go`, `gce.go`) | none of its own; in the cloud account machines, marks, a key pair, images, copies, permissions | find or create a machine, build, tag, publish, replicate, shut down | `ImageBuilder`, promise: `ImageRelease` |
| `imagebuilder/pkg/.../executor`, with the build in `builder.go` | a session per call, the goroutines that feed scp; on the machine the build's directory and scripts | run, put, mkdir over SSH or locally, deferred clean-up | `RemoteExec`, promise: `BuildSession` |
| `imagebuilder` templates and configuration | none | parse, defaults, name of the image | the date in the name only |
| `docker-multinode` | two docker daemons and their containers, docker's configuration file, `subnet.env`, mounts | turn a node up as master or worker, with flannel or CNI, and down | `NodeTurnup` |

### kube_addon_manager

The manager is a set of bash processes.  `kube-addons.sh` prepares what add-ons
need and then calls `kube-addon-update.sh` again and again; that script
reconciles five kinds of objects at the same time, each in a subshell, and each
subshell forks one job per object to stop or manifest to create.  They share
the directory of manifests, which an operator may change at any time, and the
API server, which fails, times out after doing what it was asked, and has other
clients.

Hard here: a whole cycle acts on one answer of the server; jobs race; a retry
meets the effects of the try before; nothing is remembered across a crash, so
that only the next cycle can find out what was left undone; and what the shell
knows of its jobs changes with every fork.

Correct means: a cycle takes away only what no manifest names; new objects are
made after obsolete ones have gone; what is left undone is due to a job that
failed; cycles end, do not overlap and start when the namespace is ready; and
cycle after cycle the server comes to be what the manifests say.

### imagebuilder

Operators run a program that rents a machine, lets bootstrap-vz build an image
on it, tags, publishes and copies the image, and gives the machine back.  Every
error ends the program at once.  What connects runs is the cloud account: the
next run looks for a machine with the role tag (AWS) or the configured name
(GCE) and for an image with the name of the day.

Hard here: runs of several operators at once; a run killed, or failing, between
two stages; a call that took effect though it failed; bootstrap-vz surviving
its run; machines nobody can find any more; waits without a limit; a name worked
out twice, hours apart.

Correct means: a run that ends well has delivered all it was asked for; machines
are found again or given back; running it again finishes what was left; images
are public only when they can be used.

What happens on the machine is a matter of the executors: each call over SSH has
a session that runs one command, and Put and Mkdir feed scp from a goroutine that
races with the start of the command.  Hard here: the goroutine may come too late,
its error is read without waiting for it, no call has a timeout, and bootstrap-vz
goes on when its connection or its program is gone.  Correct means: the build is
only taken for done when the image is registered; its directory goes, and never
under a bootstrap-vz that still runs; builds end.

### docker-multinode

`master.sh` and `worker.sh` turn a node up over whatever an earlier turn-up
left: they take the old containers down, start a second docker daemon for etcd
and flannel, rewrite the configuration of the first one for flannel's subnet,
restart it, and start kubelet.  Hard here: the old bootstrap daemon is signalled
and not waited for; CNI and bootstrap mode rewrite one file in turn; most
failures are not looked at; and after a reboot only the main daemon returns.
Correct means: turned up twice is turned up, in either mode; docker is in the
subnet flannel leased; a node that was turned down stays down; the user's options
stay; and scripts end.

## 2. Plan

The order is that of what can be lost: objects of a running cluster, then
machines and images, then the set-up of a node.

1. `AddonNames`, `AddonReconcile`, `AddonSync` and their proofs: done.
2. `ImageBuilder`, `ImageRelease` and their proofs: done.
3. `AddonManager` and its proofs: done.
4. `RemoteExec`, `BuildSession` and their proofs: done.
5. `NodeTurnup` and its proofs: done.
6. The safety properties of all runs as theorems: done.
7. The safety halves of the liveness properties as theorems, a rank that every
   step lowers or the failures that a standstill must have cost: done.

Left:

* A composition of `AddonManager` with `AddonReconcile` for two kinds, to replace
  the fairness that the first assumes of cycles (`ReconcileEnds`) by the second's
  `CycleEnds`.  What each takes of the other is stated and checked on its own
  today: `OneCycle` there, `CycleEnds` here.
* `ImageBuilder` over `BuildSession` by refinement: the actions `Setup`,
  `BuildImage`, `CallFails` and `LeaveBuild` take no more than that module
  promises, which is argued in its comment and not checked.
* `--localhost` on AWS: a run whose machine is the one it runs on.

## 3. Modules

| module | what it is |
|---|---|
| `AddonNames` | names as `<namespace>/<name>`, cut at dashes: base name, suffix, match |
| `AddonSync` | what a reconciliation promises to whoever edits the manifests |
| `AddonReconcile` | `reconcile-objects` for one kind, with its jobs, the server and the directory |
| `AddonManager` | `kube-addons.sh` from its start to its loop |
| `ImageRelease` | what imagebuilder promises about images |
| `ImageBuilder` | `main()` by several operators against one account |
| `BuildSession` | what `main()` counts on when it has an image built |
| `RemoteExec` | `RunSetupCommands` and `BuildImage` over either executor, with the machine they work on |
| `NodeTurnup` | `master.sh`, `worker.sh` and `turndown.sh` on one machine |
| `...Proofs` | theorems about the module of that name; `AddonCycleProofs` has those about what a whole cycle of `AddonReconcile` leaves, reports and comes to, `ImageBuilderRunsProofs` those about runs that follow or meet each other |
| `MC...` | instances for TLC |

### AddonReconcile

Names are sequences of the pieces between dashes (`DnsV1` is
`kube-system/dns-v1`, cut at each dash): that is all `get-basename` and
`get-suffix` look at.  `disk` says what a path holds: an object's name, `Absent`
(no file, or none of this kind and label), or `Unnamed` (a file kubectl or the
parser cannot name).  `pc` follows `reconcile-objects`: *idle* between cycles,
*list* while `get-addon-paths-from-disk` reads files one by one, *match* in the
two nested loops of `match-objects`, *stop* and *create* in the two rounds of
jobs.  Each read of a file is a step, since files change between reads: by the
time a job creates an object, its file has been read up to four times.

A job is one of the script's background functions.  `stop-object`,
`create-object` and `update-object` (a stop and then a create, whatever the stop
returned) share the steps of `run-until-success`; a try succeeds, is rejected by
the server, or fails before or after the server carried it out.  `listed` is the
job table: a fork drops the jobs that have already ended, which is how bash
behaves in a script, and `wait-for-jobs` looks at that table only.

A crash takes the cycle and its jobs.  `dirty` and `stopFailed` are history: did
anybody else change anything in this cycle, and on which objects did
`stop-object` give up?

Left out: contents of objects (never compared), `kubectl` calls still under way
on the server after a crash, labels, the wording of logs.

### AddonManager

A background job is its number of tries left.  `made` says which job created an
object, so that one can ask whose token a secret holds; `SafeUsername` is the
conversion of `tr -s`, which gives users whose names differ in their separators
only one and the same secret.  Docker may hang; a load then times out, and may have
worked all the same.  `LoadAgain` is the pass after a failure, with the restart
of docker if a load timed out.  A crash takes the script and its jobs and starts
it again.

Left out: `ensure_python` and the environment file (variables of the shell),
the length of the interval, the order of the lines of `known_tokens.csv`.

### ImageBuilder

`run[b]` is the run of operator `b`: where it is in `main()`, its flags, the name
it worked out, its machine, whether its image is nil, and what is left of the
loops of `ReplicateImage`.  Each call of the cloud's API is a step; `Answer` lets
it fail after it was carried out, `CallFails` before.  `CreateInstance` on AWS
has three calls (`create`, `mark`, `unmark`) because a machine is only found by
later runs once it is marked.  Commands on the machine before bootstrap-vz are
one step, bootstrap-vz another: it registers the image, and may go on without
its run (`orphans`).  The first may end the run although no call fails, since the
executors race for scp's input (`ssh.go:42`, the module `RemoteExec`).

Of the cloud, which is not in the repository, the model assumes: an image name is
given once per region; a copy is refused while the image is pending, and a
repeated copy with the same client token gives the first one; a GCE instance
name is taken as long as the instance is listed; terminated machines are listed
for a while; a machine that is up answers.

Left out: `--localhost`, which rents no machine; looking up subnet and security
group, which changes nothing; more than one surviving bootstrap-vz per machine.

### RemoteExec

`pc` is the call that `BuildImage` is in, and `phase` how far: a session is opened,
`CombinedOutput` asks for the command (*exec*), settles the input (*stdin*) and
waits (*wait*), and the error of the goroutine is read (*check*); *copy* is a Put
of the local executor.  `OnSuccess` and `OnError` say where a call leads, the
latter to what was deferred until then.  `feeder[u]` is the goroutine of upload
`u`, `session[u]` the flags of Go's SSH client and what scp has received.  A
goroutine that asks for its pipe after the command was started finds that there
is none, and closing it ends the program; one that asks between the client's
check and its note finds its pipe and the client's empty input in place
(`copier`).  `link` is the connection, which may be reset or fall silent.

Of what is not in the repository, the model assumes: the server keeps input that
arrives before the command is started; scp without any input makes nothing and
ends well, and with half a file fails; sent into a directory that is not there, a
directory takes its place; `git clone` makes the directories it needs; and
bootstrap-vz needs its code and its template.

Left out: builds on one machine at the same time, whose directories and scripts
have random names, and what the commands print.

### NodeTurnup

`pc` walks through `kube::multinode::turndown`, then `bootstrap_daemon`, `start_etcd`,
`start_flannel` and `restart_docker`, or `ensure_docker_settings` with CNI, and
ends in *done*, *fatal* (`kube::log::fatal`) or, once killed, in *idle*.  `Start` may begin any script in any of
these, over whatever is there.  `boxes` counts the containers of each service in
each daemon, up to two, which stands for more; containers survive their daemon and
come back with it.  Where a script ignores an answer, the failing call is an action
that goes on (`CallFails`, `RemovalFails`, `KillBootOnly`, `RestartFails`).

The options of docker's file are sequences, in their order, since what the `sed`
expressions match depends on it: `--mtu=.* --bip=.*` takes everything from the
first of the two to the end of the line, and appended options go to the end of the
line.  With apt and yum the line is quoted, so what is appended stands behind the
closing quote (`outside`), and docker gets nothing of the line.  `quote` says how
the closing quote stands to the last option: directly behind it (*tight*), it is
taken away when that option is replaced, as the note at `docker-bootstrap.sh:122`
says (*lost*); docker then gets nothing of the line, and the shell that reads it
may stop before docker starts.

External are docker (containers restart with it, a dying daemon answers for a
while), etcd, and flannel (it keeps its lease while it can, leases expire when
nobody renews them, and `subnet.env` is written once etcd has the configuration).
`odd` and `stale` are history: did containers of an earlier time come back behind a
new bootstrap daemon (*revived*), or could some not be removed (*kept*)?  And was a
script killed between docker's file and the restart, with docker not started since?

Left out: bridges, mounts under `/var/lib/kubelet`, the `MountFlags` drop-in (but
that docker is restarted for it), backup copies of docker's file, checks of the
platform, and `DOCKER_OPTS` lines in comments.  Where there is neither systemctl
nor apt, the line is read by the shell of an init script.

## 4. What TLC checks

| run | shows |
|---|---|
| `reconcile_safety` | three versions of one add-on and another add-on, two manifests, so that jobs race to create one object; a failing call or crash anywhere: obsolete objects go before new ones come (`OldGoneFirst`), nothing a manifest names is stopped (`KeepsCurrent`), differences left behind are failed jobs, and there are none before a call has failed (`CycleSettles`), and cycles implement `AddonSync` (`SyncSpec`) |
| `reconcile_converges` | an upgrade, with a failure and a change by someone else anywhere: every cycle ends (`CycleEnds`), and the server converges to the manifests once disturbances stop (`Convergence`) |
| `manager` | cycles start when namespace and token are there, and one at a time; a user whose job is over goes without a secret only if calls failed as often as a job tries, or if another user with the same safe name has it (`OnlySharedUnserved`; two of the three users share one); only images docker took too long for are missing; the manager keeps updating unless it gave up on the namespace; everything gets created unless calls fail as often as a job tries |
| `image_safety` | two operators on AWS, one or both of them only republishing, with midnight anywhere: a run that ends well has delivered (`SuccessMeansDelivered`), no machine leaks but by a lost answer, a failed termination or a kill (`NoLeak`), the runs implement `ImageRelease` (`ReleaseSpec`), and do not make each other fail while they release (`ReleaseFailsOnFaults`) |
| `image_alone` | one operator again and again, with midnight anywhere: machines are taken over (`OneMachine`), a run fails for one of the listed reasons, and not on what earlier ones left in the account (`FailsForAReason`), the image of the day is released in the end and the machine returned (`EventuallyReleased`) |
| `image_gce` | two operators with one machine name, with and without the tagging that GCE refuses: a run that ends well has delivered (`SuccessMeansDelivered`), and a run ends although the machine of that name may be another's, on its way out, or gone (`RunEnds`) |
| `image_ends` | two operators sharing a machine: a run ends, unless its image failed or its machine was given back by the other (`RunEnds`) |
| `remote_build` | a build over SSH or on the machine itself: success means an image (`SuccessMeansBuilt`), nothing is taken away under bootstrap-vz (`LeftInPeace`), the directory goes (`CleansUp`), only an overtaken goroutine makes an upload go missing unseen, or a build fail in which no call fails (`OvertakenOnly`), builds end unless the machine falls silent (`BuildEnds`), and they implement `BuildSession` (`SessionSpec`) |
| `node_up` | nine kinds of machine turned up in either mode and down in any order, with a failure, a killed script and a reboot: docker is in flannel's subnet (`Networked`), there is one of each service (`OneOfEach`), a node that is down stays down (`DownIsDown`), CNI gets rid of flannel's subnet on machines where it looks for it, and on no other (`CniClears`), and leaves other options alone (`OthersStay`), scripts end (`ScriptEnds`), and a node comes up again whatever was left (`ComesUpAgain`) |
| `undashed_names`, `lost_failure`, `yum_settings` | section 7 |

Each property fails for at least one plausible slip in the code, written out as
a *mutant* before the definition it changes; `PROJECT.json` pairs them.

### Bounds

* `MaxFaults`, `MaxEdits`, `MaxKills`, `MaxCrashes` bound what goes wrong in a
  whole behaviour.  One of each, anywhere, is what a cycle or a run must
  tolerate without help; since nothing is remembered across cycles and runs, a
  second fault meets a state the first one could have left, and initial states
  of `AddonReconcile` are all combinations of manifests and objects.  `manager`
  has two faults with two tries, so that a job can use up its tries.
* `NumTries` is 2, against 60 for a cycle (the interval over the delay) and up to
  100 for the jobs of the start: one try that fails and one that
  meets its effect is the shortest interesting history.
* Two paths and at most four names: two jobs that race, two objects with one
  base name, an add-on next to it.  The proofs are for any number.
* `node_up` has one failure and one reboot in a behaviour, but any number of
  scripts: what one failure leaves is met by every later script.  Two subnets are
  enough for docker's to be another than flannel's.  The nine machines are the
  combinations of host, role and options that take different ways, one of them with
  the closing quote directly behind an option that is replaced; the proofs are for
  any machines and bounds.
* `remote_build` has one failure, which may hit any call of either executor, and
  two setup commands, so that one fails after another one has run.
* Two operators, two regions, and one machine more than operators that may lose
  one.  On GCE a machine name is one machine, and a second one stands for what is
  rented under the name once the first is gone.  `MaxDay` is 1 where midnight is
  among the questions (`image_safety`, `image_alone`): one midnight.
* `manager` has three users, two of which share a safe name, and one limit.
* The objects of the add-on runs are in one namespace.  A namespace is the first
  part of a name and counts only where names are compared, and the theorems of
  `AddonNamesProofs` are about names in any.
* Symmetry is used where only safety is checked (`reconcile_safety`, `image_safety`),
  over paths, machines and operators, which the models treat alike.

### Fairness

* `AddonReconcile`: the script and each job take steps if they can.  The host
  schedules them, and kubectl returns, as every call has a timeout or an answer.
  Nothing is assumed of operators, other clients and faults.
* `AddonManager`: the same, and that cycles end and the server makes a token for a
  new namespace.  The first is `CycleEnds` of `AddonReconcile`, the second what
  the script itself waits for.  A wait that goes on is a step of its own
  (`StillNoToken`), so that a wait without end is no deadlock and no progress.
* `ImageBuilder`: the program takes steps and the cloud does what it was asked to:
  machines boot, terminated ones disappear, images become available or fail,
  and bootstrap-vz ends.  `EventuallyReleased` also needs an operator who starts
  the program again, which is the documented way to go on after a failure.  No
  fairness makes calls succeed; the bounds make failures end.  Two steps have strong
  fairness, since what competes with them may come first any number of times, though
  not every time.  `Prepared`: the executors' race may end a run before bootstrap-vz
  starts, and a run that is started again and again gets past it in the end; the
  goroutine has to be scheduled later than a round trip to the machine to lose.
  `WaitPublicIP` or `MachineForgotten`: a run asks for its machine every few seconds,
  and it does not miss every moment in which other runs give machines back and rent
  others of that name.
* `RemoteExec`: the program and its goroutines are scheduled, a machine that can be
  reached answers, and bootstrap-vz ends.  A machine that falls silent is not
  fair, and `BuildEnds` excepts it, as no call has a timeout.
* `NodeTurnup`: a script goes on, flannel writes its file once it can, a daemon that
  was asked to end does, and an operator starts docker where a script that was
  stopped has left it down.  Starting scripts is not fair; `ComesUpAgain` is about
  an operator who keeps trying.

### What the bounds leave open

`Convergence` assumes that from some point on no two manifests share a base name
(`WellNamed`) and that no path occurs in another one as a pattern (`NoShadows`).
Both are needed: section 7.  `KeepsUpdating` is checked with images in the
directory; with an empty one, the glob stays unexpanded and the manager tries to
load it for ever (`Pattern`).

## 5. What is proved

For every value of the constants that satisfies the named assumptions:

| theorem | says |
|---|---|
| `AddonNamesProofs!MatchIsSameBase`, `SameVersionIsSameName` | the test of `match-objects` is equality of base names, and of matching names equal suffixes mean equal names |
| `AddonReconcileProofs!TypeCorrect`, `InductiveHolds` | `TypeOK`, `Inductive` |
| `AddonReconcileProofs!DeletedBeforeCreated` | `OldGoneFirst` |
| `AddonReconcileProofs!CurrentIsKept` | `KeepsCurrent` |
| `AddonReconcileProofs!ImplementsSync` | `AddonReconcile` implements `AddonSync` |
| `AddonCycleProofs!CyclesSettle`, `SmoothHolds` | `CycleSettles`; `PlannedOnce` and `Smooth`, how racing jobs get along |
| `AddonCycleProofs!ReportedFailuresAreReal` | `ErrorsAreReal`: a cycle reports no failure that no job had |
| `AddonCycleProofs!UnversionedNotUpdated`, `UnversionedKept` | without a separator nothing is updated, and nothing that is named is stopped |
| `AddonCycleProofs!CycleAdvances`, `JobsDescend` | `ScriptAdvances`, `JobsWindDown`: ranks of the script and of its jobs |
| `AddonCycleProofs!NeverFurther` | `Nearer` and `OnlyWanted` of `AddonSync` |
| `AddonManagerProofs!TypeCorrect`, `ReadyFirst`, `OneCycleAtATime`, `LateAloneMissing` | `TypeOK`, `ReadyBeforeUpdates`, `OneCycle`, `OnlyLateMissing` |
| `AddonManagerProofs!UnservedShare` | `OnlySharedUnserved`, for any users: no premise says that their names differ in more than separators |
| `AddonManagerProofs!EveryTryCounts` | `TriesNotWasted`: a try that was in vain was a call that failed |
| `AddonManagerProofs!GivesUpOnFaults`, `CompleteBehindJobs` | `GaveUp`, and an object missing behind all jobs, take `NumTries` failed calls |
| `ImageBuilderProofs!TypeCorrect` | `TypeOK` |
| `ImageBuilderProofs!MachinesDoNotLeak` | `NoLeak` |
| `ImageBuilderProofs!InductiveHolds`, `EndMeansDelivered` | what a run has done stays done; `SuccessMeansDelivered` |
| `ImageBuilderProofs!ImplementsRelease` | `ImageBuilder` implements `ImageRelease` |
| `ImageBuilderProofs!WhatIsOut`, `NoneTakenBack` | `PublicIsAvailable`, `CopiesAreOfImages` and `NothingTakenBack` of `ImageRelease` |
| `ImageBuilderRunsProofs!OneIsRented` | `OneMachine`, on AWS, for one operator |
| `ImageBuilderRunsProofs!ReleasesFailByFaults` | `ReleaseFailsOnFaults`, on AWS, if all runs publish what they copy |
| `ImageBuilderRunsProofs!FailuresHaveReasons` | `FailsForAReason`, on AWS, for one operator who asks for machine, build and publishing, after any history of failures, kills and midnights |
| `ImageBuilderRunsProofs!RunsGoForward` | `OnlyForward`: a rank of each run |
| `RemoteExecProofs!TypeCorrect`, `InductiveHolds` | `TypeOK`, `Inductive` |
| `RemoteExecProofs!SuccessIsBuilt`, `OvertakingIsTheOnlyWay` | `SuccessMeansBuilt`, `OvertakenOnly` |
| `RemoteExecProofs!NotDisturbed`, `DirectoryGoes` | `LeftInPeace`, `CleansUp` |
| `RemoteExecProofs!ImplementsSession`, `EndsAreHonest` | `RemoteExec` implements `BuildSession`, and so has its `Honest` |
| `RemoteExecProofs!BuildsAreBounded` | `BuildIsBounded`: a rank of the build, its goroutines and the machine |
| `NodeTurnupProofs!TypeCorrect`, `InductiveHolds` | `TypeOK`, `Inductive` |
| `NodeTurnupProofs!BridgeInLease`, `OneEach`, `TurnedDown` | `Networked`, `OneOfEach`, `DownIsDown` |
| `NodeTurnupProofs!SubnetsCleared` | `CniClears`: flannel's subnet goes where the CNI script can clear it (`Clearable`, systemd), and never goes where it cannot (apt and yum) |
| `NodeTurnupProofs!OtherOptionsStay` | `OthersStay` |
| `NodeTurnupProofs!SettingsWhereTaken` | `NewSettings`, on hosts whose file can take the options (`Takes`): not with yum and without systemctl, not where an option is added behind the closing quote, not where a replaced one stands before it |
| `NodeTurnupProofs!FatalOnlyBehindOld` | `FatalBehindOld`: what alone makes an undisturbed script fatal, while docker's file has its closing quote |
| `NodeTurnupProofs!ScriptsGoForward` | `OnlyForward`: a rank of the scripts |

The arguments:

* **AddonReconcile.**  None of the three properties is inductive: that a job does
  not stop a current object depends on what two nested loops did long before.
  `Inductive` says what the cycle knows at each place: every manifest is still
  to be listed or is in `files`; the files before `pos` do not describe the
  object at hand; what is planned for deletion is obsolete, what is planned as an
  update is outdated; an obsolete object is still to be matched or in the plan;
  a matched file has its object or an update; a running job is in the job
  table, so that the wait is a wait.  All of it is under `~dirty`: once somebody
  else interferes, a cycle knows nothing, and the next one starts afresh.
  `CyclesSettle` and `CurrentIsKept` then combine it with `WellNamed` and
  `NoShadows`, and `ImplementsSync` reads each step off it.  That a cycle before
  any failure leaves nothing needs two facts more, since several jobs may want the
  same: no object is in two places of the plan (`PlannedOnce`), so what a job is
  to stop is there until it does; and a create that fails finds the object there
  (`Smooth`), so whoever lost the race has lost nothing.  For its end,
  `ScriptAdvances` orders phases, files still to list, objects still to match,
  files still to scan and jobs still to fork, and `JobsWindDown` counts the tries
  of a job; what others do in a cycle raises neither.
* **AddonManager.**  The namespace is there if it has a token, and past the wait
  there is a token; a cycle counts one per kind while the script is in it.  A pass
  over the images that has had no failure is through with what docker has or
  took too long for (`Passed`), and only such a pass ends the loop.
  `TriesNotWasted` says of every job begun since the last start that what it has
  not created has cost it a failed call per try: it holds because secrets and
  limits are begun behind the wait for the namespace, and because a crash takes the
  jobs with the script, which then begins them anew.
* **ImageBuilder.**  `Kept` follows a run through the stages: what it has found,
  tagged, published and copied by the time it gets to a place.  It is preserved
  because nothing in the model, other operators included, takes an image, a tag
  or a permission away.  `OneListed` is what makes it true on GCE, where a run
  knows its machine by name only: no two machines are listed.  `OneIsRented` adds
  that a run which is about to create a machine has found none, so that by `NoLeak`
  there is none but lost ones; `ReleasesFailByFaults` that what is public is
  available and so can be copied, which is why the order of publishing and copying
  matters.  `FailuresHaveReasons` follows the one run through its places (`Going`, in
  `Smooth`): it has a machine that lives, and past the build the image it has looked
  up is there; `Alone` is its premise.  Each place is left for the next one or for a
  reason, which `Reason` names by the state the step is taken in, so that it holds
  after any number of failures and not only before the first.  `WhatIsOut` and
  `NoneTakenBack` are proved of `ImageRelease` and carried over by the
  refinement.  `Left` counts the calls a run has before it, three for each region
  that `ReplicateImage` has yet to copy to, wait for and open.
* **RemoteExec.**  `Progress` says what the caller knows, `Feeding` what a session
  and its goroutine have done, `Claims` that an upload that was not overtaken is
  there, `Tidy` what is on the disk.  The important part of `Progress` is that a
  caller which went on while bootstrap-vz runs has lost its connection, so that the
  clean-up it then tries fails too (`LeftInPeace`).  `Flawless` adds that while no call
  has failed and no goroutine was overtaken, no session, no program and no
  bootstrap-vz has failed either.  `Remaining` is the sum of what is left to the
  caller, each upload, the machine and the process; every step lowers it.
* **NodeTurnup.**  `Emptied` is what turndown has left unless something could not be
  removed; from it, flannel of the script is the only one, and `Leased` says that the
  file it waited for is that flannel's, whose lease cannot expire while it runs.
  `Filed` carries the subnet on into docker's file and docker, and says that where the
  file takes options its quote is never lost.  `Lined` is about the
  line itself: options that the scripts add come behind those of the user, and an
  mtu before a bip, so that the CNI script's pattern finds both and takes nothing
  else; where a user's bip stands first (`Clearable` fails), it never comes to
  match.  `Counted` counts the containers at each place.  `Way` and `Waiting` are what
  these need of the control flow.  `Undisturbed` adds what holds until something
  fails: what is in the bootstrap daemon is what this script has put there, and
  docker runs but during its restart; each fatal end of a script is then seen to be
  closed, except where the daemon it has just started found the pid file of the
  old one; that docker starts at all needs the quote (`QuoteStaysLost` says that a
  lost one does not return).  `Left` is the place of a script on its course, in which CNI restarts
  docker earlier than bootstrap mode does.

Assumptions: those declared with the constants (a separator is one of the two
the code uses; a path occurs in itself; the region of a run is one of the
regions, of which there are finitely many, and GCE has one; bounds are natural
numbers).

Of the runs' properties all those of safety are proved, with the premises named in
the table.  The `Inductive` invariants are steps of these proofs: TLC has agreed
with each of them on the instances of the runs, to which they are not added, since
the proofs hold for every instance.  Only model-checked is what is out of the
prover's reach: liveness
(`CycleEnds`, `Convergence`, `KeepsUpdating`, `EventuallyComplete`, `RunEnds`,
`EventuallyReleased`, `BuildEnds`, `ScriptEnds`, `ComesUpAgain`).  Their safety
halves are theorems: where something must end, that every step lowers a rank and
nothing raises it, so that an endless behaviour is one in which somebody who could
go on does not, or waits (`CycleEnds`, `RunEnds`, `BuildEnds`, `ScriptEnds`); and
where the manager stands still or something stays missing, what that has cost in
failed calls (`KeepsUpdating`, `EventuallyComplete`).  What is left to TLC is that
the fairness of section 4 makes the steps happen and the waits end, and
`Convergence`, `EventuallyReleased` and `ComesUpAgain`, which are about many cycles,
runs and scripts.  `ScriptAdvances`, `JobsWindDown`, `TriesNotWasted`,
`OnlyForward`, `BuildIsBounded`, `FatalBehindOld` and what is inherited from
`AddonSync`, `ImageRelease` and `BuildSession` are in no run, like the `Inductive`
invariants: TLC has agreed with them on the same instances.

No module has recursive operators; `SelectInSeq` and `FoldLeft` of the community modules are used
where the order of options or characters matters.  `NodeTurnupProofs` derives what it
needs of the former from its definition; nothing is proved from that of
`SafeUsername`, a fold, since `UnservedShare` holds for any conversion.

## 6. What is not modelled

* `--localhost` on AWS (section 2): the run then takes its own machine for the
  instance, and can neither tag nor terminate it.  `RemoteExec` has its executor.
* Parsing of templates and configuration: no state and no concurrency.
* The conformance tests of docker-multinode, manifests, pointers to other
  repositories, prose and vendored code.
* How the manager is supervised.  A crash takes the script with its jobs; were
  only the script killed, two cycles could overlap.

## 7. Where the code and its documents disagree

Each of these is a run whose property TLC finds violated.

* `undashed_names`: `kube-addon-update.sh:26` says that controllers are not
  updated unless their name is changed.  The base name of `kube-system/dns` is
  `kube`, cut at the last dash, and so is that of `kube-system/ui`: one replaces
  the other.  Only kinds with versions are concerned: `UnversionedKept`.
* `lost_failure`: `wait-for-jobs` (`kube-addon-update.sh:161`) says it waits for
  all subprocesses and returns 1 unless all succeeded.  A job that ended before
  the last fork is no longer in the shell's table, and its failure is lost.
  Failures are lost, never made up: `ReportedFailuresAreReal`.
* `yum_settings`: `docker-bootstrap.sh:65` has a branch for hosts with yum and
  without systemctl (`:85` names Amazon Linux and CentOS 6) that calls systemctl.
  Docker keeps its old bridge, and `:88` prints that it was restarted with flannel's
  settings.  Elsewhere the message is true of a docker that runs, but for lines in
  quotes (below): `SettingsWhereTaken`.

Met on the way, and handled by premises or by what a property does not claim:

* Add-ons.  A manifest whose path occurs, as a pattern, in the path of a matched one
  is never created (`kube-addon-update.sh:425`, `NoShadows`).  An update whose stop
  gave up counts as a success (`:274`; `CycleSettles` lists it under what is left
  behind).  A controller without a dash in its name that is moved from `kube-system`
  to `kube-public` is updated, while `:373` says that it is treated like a different
  object (`:399`).
* The manager.  Images whose loading timed out count as loaded, and docker is
  restarted only if another load failed (`kube-addons.sh:149`, `OnlyLateMissing`).
  With an empty directory of images the manager tries to load the pattern itself for
  ever (`:146`).  An admission control is created in the background, and the first
  update does not wait for it, though `:222` says it comes before any other add-on.
  The wait for the token of the namespace has no end (`:192`, `GaveUp`).  Users whose
  names differ only in separators (`system:dns`, `system_dns`) have one secret name
  (`:42`): the second one never gets a secret, its job fails until its tries are used
  up, and its token is nowhere on the server.  It happens in the run `manager`, and
  `OnlySharedUnserved` says that it is the only such way.
* imagebuilder.  A run that passes midnight before bootstrap-vz registers the image
  does not find it (`bootstrapvz.go:62`, one of the reasons of `FailsForAReason`).  With `--publish=false` nothing waits for the image to be available before
  it is copied, which AWS refuses (`aws.go:716`; premise of `ReleasesFailByFaults`).
  The command that `imagebuilder/README.md:83` gives for GCE fails after the build,
  because GCE images cannot be tagged (`gce.go:296`) and tagging is on by default
  (`main.go:57`).
* Executors.  Every temporary script stays on the machine if it was run over SSH: its
  removal asks for a second command in a session that runs one (`interface.go:62`,
  `ssh.go:117`; `CleansUp` claims the script for the local executor only).  A
  goroutine that comes late for its pipe ends the program or leaves an empty upload
  unnoticed (`ssh.go:42`, `OvertakenOnly`); a run of imagebuilder then ends with no
  call having failed (a reason of `FailsForAReason`).
* docker-multinode.  `turndown` signals the old bootstrap daemon and does not wait for
  it (`common.sh:277`); a script that meets it still there fails, with nothing else
  wrong, and `FatalOnlyBehindOld` says that this is the only way it can while docker's
  file has its closing quote.  A line of
  options in quotes gets flannel's behind the closing
  quote, and docker none at all (`docker-bootstrap.sh:114`, `Takes`).  An option that
  stands directly before the closing quote takes it away when it is replaced (the
  note at `:122`): docker then has none of the options, or does not start, and
  nothing puts the quote back (`TakesQuote`).  With CNI,
  the script looks at docker's file on hosts with systemd only (`cni-plugin.sh:20`):
  with apt and yum flannel's `--bip` stays in it for good, which is the second half of
  `CniClears`.  With systemd,
  `--bip` before `--mtu` is logged as removed and stays, and a user's `--mtu` takes
  all options behind it away (`cni-plugin.sh:24`; `Clearable`, and a premise of
  `OthersStay`).  A script that is stopped between docker's file and the restart
  leaves docker in the old subnet, and a CNI run after it does not restart it
  (`cni-plugin.sh:28`; the exception `stale` of `CniClears`, which shows that nothing
  else leaves docker there).
  Containers that a daemon kept because it was killed first come back with the next
  one (*kept*, *revived*).  The wait for docker to end has no limit
  (`docker-bootstrap.sh:79`).  "Done" is printed though docker or the kubelet failed
  to start (`NewSettings` and `Networked` are about a docker that runs).
