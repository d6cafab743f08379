----------------------------- MODULE NodeTurnup -----------------------------
(***************************************************************************)
(* One machine under docker-multinode: master.sh or worker.sh, with etcd   *)
(* and flannel in a docker daemon of their own ("boot") or, with USE_CNI,   *)
(* in the main one, and turndown.sh.  All of them turn the node down first. *)
(*                                                                         *)
(* Docker, etcd and flannel are modelled by how the scripts use them.       *)
(* Bridges, mounts under /var/lib/kubelet, the copies of docker's file and  *)
(* what a container is started with are left out.                           *)
(***************************************************************************)
EXTENDS Integers, SequencesExt

CONSTANTS
    Nodes,       \* the kinds of machine: host, role and docker's file
    Subnets,     \* what flannel may lease
    MaxFaults,   \* bound: calls that fail, scripts killed
    MaxReboots   \* bound: reboots

ASSUME BoundAssumption == MaxFaults \in Nat /\ MaxReboots \in Nat

Places   == {"main", "boot"}                       \* the docker daemons
Services == {"etcd", "flannel", "kubelet", "proxy"}

\* The options in docker's file.  `inside' stand where docker gets them; those
\* in `outside' come after the closing quote, where the shell that reads the
\* file takes them for a command, and the line sets nothing.  `present' says
\* that there is such a line, `private' that MountFlags is not shared; `quote'
\* whether the closing one is "apart" from the last option, "tight" behind it,
\* or "lost".
Names  == {"mtu", "bip", "other"}
Values == {"none", "user"} \cup Subnets
Confs  == [present : BOOLEAN, inside : Seq(Names), outside : Seq(Names),
           mtu : Values, bip : Values, private : BOOLEAN,
           quote : {"apart", "tight", "lost"}]

Position(c, name) == SelectInSeq(c.inside, LAMBDA x : x = name)

\* A file as a user leaves it.
WellFormed(c) ==
    /\ c.outside = <<>> /\ c.quote # "lost"
    /\ ~c.present => c.inside = <<>> /\ c.quote = "apart"
    /\ \A i, j \in DOMAIN c.inside :
         c.inside[i] = c.inside[j] => i = j \/ c.inside[i] = "other"
    /\ c.mtu \in {"none", "user"} /\ (c.mtu = "none" <=> Position(c, "mtu") = 0)
    /\ c.bip \in {"none", "user"} /\ (c.bip = "none" <=> Position(c, "bip") = 0)

ASSUME NodeAssumption ==
    /\ Nodes \subseteq [host : {"systemd", "apt", "yum"},
                        role : {"master", "worker"}, conf : Confs]
    /\ \A n \in Nodes : WellFormed(n.conf)
    /\ Subnets \cap {"none", "user", "unset"} = {}

VARIABLES
    node,     \* the machine as it was found
    \* The script:
    pc,       \* where it is
    job,      \* "boot", "cni" or "down"
    sourced,  \* FLANNEL_SUBNET and FLANNEL_MTU, once sourced
    \* The daemons:
    boot,     \* the bootstrap daemon: "none", "up", or "dying" once killed
    docker,   \* the main one: "running", "stopping", "stopped"
    options,  \* the mtu and bip it was started with
    conf,     \* the file with its options
    boxes,    \* daemon -> service -> containers, 2 standing for more
    asking,   \* daemons whose flannel has yet to write its file
    pods,     \* are there containers of pods?
    \* The network:
    net,      \* is flannel's configuration in etcd?
    lease,    \* the subnet leased to this machine
    file,     \* the subnet in subnet.env
    \* The bounds, and a history read by properties only:
    faults, reboots,
    odd,      \* since the script started: containers "revived" or "kept"
    stale     \* since docker came up: a script stopped before its restart?

script  == <<pc, job, sourced>>
main    == <<docker, options>>
network == <<net, lease, file>>
bounds  == <<faults, reboots>>
history == <<odd, stale>>
vars    == <<node, script, boot, main, conf, boxes, asking, pods, network,
             bounds, history>>

None == [s \in Services |-> 0]

Master  == node.role = "master"
Systemd == node.host = "systemd"

\* Where etcd and flannel are run: BOOTSTRAP_DOCKER_PARAM.
Bootstrap == IF job = "boot" THEN "boot" ELSE "main"

Accepts(w) == IF w = "boot" THEN boot = "up" ELSE docker = "running"
Alive(w)   == IF w = "boot" THEN boot # "none" ELSE docker # "stopped"

Running(w, s) == IF Alive(w) THEN boxes[w][s] ELSE 0
Runs(s) == \E w \in Places : Running(w, s) > 0

\* The etcd of a worker is the one of its master.
EtcdUp == Master => Runs("etcd")

\* What docker gets from its file.
Given(c) == IF c.outside = <<>> /\ c.quote # "lost"
            THEN [mtu |-> c.mtu, bip |-> c.bip]
            ELSE [mtu |-> "none", bip |-> "none"]
-----------------------------------------------------------------------------
Init ==
    /\ node \in Nodes
    /\ pc = "idle" /\ job = "down" /\ sourced = "unset"
    /\ boot = "none" /\ docker = "running"
    /\ conf = node.conf /\ options = Given(conf)
    /\ boxes = [w \in Places |-> None] /\ asking = {} /\ pods = FALSE
    /\ net = (node.role = "worker") /\ lease = "unset" /\ file = "unset"
    /\ faults = MaxFaults /\ reboots = MaxReboots
    /\ odd = {} /\ stale = FALSE

Fault == faults > 0 /\ faults' = faults - 1 /\ UNCHANGED reboots

Goto(place) == pc' = place /\ UNCHANGED <<job, sourced>>

Resting == {"idle", "done", "fatal"}

\* kube::multinode::main
Start(j) ==
    /\ pc \in Resting
    /\ pc' = IF docker = "running" THEN "kill" ELSE "fatal"
    /\ job' = j /\ sourced' = "unset" /\ odd' = {}
    /\ UNCHANGED <<node, boot, main, conf, boxes, asking, pods, network, bounds,
                   stale>>
-----------------------------------------------------------------------------
(* turndown *)

\* Mutant of Order: the containers of the pods are removed first.
PodsFirst == [kill |-> "pods", pods |-> "kube", kube |-> "clean"]

Order == [kill |-> "kube", kube |-> "pods", pods |-> "clean"]

\* The containers of a daemon that answers are removed; then it gets a signal,
\* and is not waited for.
KillBoot ==
    /\ pc = "kill" /\ Goto(Order[pc])
    /\ IF boot = "up"
       THEN boxes' = [boxes EXCEPT !["boot"] = None] /\ asking' = asking \ {"boot"}
       ELSE UNCHANGED <<boxes, asking>>
    /\ boot' = IF boot = "up" THEN "dying" ELSE boot
    /\ odd' = IF boot = "dying" /\ boxes["boot"] # None THEN odd \cup {"kept"} ELSE odd
    /\ UNCHANGED <<node, main, conf, pods, network, bounds, stale>>

\* Whether they could be removed is not looked at.
KillBootOnly ==
    /\ pc = "kill" /\ boot = "up" /\ Fault
    /\ Goto(Order[pc])
    /\ boot' = "dying"
    /\ odd' = odd \cup {"kept"}
    /\ UNCHANGED <<node, main, conf, boxes, asking, pods, network, stale>>

\* Mutant of RemoveKube: etcd and flannel are thought to be with the bootstrap
\* daemon.
RemoveKubelet ==
    /\ pc = "kube" /\ Goto(Order[pc])
    /\ boxes' = [boxes EXCEPT !["main"]["kubelet"] = 0, !["main"]["proxy"] = 0]
    /\ UNCHANGED <<node, boot, main, conf, asking, pods, network, bounds, history>>

RemoveKube ==
    /\ pc = "kube" /\ Goto(Order[pc])
    /\ boxes' = [boxes EXCEPT !["main"] = None]
    /\ asking' = asking \ {"main"}
    /\ UNCHANGED <<node, boot, main, conf, pods, network, bounds, history>>

RemovePods ==
    /\ pc = "pods" /\ Goto(Order[pc])
    /\ pods' = FALSE
    /\ UNCHANGED <<node, boot, main, conf, boxes, asking, network, bounds, history>>

RemovalFails ==
    /\ pc \in {"kube", "pods"} /\ Fault
    /\ Goto(Order[pc])
    /\ odd' = odd \cup {"kept"}
    /\ UNCHANGED <<node, boot, main, conf, boxes, asking, pods, network, stale>>

\* The data of etcd are under /var/lib/kubelet.
Clean ==
    /\ pc = "clean"
    /\ Goto(CASE job = "down" -> "done" [] job = "cni" -> "settings"
              [] job = "boot" -> "daemon")
    /\ \/ UNCHANGED network
       \/ Master /\ net' = FALSE /\ lease' = "unset" /\ UNCHANGED file
    /\ UNCHANGED <<node, boot, main, conf, boxes, asking, pods, bounds, history>>
-----------------------------------------------------------------------------
(* The bootstrap daemon, etcd and flannel *)

\* Behind a daemon that is still dying the new one ends at once, on its pid
\* file.  Containers it finds are started again.
Daemon ==
    /\ pc = "daemon" /\ Goto("awaitboot")
    /\ IF boot = "none"
       THEN /\ boot' = "up"
            /\ asking' = asking \cup
                   (IF boxes["boot"]["flannel"] > 0 THEN {"boot"} ELSE {})
            /\ odd' = odd \cup (IF boxes["boot"] # None THEN {"revived"} ELSE {})
       ELSE UNCHANGED <<boot, asking, odd>>
    /\ UNCHANGED <<node, main, conf, boxes, pods, network, bounds, stale>>

\* Either may be the one that answers to docker ps.
AwaitBoot ==
    /\ pc = "awaitboot" /\ boot # "none"
    /\ Goto(IF Master THEN "etcd" ELSE "config")
    /\ UNCHANGED <<node, boot, main, conf, boxes, asking, pods, network, bounds,
                   history>>

\* docker run, of which the answer is ignored.
Run(w, s) ==
    IF Accepts(w)
    THEN boxes' = [boxes EXCEPT ![w][s] = IF @ = 2 THEN 2 ELSE @ + 1]
    ELSE UNCHANGED boxes

StartEtcd ==
    /\ pc = "etcd" /\ Goto("awaitetcd")
    /\ Run(Bootstrap, "etcd")
    /\ UNCHANGED <<node, boot, main, conf, asking, pods, network, bounds, history>>

AwaitEtcd ==
    /\ pc = "awaitetcd" /\ EtcdUp /\ Goto("config")
    /\ UNCHANGED <<node, boot, main, conf, boxes, asking, pods, network, bounds,
                   history>>

\* Mutant of SetConfig: it is the workers that write it.
SetConfigOnWorker ==
    /\ pc = "config" /\ Goto("rmfile")
    /\ net' = (net \/ (~Master /\ EtcdUp))
    /\ UNCHANGED <<node, boot, main, conf, boxes, asking, pods, lease, file,
                   bounds, history>>

SetConfig ==
    /\ pc = "config" /\ Goto("rmfile")
    /\ net' = (net \/ (Master /\ EtcdUp))
    /\ UNCHANGED <<node, boot, main, conf, boxes, asking, pods, lease, file,
                   bounds, history>>

\* Mutant of RemoveFile: the file of an earlier time is left.
LeaveFile ==
    /\ pc = "rmfile" /\ Goto("flannel")
    /\ UNCHANGED <<node, boot, main, conf, boxes, asking, pods, network, bounds,
                   history>>

RemoveFile ==
    /\ pc = "rmfile" /\ Goto("flannel")
    /\ file' = "unset"
    /\ UNCHANGED <<node, boot, main, conf, boxes, asking, pods, net, lease,
                   bounds, history>>

StartFlannel ==
    /\ pc = "flannel" /\ Goto("awaitfile")
    /\ Run(Bootstrap, "flannel")
    /\ asking' = asking \cup (IF Accepts(Bootstrap) THEN {Bootstrap} ELSE {})
    /\ UNCHANGED <<node, boot, main, conf, pods, network, bounds, history>>

\* Where the script goes once etcd and flannel are there.
AfterFlannel ==
    IF job = "cni" THEN "kubelet" ELSE IF Systemd \/ conf.present THEN "mtu" ELSE "line"

\* Mutant of AwaitFile: nothing is waited for.
AwaitNoFile ==
    /\ pc = "awaitfile"
    /\ pc' = AfterFlannel /\ sourced' = file
    /\ UNCHANGED <<node, job, boot, main, conf, boxes, asking, pods, network,
                   bounds, history>>

AwaitFile ==
    /\ pc = "awaitfile" /\ file # "unset"
    /\ pc' = AfterFlannel /\ sourced' = file
    /\ UNCHANGED <<node, job, boot, main, conf, boxes, asking, pods, network,
                   bounds, history>>

\* Can flannel of daemon w write its file?
Writes(w) == w \in asking /\ Alive(w) /\ net /\ EtcdUp

\* What the waits of limited length wait for will not come.
GiveUp ==
    /\ \/ pc = "awaitboot" /\ boot # "up"
       \/ pc = "awaitetcd" /\ ~EtcdUp
       \/ pc = "awaitfile" /\ file = "unset" /\ \A w \in Places : ~Writes(w)
    /\ Goto("fatal")
    /\ UNCHANGED <<node, boot, main, conf, boxes, asking, pods, network, bounds,
                   history>>
-----------------------------------------------------------------------------
(* Docker's file, and docker *)

\* What `--mtu=.* --bip=.*' matches.
Matches(c) == Position(c, "mtu") \in 1 .. Position(c, "bip")

\* Where the script goes after that, or from there to.
AfterSettings == IF Master THEN "etcd" ELSE "config"

\* Mutant of Settings: all options go.
SettingsAll ==
    LET both == conf.mtu # "none" /\ conf.bip # "none"
    IN  /\ pc = "settings"
        /\ Goto(IF Systemd /\ (both \/ conf.private) THEN "restart"
                                                     ELSE AfterSettings)
        /\ conf' = IF Systemd /\ both /\ Matches(conf)
                   THEN [conf EXCEPT !.mtu = "none", !.bip = "none", !.inside = <<>>]
                   ELSE conf
        /\ UNCHANGED <<node, boot, main, boxes, asking, pods, network, bounds, history>>

\* kube::cni::ensure_docker_settings: what follows --mtu up to the end of the
\* line goes with it.  The drop-in for MountFlags does not change the file.
Settings ==
    LET both == conf.mtu # "none" /\ conf.bip # "none"
    IN  /\ pc = "settings"
        /\ Goto(IF Systemd /\ (both \/ conf.private) THEN "restart"
                                                     ELSE AfterSettings)
        /\ conf' = IF Systemd /\ both /\ Matches(conf)
                   THEN [conf EXCEPT !.mtu = "none", !.bip = "none",
                            !.inside = SubSeq(@, 1, Position(conf, "mtu") - 1)]
                   ELSE conf
        /\ UNCHANGED <<node, boot, main, boxes, asking, pods, network, bounds, history>>

\* A line with both options, where there is none.
WriteLine ==
    /\ pc = "line" /\ Goto("restart")
    /\ conf' = [conf EXCEPT !.present = TRUE, !.inside = <<"mtu", "bip">>,
                            !.mtu = sourced, !.bip = sourced]
    /\ UNCHANGED <<node, boot, main, boxes, asking, pods, network, bounds, history>>

\* Mutant of Appended: an option goes to the start of the line.
Prepended(name) ==
    IF Systemd THEN [conf EXCEPT !.inside = <<name>> \o @, ![name] = sourced]
               ELSE [conf EXCEPT !.outside = Append(@, name), ![name] = sourced]

\* kube::helpers::replace_mtu_bip.  An option goes to the end of the line, which
\* is behind the closing quote where there are quotes.
Appended(name) ==
    IF Systemd THEN [conf EXCEPT !.inside = Append(@, name), ![name] = sourced]
               ELSE [conf EXCEPT !.outside = Append(@, name), ![name] = sourced]

AddMtu ==
    /\ pc = "mtu" /\ Goto("bip")
    /\ conf' = IF conf.mtu = "none" THEN Appended("mtu") ELSE conf
    /\ UNCHANGED <<node, boot, main, boxes, asking, pods, network, bounds, history>>

AddBip ==
    /\ pc = "bip" /\ Goto("replace")
    /\ conf' = IF conf.bip = "none" THEN Appended("bip") ELSE conf
    /\ UNCHANGED <<node, boot, main, boxes, asking, pods, network, bounds, history>>

\* docker-bootstrap.sh:122: an option is replaced up to the next space, and a
\* closing quote directly behind it goes with it.
TakesQuote(c) ==
    ~Systemd /\ c.quote = "tight" /\ c.inside # <<>> /\ Last(c.inside) # "other"

Replace ==
    /\ pc = "replace" /\ Goto("restart")
    /\ conf' = [conf EXCEPT !.mtu = sourced, !.bip = sourced,
                            !.private = @ /\ ~Systemd,
                            !.quote = IF TakesQuote(conf) THEN "lost" ELSE @]
    /\ UNCHANGED <<node, boot, main, boxes, asking, pods, network, bounds, history>>

\* Mutant of AfterRestart: the settings are looked at once more.
AfterRestartAgain == IF job = "cni" THEN "settings" ELSE "kubelet"

AfterRestart == IF job = "cni" THEN AfterSettings ELSE "kubelet"

\* Docker comes up with what its file says, and starts its containers.  The
\* shell that misses a closing quote may stop there, and docker stays down.
DockerUp ==
    /\ docker' \in {"running"} \cup (IF conf.quote = "lost" THEN {"stopped"} ELSE {})
    /\ stale' = FALSE
    /\ IF docker' = "running"
       THEN /\ options' = Given(conf)
            /\ asking' = asking \cup
                   (IF boxes["main"]["flannel"] > 0 THEN {"main"} ELSE {})
       ELSE options' = options /\ asking' = asking \ {"main"}

\* systemctl restart; with yum and no systemctl it is not found.
Restart ==
    /\ pc = "restart" /\ node.host # "apt" /\ Goto(AfterRestart)
    /\ IF Systemd THEN DockerUp /\ pods' = FALSE
                  ELSE UNCHANGED <<main, asking, pods, stale>>
    /\ UNCHANGED <<node, boot, conf, boxes, network, bounds, odd>>

StopDocker ==
    /\ pc = "restart" /\ node.host = "apt" /\ Goto("awaitstop")
    /\ docker' = "stopping"
    /\ UNCHANGED <<node, boot, options, conf, boxes, asking, pods, network,
                   bounds, history>>

AwaitStop ==
    /\ pc = "awaitstop" /\ docker = "stopped" /\ Goto("start")
    /\ UNCHANGED <<node, boot, main, conf, boxes, asking, pods, network, bounds,
                   history>>

StartAgain ==
    /\ pc = "start" /\ Goto(AfterRestart)
    /\ DockerUp
    /\ UNCHANGED <<node, boot, conf, boxes, pods, network, bounds, odd>>

\* Whether docker comes up again is not looked at.
RestartFails ==
    /\ pc \in {"restart", "start"} /\ (pc = "restart" => Systemd) /\ Fault
    /\ Goto(AfterRestart)
    /\ docker' = "stopped" /\ asking' = asking \ {"main"} /\ pods' = FALSE
    /\ UNCHANGED <<node, boot, options, conf, boxes, network, history>>

\* A worker of an old version needs a proxy.
StartKubelet ==
    /\ pc = "kubelet"
    /\ \/ Goto("done")
       \/ ~Master /\ Goto("proxy")
    /\ Run("main", "kubelet")
    /\ UNCHANGED <<node, boot, main, conf, asking, pods, network, bounds, history>>

StartProxy ==
    /\ pc = "proxy" /\ Goto("done")
    /\ Run("main", "proxy")
    /\ UNCHANGED <<node, boot, main, conf, asking, pods, network, bounds, history>>
-----------------------------------------------------------------------------
(* What fails *)

\* A docker run, or the curl that writes flannel's configuration.
CallFails ==
    /\ Fault
    /\ \/ pc = "etcd" /\ Goto("awaitetcd")
       \/ pc = "config" /\ Goto("rmfile")
       \/ pc = "flannel" /\ Goto("awaitfile")
       \/ pc \in {"kubelet", "proxy"} /\ Goto("done")
    /\ UNCHANGED <<node, boot, main, conf, boxes, asking, pods, network, history>>

\* What is waited for takes too long.
TooSlow ==
    /\ pc \in {"awaitboot", "awaitetcd", "awaitfile"} /\ Fault
    /\ Goto("fatal")
    /\ UNCHANGED <<node, boot, main, conf, boxes, asking, pods, network, history>>

\* An interrupt reaches the bootstrap daemon of this script too.
Kill ==
    /\ pc \notin Resting /\ Fault
    /\ Goto("idle")
    /\ boot' \in {boot} \cup (IF boot = "up" THEN {"dying"} ELSE {})
    /\ stale' = (stale \/ pc \in {"bip", "replace", "restart"})
    /\ UNCHANGED <<node, main, conf, boxes, asking, pods, network, odd>>

Reboot ==
    /\ reboots > 0 /\ reboots' = reboots - 1 /\ UNCHANGED faults
    /\ Goto("idle")
    /\ boot' = "none" /\ file' = "unset" /\ pods' = FALSE
    /\ docker' \in {"running"} \cup (IF conf.quote = "lost" THEN {"stopped"} ELSE {})
    /\ options' = IF docker' = "running" THEN Given(conf) ELSE options
    /\ asking' = IF docker' = "running" /\ boxes["main"]["flannel"] > 0
                 THEN {"main"} ELSE {}
    /\ stale' = FALSE
    /\ UNCHANGED <<node, conf, boxes, net, lease, odd>>
-----------------------------------------------------------------------------
(* What goes on beside the script *)

\* A flannel that has come up leases a subnet, the one it had if that is still
\* its own, and writes it down.
FlannelWrites(w) ==
    /\ Writes(w)
    /\ lease' \in IF lease = "unset" THEN Subnets ELSE {lease}
    /\ file' = lease'
    /\ asking' = asking \ {w}
    /\ UNCHANGED <<node, script, boot, main, conf, boxes, pods, net, bounds, history>>

\* Nobody has renewed it for a day.
LeaseExpires ==
    /\ lease # "unset" /\ ~Runs("flannel")
    /\ lease' = "unset"
    /\ UNCHANGED <<node, script, boot, main, conf, boxes, asking, pods, net, file,
                   bounds, history>>

OldDaemonEnds ==
    /\ boot = "dying"
    /\ boot' = "none" /\ asking' = asking \ {"boot"}
    /\ UNCHANGED <<node, script, main, conf, boxes, pods, network, bounds, history>>

DockerEnds ==
    /\ docker = "stopping"
    /\ docker' = "stopped" /\ asking' = asking \ {"main"} /\ pods' = FALSE
    /\ UNCHANGED <<node, script, boot, options, conf, boxes, network, bounds, history>>

\* The operator does what the script did not come to do.
StartStopped ==
    /\ docker = "stopped" /\ pc \in Resting
    /\ DockerUp
    /\ UNCHANGED <<node, script, boot, conf, boxes, pods, network, bounds, odd>>

\* The kubelet runs pods.
RunPods ==
    /\ docker = "running" /\ boxes["main"]["kubelet"] > 0
    /\ pods' = TRUE
    /\ UNCHANGED <<node, script, boot, main, conf, boxes, asking, network, bounds,
                   history>>
-----------------------------------------------------------------------------
Script ==
    \/ KillBoot \/ RemoveKube \/ RemovePods \/ Clean
    \/ Daemon \/ AwaitBoot \/ StartEtcd \/ AwaitEtcd \/ SetConfig \/ RemoveFile
    \/ StartFlannel \/ AwaitFile \/ GiveUp
    \/ Settings \/ WriteLine \/ AddMtu \/ AddBip \/ Replace
    \/ Restart \/ StopDocker \/ AwaitStop \/ StartAgain
    \/ StartKubelet \/ StartProxy

Failure ==
    \/ KillBootOnly \/ RemovalFails \/ RestartFails \/ CallFails \/ TooSlow
    \/ Kill \/ Reboot

Beside ==
    \/ \E w \in Places : FlannelWrites(w)
    \/ LeaseExpires \/ OldDaemonEnds \/ DockerEnds \/ StartStopped \/ RunPods

Next == (\E j \in {"boot", "cni", "down"} : Start(j)) \/ Script \/ Failure \/ Beside

\* A script goes on, flannel writes its file, a daemon that was asked to end
\* does, and docker is started by someone if the script left it stopped.
Fairness ==
    /\ WF_vars(Script)
    /\ \A w \in Places : WF_vars(FlannelWrites(w))
    /\ WF_vars(OldDaemonEnds) /\ WF_vars(DockerEnds) /\ WF_vars(StartStopped)

Spec == Init /\ [][Next]_vars /\ Fairness
-----------------------------------------------------------------------------
TypeOK ==
    /\ node \in Nodes
    /\ pc \in Resting \cup DOMAIN Order \cup
              {"clean", "daemon", "awaitboot", "etcd", "awaitetcd", "config",
               "rmfile", "flannel", "awaitfile", "settings", "line", "mtu",
               "bip", "replace", "restart", "awaitstop", "start", "kubelet",
               "proxy"}
    /\ job \in {"boot", "cni", "down"} /\ sourced \in {"unset"} \cup Subnets
    /\ boot \in {"none", "up", "dying"}
    /\ docker \in {"running", "stopping", "stopped"}
    /\ options \in [mtu : Values, bip : Values]
    /\ conf \in Confs
    /\ boxes \in [Places -> [Services -> 0 .. 2]]
    /\ asking \subseteq Places /\ pods \in BOOLEAN
    /\ net \in BOOLEAN
    /\ lease \in {"unset"} \cup Subnets /\ file \in {"unset"} \cup Subnets
    /\ faults \in 0 .. MaxFaults /\ reboots \in 0 .. MaxReboots
    /\ odd \subseteq {"revived", "kept"} /\ stale \in BOOLEAN

Done(jobs) == pc = "done" /\ job \in jobs

\* docker-bootstrap.sh:88: docker was restarted with the settings of flannel.
NewSettings ==
    Done({"boot"}) /\ docker = "running" =>
        options = [mtu |-> sourced, bip |-> sourced]

\* Can docker's file take the options?
Takes ==
    \/ Systemd
    \/ node.host = "apt" /\
         (node.conf.present => /\ node.conf.mtu # "none" /\ node.conf.bip # "none"
                               /\ ~TakesQuote(node.conf))

\* A node that was turned up has docker's bridge in the subnet flannel leased,
\* whatever leases, files and options earlier runs have left, where docker's
\* file can take the options, and if turndown could remove what it was to.
Networked ==
    Done({"boot"}) /\ docker = "running" /\ Takes /\ "kept" \notin odd =>
        /\ options = [mtu |-> lease, bip |-> lease]
        /\ file = lease /\ Runs("flannel")

\* And runs one of each service, whatever was there before.
OneOfEach ==
    Done({"boot", "cni"}) /\ docker = "running" /\ odd = {} =>
        /\ Running(Bootstrap, "flannel") = 1
        /\ Running(Bootstrap, "etcd") = IF Master THEN 1 ELSE 0
        /\ \A w \in Places, s \in Services :
             /\ Running(w, s) < 2
             /\ Running(w, s) = 1 =>
                    w = IF s \in {"etcd", "flannel"} THEN Bootstrap ELSE "main"

\* A node that was turned down runs nothing, and what it ran does not come back.
DownIsDown ==
    Done({"down"}) /\ "kept" \notin odd =>
        boot # "up" /\ boxes["main"] = None /\ ~pods

\* Can the CNI script clear what a bootstrap daemon's wrote?  With apt and yum
\* it never looks (cni-plugin.sh:20), and it finds no bip that its user has put
\* before, or without, an mtu (:26).
Clearable == Systemd /\ (node.conf.bip # "none" => Matches(node.conf))

\* cni-plugin.sh:24: where it can, no subnet of a bootstrap daemon stays in
\* docker's file, nor with docker, unless a script was stopped between the file
\* and the restart and docker has been up since.  Where it cannot, a subnet
\* that is in docker's file never gets out of it.
CniClears ==
    /\ [](Clearable /\ Done({"cni"}) /\ docker = "running" =>
             conf.bip \notin Subnets /\ (~stale => options.bip \notin Subnets))
    /\ [][~Clearable /\ conf.bip \in Subnets => conf'.bip \in Subnets]_vars

\* Options other than mtu and bip stay, unless their user had given an mtu.
OthersStay ==
    Systemd /\ node.conf.mtu = "none" =>
        (Position(node.conf, "other") > 0 => Position(conf, "other") > 0)

\* A script that nothing disturbs is fatal only behind the bootstrap daemon of
\* an earlier one: turndown does not wait for its end; or where an earlier one
\* has taken the closing quote out of docker's file.
Calm == faults = MaxFaults /\ reboots = MaxReboots

FatalBehindOld ==
    Calm /\ conf.quote # "lost" /\ pc = "fatal" => job = "boot" /\ boot # "up"

\* How much of a script is left.  With USE_CNI docker is restarted first.
Course ==
    [kill |-> 24, kube |-> 23, pods |-> 22, clean |-> 21, daemon |-> 20,
     awaitboot |-> 19, settings |-> 18, etcd |-> 16, awaitetcd |-> 15,
     config |-> 14, rmfile |-> 13, flannel |-> 12, awaitfile |-> 11, mtu |-> 10,
     bip |-> 9, replace |-> 8, line |-> 8, restart |-> 7, awaitstop |-> 6,
     start |-> 5, kubelet |-> 2, proxy |-> 1]

Left ==
    IF pc \in Resting THEN 0
    ELSE IF pc = "restart" /\ job = "cni" THEN 17 ELSE Course[pc]

\* No script goes back: each of its steps leaves less to do, and so does what
\* fails.  It is what makes ScriptEnds true where the waits end.
OnlyForward ==
    [][pc \notin Resting => IF UNCHANGED pc THEN ~Script /\ UNCHANGED Left
                                            ELSE Left' < Left]_vars

\* The parts of Inductive.  Where the script is:
Turndown == {"kill", "kube", "pods", "clean"}
Filing   == {"mtu", "bip", "replace", "line"}
InBoot   == {"daemon", "awaitboot", "awaitstop", "start"} \cup Filing
Upwards  == {"settings", "etcd", "awaitetcd", "config", "rmfile", "flannel",
             "awaitfile", "restart", "kubelet", "proxy"} \cup InBoot
Kubelets == {"kubelet", "proxy", "done"}

Way ==
    /\ pc \in Upwards => job # "down"
    /\ pc \in InBoot => job = "boot"
    /\ pc = "settings" => job = "cni"
    /\ pc = "line" => node.host # "systemd" /\ ~conf.present
    /\ pc \in Filing \ {"line"} /\ ~Systemd => conf.present
    /\ pc \in {"awaitstop", "start"} => node.host = "apt"
    /\ pc \in {"etcd", "awaitetcd"} => Master
    /\ pc = "restart" /\ ~Systemd => job = "boot"
    /\ docker = "stopping" => pc \in {"awaitstop", "idle", "fatal"}

\* A flannel that has yet to write its file is there.
Waiting == \A w \in asking : Alive(w) /\ boxes[w]["flannel"] > 0

\* What turndown has left, unless something could not be removed.
Emptied ==
    LET turnedUp == pc \in Upwards \/ Done({"boot", "cni"})
    IN  "kept" \notin odd =>
          /\ turnedUp \/ pc \in Turndown \ {"kill"} \/ Done({"down"}) =>
               /\ boot = "dying" => boxes["boot"] = None
               /\ boot = "up" => turnedUp /\ job = "boot" /\ pc # "daemon"
          /\ turnedUp /\ job = "boot" => boxes["main"]["flannel"] = 0
          /\ pc \in {"pods", "clean", "daemon", "settings"} \/ Done({"down"}) =>
               boxes["main"] = None
          /\ pc \in {"clean", "daemon", "settings"} \/ Done({"down"}) => ~pods

\* The file that the script has waited for is the one of its own flannel.
Leased ==
    "kept" \notin odd /\ job = "boot" =>
        /\ pc \in Upwards \cup {"done"} /\ file # "unset" =>
             pc \in {"daemon", "awaitboot", "etcd", "awaitetcd", "config", "rmfile"} \/
               (lease = file /\ boot = "up" /\ boxes["boot"]["flannel"] > 0)
        /\ pc \in Filing \cup {"restart", "awaitstop", "start"} \cup Kubelets =>
             file # "unset" /\ sourced = file

\* Docker's file, and what docker was started with.
Filed ==
    /\ ~conf.present => conf.quote = "apart"
    /\ Takes =>
         /\ conf.outside = <<>> /\ conf.quote # "lost" /\ ~TakesQuote(conf)
         /\ ~Systemd /\ conf.present => conf.mtu # "none" /\ conf.bip # "none"
    /\ job = "boot" /\ pc \in {"restart", "awaitstop", "start"} \cup Kubelets =>
         conf.mtu = sourced /\ conf.bip = sourced
    /\ job = "boot" /\ Takes /\ pc \in Kubelets /\ docker = "running" =>
         options = Given(conf)
    /\ Systemd /\ ~stale /\ docker = "running"
         /\ pc \notin {"bip", "replace", "restart"} => options = Given(conf)

\* The line of docker's file where there are no quotes.
Lined ==
    Systemd =>
        /\ conf.mtu = "none" <=> Position(conf, "mtu") = 0
        /\ conf.bip = "none" <=> Position(conf, "bip") = 0
        /\ pc \in {"bip", "replace"} => conf.mtu # "none"
        /\ pc = "replace" => conf.bip # "none"
        /\ node.conf.mtu = "none" /\ Position(node.conf, "other") > 0 =>
             /\ Position(conf, "other") > 0
             /\ conf.mtu # "none" => Position(conf, "other") < Position(conf, "mtu")
        /\ Clearable =>
             /\ conf.bip # "none" => Matches(conf)
             /\ job = "cni" /\ pc \in Upwards \cup {"done"} /\ pc # "settings" =>
                  conf.bip \notin Subnets
        /\ ~Clearable => conf.bip # "none" /\ ~Matches(conf)

\* How many of each service there are, if all went as it should.
From ==
    [etcd |-> {"awaitetcd", "config", "rmfile", "flannel", "awaitfile",
               "awaitstop", "start"} \cup Filing \cup Kubelets,
     flannel |-> {"awaitfile", "awaitstop", "start"} \cup Filing \cup Kubelets,
     kubelet |-> {"proxy", "done"}, proxy |-> {"done"}]

Begun(s) ==
    \/ pc \in From[s]
    \/ s \in {"etcd", "flannel"} /\ pc = "restart" /\ job = "boot"

Home(s) == IF s \in {"etcd", "flannel"} THEN Bootstrap ELSE "main"

Counted ==
    odd = {} /\ (pc \in Upwards \/ Done({"boot", "cni"})) =>
        /\ \A w \in Places, s \in Services :
             w = "main" \/ boot = "up" =>
               boxes[w][s] <= IF w = Home(s) /\ Begun(s) THEN 1 ELSE 0
        /\ ~Master /\ (job = "boot" => boot # "none") =>
               boxes[Bootstrap]["etcd"] = 0
        /\ Master /\ Begun("etcd") /\ pc # "awaitetcd" =>
             Running(Bootstrap, "etcd") > 0
        /\ (Begun("flannel") /\ pc # "awaitfile") \/
             (pc \in {"flannel", "awaitfile"} /\ file # "unset") =>
               Running(Bootstrap, "flannel") > 0

Inductive == Way /\ Waiting /\ Emptied /\ Leased /\ Filed /\ Lined /\ Counted

\* What holds until something fails or the machine is started anew.
Undisturbed ==
    Calm /\ conf.quote # "lost" =>
        /\ odd = {}
        /\ boot # "up" => boxes["boot"] = None
        /\ docker # "running" => pc \in {"awaitstop", "start"}
        /\ ~Master \/ pc \in {"rmfile", "flannel", "awaitfile"} => net
        /\ pc = "awaitetcd" /\ Accepts(Bootstrap) => Running(Bootstrap, "etcd") > 0
        /\ pc = "awaitfile" /\ file = "unset" /\ Accepts(Bootstrap) =>
             Bootstrap \in asking
        /\ FatalBehindOld

\* Scripts come to an end.
ScriptEnds == pc \notin Resting ~> pc \in Resting

\* Turned up again and again the node gets up, whatever a run met and left.
ComesUpAgain ==
    []<>(pc = "kill" /\ job # "down") => []<>Done({"boot", "cni"})
=============================================================================
