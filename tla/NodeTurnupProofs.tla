-------------------------- MODULE NodeTurnupProofs --------------------------
(***************************************************************************)
(* Theorems about NodeTurnup.                                              *)
(***************************************************************************)
EXTENDS NodeTurnup, FiniteSetTheorems, WellFoundedInduction, TLAPS

\* SelectInSeq finds the first place of an option, if there is one.
LEMMA FirstPlace ==
    ASSUME NEW c \in Confs, NEW name \in Names
    PROVE  /\ Position(c, name) \in 0 .. Len(c.inside)
           /\ Position(c, name) > 0 => c.inside[Position(c, name)] = name
           /\ \A i \in 1 .. Len(c.inside) : 
                 c.inside[i] = name => 0 < Position(c, name) /\ Position(c, name) <= i
<1> DEFINE I == {i \in 1 .. Len(c.inside) : c.inside[i] = name}
<1>0. c.inside \in Seq(Names)
  BY DEF Confs
<1>1. Position(c, name) = IF I # {} THEN CHOOSE x \in I : \A y \in I : x <= y ELSE 0
  BY DEF Position, SelectInSeq, Min
<1>2. CASE I = {}
  BY <1>0, <1>1, <1>2
<1>3. CASE I # {}
  <2>1. I \subseteq Nat /\ I # {}
    BY <1>3, <1>0
  <2>2. PICK x \in I : \A y \in I : ~(<<y, x>> \in OpToRel(<, Nat))
    BY <2>1, NatLessThanWellFounded, WFMin
  <2>3. \A y \in I : x <= y
    <3>1. \A a, b \in Nat : a < b => <<a, b>> \in OpToRel(<, Nat)
      BY DEF OpToRel
    <3>2. x \in Nat /\ \A y \in I : y \in Nat /\ ~(y < x)
      BY <2>1, <2>2, <3>1
    <3> QED BY <3>2
  <2>4. PICK p \in I : p = Position(c, name) /\ \A y \in I : p <= y
    BY <1>1, <1>3, <2>3
  <2> QED BY <2>4, <1>0
<1> QED BY <1>2, <1>3
-----------------------------------------------------------------------------
(* Types *)

LEMMA NodeTypes ==
    ASSUME node \in Nodes
    PROVE  /\ node.host \in {"systemd", "apt", "yum"}
           /\ node.role \in {"master", "worker"}
           /\ node.conf \in Confs /\ WellFormed(node.conf)
BY NodeAssumption

\* The places of a script.
Pcs == Resting \cup Turndown \cup Upwards

LEMMA OrderIs ==
    /\ DOMAIN Order = {"kill", "kube", "pods"}
    /\ Order["kill"] = "kube" /\ Order["kube"] = "pods" /\ Order["pods"] = "clean"
BY DEF Order

LEMMA PlaceType ==
    pc \in Resting \cup DOMAIN Order \cup
              {"clean", "daemon", "awaitboot", "etcd", "awaitetcd", "config",
               "rmfile", "flannel", "awaitfile", "settings", "line", "mtu",
               "bip", "replace", "restart", "awaitstop", "start", "kubelet",
               "proxy"}
    <=> pc \in Pcs
BY OrderIs DEF Pcs, Resting, Turndown, Upwards, InBoot, Filing

\* Containers.
Boxes == [Places -> [Services -> 0 .. 2]]

LEMMA BoxesType ==
    ASSUME NEW b \in Boxes, NEW w \in Places
    PROVE  /\ [b EXCEPT ![w] = None] \in Boxes
           /\ \A s \in Services, n \in 0 .. 2 : [b EXCEPT ![w][s] = n] \in Boxes
BY DEF Boxes, None

LEMMA RunType ==
    ASSUME boxes \in Boxes, NEW w \in Places, NEW s \in Services, Run(w, s)
    PROVE  boxes' \in Boxes
<1>1. boxes[w][s] \in 0 .. 2
  BY DEF Boxes
<1>2. (IF boxes[w][s] = 2 THEN 2 ELSE boxes[w][s] + 1) \in 0 .. 2
  BY <1>1
<1>3. CASE Accepts(w)
  <2>1. boxes' = [boxes EXCEPT ![w][s] = IF boxes[w][s] = 2 THEN 2 ELSE boxes[w][s] + 1]
    BY <1>3 DEF Run
  <2> QED BY <2>1, <1>2, BoxesType
<1>4. CASE ~Accepts(w)
  BY <1>4 DEF Run
<1> QED BY <1>3, <1>4

\* Docker's file.
LEMMA ConfType ==
    ASSUME NEW c \in Confs, NEW v \in Values
    PROVE  /\ c.present \in BOOLEAN /\ c.private \in BOOLEAN
           /\ c.inside \in Seq(Names) /\ c.outside \in Seq(Names)
           /\ c.mtu \in Values /\ c.bip \in Values
           /\ c.quote \in {"apart", "tight", "lost"}
           /\ Given(c) \in [mtu : Values, bip : Values]
           /\ \A n \in Names, name \in {"mtu", "bip"} :
                /\ [c EXCEPT !.inside = Append(@, n), ![name] = v] \in Confs
                /\ [c EXCEPT !.outside = Append(@, n), ![name] = v] \in Confs
           /\ [c EXCEPT !.present = TRUE, !.inside = <<"mtu", "bip">>,
                        !.mtu = v, !.bip = v] \in Confs
           /\ \A p \in BOOLEAN, q \in {"apart", "tight", "lost"} :
                [c EXCEPT !.mtu = v, !.bip = v, !.private = p, !.quote = q] \in Confs
           /\ \A n \in 0 .. Len(c.inside) :
                [c EXCEPT !.mtu = v, !.bip = v, !.inside = SubSeq(@, 1, n)] \in Confs
<1>1. /\ c.present \in BOOLEAN /\ c.private \in BOOLEAN
      /\ c.inside \in Seq(Names) /\ c.outside \in Seq(Names)
      /\ c.mtu \in Values /\ c.bip \in Values
      /\ c.quote \in {"apart", "tight", "lost"}
  BY DEF Confs
<1>2. Given(c) \in [mtu : Values, bip : Values]
  BY <1>1 DEF Given, Values
<1>3. ASSUME NEW n \in Names, NEW name \in {"mtu", "bip"}
      PROVE  /\ [c EXCEPT !.inside = Append(@, n), ![name] = v] \in Confs
             /\ [c EXCEPT !.outside = Append(@, n), ![name] = v] \in Confs
  <2>1. Append(c.inside, n) \in Seq(Names) /\ Append(c.outside, n) \in Seq(Names)
    BY <1>1
  <2>2. CASE name = "mtu"
    BY <2>1, <2>2 DEF Confs
  <2>3. CASE name = "bip"
    BY <2>1, <2>3 DEF Confs
  <2> QED BY <2>2, <2>3
<1>4. <<"mtu", "bip">> \in Seq(Names)
  BY DEF Names
<1>5. [c EXCEPT !.present = TRUE, !.inside = <<"mtu", "bip">>,
                !.mtu = v, !.bip = v] \in Confs
  BY <1>4 DEF Confs
<1>6. \A p \in BOOLEAN, q \in {"apart", "tight", "lost"} :
        [c EXCEPT !.mtu = v, !.bip = v, !.private = p, !.quote = q] \in Confs
  BY DEF Confs
<1>7. ASSUME NEW n \in 0 .. Len(c.inside)
      PROVE  [c EXCEPT !.mtu = v, !.bip = v, !.inside = SubSeq(@, 1, n)] \in Confs
  <2>1. SubSeq(c.inside, 1, n) \in Seq(Names)
    BY <1>1
  <2> QED BY <2>1 DEF Confs
<1> QED BY <1>1, <1>2, <1>3, <1>5, <1>6, <1>7

\* TypeOK, with the names given above, and what makes it inductive.
Types ==
    /\ node \in Nodes /\ pc \in Pcs
    /\ job \in {"boot", "cni", "down"} /\ sourced \in {"unset"} \cup Subnets
    /\ boot \in {"none", "up", "dying"}
    /\ docker \in {"running", "stopping", "stopped"}
    /\ options \in [mtu : Values, bip : Values] /\ conf \in Confs
    /\ boxes \in Boxes /\ asking \subseteq Places
    /\ pods \in BOOLEAN /\ net \in BOOLEAN
    /\ lease \in {"unset"} \cup Subnets /\ file \in {"unset"} \cup Subnets
    /\ faults \in 0 .. MaxFaults /\ reboots \in 0 .. MaxReboots
    /\ odd \subseteq {"revived", "kept"} /\ stale \in BOOLEAN
    /\ pc \in Filing => sourced \in Subnets

LEMMA TypesAre == Types => TypeOK
BY PlaceType DEF TypeOK, Types, Boxes

LEMMA TypeInit == Init => Types
<1> SUFFICES ASSUME Init PROVE Types
  OBVIOUS
<1>1. conf \in Confs /\ options \in [mtu : Values, bip : Values]
  BY NodeTypes, ConfType DEF Init, Values
<1>2. boxes \in Boxes
  BY DEF Init, Boxes, None
<1>3. faults \in 0 .. MaxFaults /\ reboots \in 0 .. MaxReboots
  BY BoundAssumption DEF Init
<1>4. pods \in BOOLEAN /\ net \in BOOLEAN
  BY DEF Init
<1> QED
  BY <1>1, <1>2, <1>3, <1>4 DEF Init, Types, Pcs, Resting, Filing

LEMMA FaultType == ASSUME Types, Fault PROVE faults' \in 0 .. MaxFaults /\ reboots' = reboots
BY BoundAssumption DEF Types, Fault

LEMMA BootstrapType == Bootstrap \in Places
BY DEF Bootstrap, Places

\* Where a script goes is a place.
LEMMA Ways ==
    ASSUME Types
    PROVE  /\ AfterFlannel \in Pcs
           /\ AfterSettings \in Pcs \ Filing /\ AfterRestart \in Pcs \ Filing
BY DEF Types, AfterFlannel, AfterSettings, AfterRestart, Pcs, Upwards, InBoot, Filing

LEMMA DockerUpType ==
    ASSUME Types, DockerUp
    PROVE  /\ docker' \in {"running", "stopped"}
           /\ options' \in [mtu : Values, bip : Values]
           /\ asking' \subseteq Places /\ stale' \in BOOLEAN
BY ConfType DEF Types, DockerUp, Places, Values

LEMMA StepTypes == Types /\ [Next]_vars => Types'
<1> SUFFICES ASSUME Types, [Next]_vars PROVE Types'
  OBVIOUS
<1> USE DEF Goto, script, main, network, bounds, history, Filing
<1> USE OrderIs, FaultType
<1>1. ASSUME NEW j \in {"boot", "cni", "down"}, Start(j) PROVE Types'
  BY <1>1 DEF Start, Types, Pcs, Resting, Turndown
<1>2. CASE KillBoot \/ KillBootOnly
  BY <1>2, BoxesType DEF KillBoot, KillBootOnly, Types, Pcs, Turndown, Places
<1>3. CASE RemoveKube \/ RemovePods \/ RemovalFails
  <2>1. CASE RemoveKube
    BY <2>1, BoxesType DEF RemoveKube, Types, Pcs, Turndown, Places
  <2>2. CASE RemovePods
    BY <2>2, BoxesType DEF RemovePods, Types, Pcs, Turndown, Places
  <2>3. CASE RemovalFails
    BY <2>3 DEF RemovalFails, Types, Pcs, Turndown, Places
  <2> QED BY <1>3, <2>1, <2>2, <2>3
<1>4. CASE Clean
  BY <1>4 DEF Clean, Types, Pcs, Resting, Upwards, InBoot
<1>5. CASE Daemon
  <2>1. /\ pc' = "awaitboot" /\ boot' \in {"none", "up", "dying"}
        /\ asking' \subseteq Places /\ odd' \subseteq {"revived", "kept"}
        /\ UNCHANGED <<node, job, sourced, main, conf, boxes, pods, network, bounds, stale>>
    BY <1>5 DEF Daemon, Types, Places
  <2> QED BY <2>1 DEF Types, Pcs, Upwards, InBoot
<1>6. CASE AwaitBoot \/ AwaitEtcd \/ SetConfig \/ RemoveFile
  <2>1. CASE AwaitBoot \/ AwaitEtcd
    BY <2>1 DEF AwaitBoot, AwaitEtcd, Types, Pcs, Upwards
  <2>2. CASE SetConfig
    BY <2>2 DEF SetConfig, EtcdUp, Types, Pcs, Upwards
  <2>3. CASE RemoveFile
    BY <2>3 DEF RemoveFile, Types, Pcs, Upwards
  <2> QED BY <1>6, <2>1, <2>2, <2>3
<1>7. CASE AwaitFile
  BY <1>7, Ways DEF AwaitFile, Types
<1>8. CASE GiveUp \/ TooSlow \/ CallFails
  <2>1. pc' \in Pcs /\ pc' \notin Filing
    BY <1>8 DEF GiveUp, TooSlow, CallFails, Pcs, Resting, Upwards
  <2>2. faults' \in 0 .. MaxFaults /\ reboots' = reboots
    BY <1>8 DEF GiveUp, TooSlow, CallFails, Types
  <2>3. UNCHANGED <<node, job, sourced, boot, main, conf, boxes, asking, pods, network, history>>
    BY <1>8 DEF GiveUp, TooSlow, CallFails
  <2> QED BY <2>1, <2>2, <2>3 DEF Types
<1>9. CASE StartEtcd \/ StartFlannel
  BY <1>9, RunType, BootstrapType DEF StartEtcd, StartFlannel, Types, Pcs, Upwards, Services
<1>10. CASE StartKubelet \/ StartProxy
  BY <1>10, RunType DEF StartKubelet, StartProxy, Types, Pcs, Upwards, Services, Places, Resting
<1>11. CASE Settings
  <2>1. Position(conf, "mtu") - 1 \in 0 .. Len(conf.inside) \/ ~Matches(conf)
    BY FirstPlace DEF Types, Names, Matches
  <2>2. conf' \in Confs
    BY <1>11, <2>1, ConfType DEF Settings, Types, Values
  <2> QED BY <1>11, <2>2, Ways DEF Settings, Types, Pcs, Upwards
<1>12. CASE WriteLine \/ AddMtu \/ AddBip \/ Replace
  <2>1. PICK v \in Values : v = sourced
    BY <1>12 DEF WriteLine, AddMtu, AddBip, Replace, Types, Values
  <2>2. conf' \in Confs
    <3>0. conf \in Confs /\ {"mtu", "bip"} \subseteq Names
      BY DEF Types, Names
    <3>1. CASE WriteLine
      BY <3>0, <3>1, <2>1, ConfType DEF WriteLine
    <3>2. CASE AddMtu
      BY <3>0, <3>2, <2>1, ConfType DEF AddMtu, Appended
    <3>3. CASE AddBip
      BY <3>0, <3>3, <2>1, ConfType DEF AddBip, Appended
    <3>4. CASE Replace
      <4>1. PICK p \in BOOLEAN : p = (conf.private /\ ~Systemd)
        OBVIOUS
      <4>2. PICK q \in {"apart", "tight", "lost"} :
              q = IF TakesQuote(conf) THEN "lost" ELSE conf.quote
        BY <3>0, ConfType DEF Values
      <4>3. conf' = [conf EXCEPT !.mtu = v, !.bip = v, !.private = p, !.quote = q]
        BY <3>4, <4>1, <4>2, <2>1 DEF Replace
      <4> QED BY <3>0, <4>3, ConfType
    <3> QED BY <1>12, <3>1, <3>2, <3>3, <3>4
  <2> QED BY <1>12, <2>2 DEF WriteLine, AddMtu, AddBip, Replace, Types, Pcs, Upwards, InBoot, Filing
<1>13. CASE Restart \/ StartAgain \/ RestartFails
  <2>1. CASE Restart /\ ~Systemd
    BY <1>13, <2>1, Ways DEF Restart, Types
  <2>2. CASE (Restart /\ Systemd) \/ StartAgain
    <3>1. DockerUp /\ pc' = AfterRestart /\ pods' \in BOOLEAN
      BY <2>2 DEF Restart, StartAgain, Types
    <3> QED BY <2>2, <3>1, Ways, DockerUpType DEF Restart, StartAgain, Types
  <2>3. CASE RestartFails
    BY <2>3, Ways DEF RestartFails, Types
  <2> QED BY <1>13, <2>1, <2>2, <2>3
<1>14. CASE StopDocker \/ AwaitStop
  BY <1>14 DEF StopDocker, AwaitStop, Types, Pcs, Upwards, InBoot
<1>15. CASE Kill
  BY <1>15 DEF Kill, Types, Pcs, Resting
<1>16. CASE Reboot
  <2>1. options' \in [mtu : Values, bip : Values]
    BY <1>16, ConfType DEF Reboot, Types, Values
  <2>2. reboots' \in 0 .. MaxReboots /\ faults' = faults
    BY <1>16, BoundAssumption DEF Reboot, Types
  <2>3. asking' \subseteq Places
    BY <1>16 DEF Reboot, Places
  <2> QED BY <1>16, <2>1, <2>2, <2>3 DEF Reboot, Types, Pcs, Resting
<1>17. CASE Beside
  <2>1. ASSUME NEW w \in Places, FlannelWrites(w) PROVE Types'
    BY <2>1 DEF FlannelWrites, Types
  <2>2. CASE LeaseExpires \/ OldDaemonEnds \/ DockerEnds
    BY <2>2 DEF LeaseExpires, OldDaemonEnds, DockerEnds, Types
  <2>3. CASE StartStopped
    BY <2>3, DockerUpType DEF StartStopped, Types
  <2>4. CASE RunPods
    BY <2>4 DEF RunPods, Types
  <2> QED BY <1>17, <2>1, <2>2, <2>3, <2>4 DEF Beside
<1>18. CASE UNCHANGED vars
  BY <1>18 DEF vars, Types
<1> QED
  BY <1>1, <1>2, <1>3, <1>4, <1>5, <1>6, <1>7, <1>8, <1>9, <1>10, <1>11, <1>12,
     <1>13, <1>14, <1>15, <1>16, <1>17, <1>18 DEF Next, Script, Failure

LEMMA InvariantTypes == Spec => []Types
<1>1. Init => Types
  BY TypeInit
<1>2. Types /\ [Next]_vars => Types'
  BY StepTypes
<1> QED BY <1>1, <1>2, PTL DEF Spec

\* Every reachable state is well-typed: whatever order scripts, crashes and
\* daemons come in, docker's file only ever gets a value flannel has leased.
THEOREM TypeCorrect == Spec => []TypeOK
<1>1. Types => TypeOK
  BY TypesAre
<1> QED BY <1>1, InvariantTypes, PTL
-----------------------------------------------------------------------------
(* Where the script is *)

LEMMA WayStep == Types /\ Way /\ [Next]_vars => Way'
<1> SUFFICES ASSUME Types, Way, [Next]_vars PROVE Way'
  OBVIOUS
<1> USE DEF Goto, script, main, network, bounds, history, Way, Upwards, InBoot, Filing, Master, Systemd
<1> USE OrderIs
<1>1. ASSUME NEW j \in {"boot", "cni", "down"}, Start(j) PROVE Way'
  BY <1>1 DEF Start
<1>2. CASE KillBoot \/ KillBootOnly \/ RemoveKube \/ RemovePods \/ RemovalFails
  BY <1>2 DEF KillBoot, KillBootOnly, RemoveKube, RemovePods, RemovalFails, Order
<1>3. CASE Clean
  BY <1>3 DEF Clean, Types
<1>4. CASE Daemon \/ AwaitBoot \/ StartEtcd \/ AwaitEtcd \/ SetConfig \/ RemoveFile \/ StartFlannel
  BY <1>4 DEF Daemon, AwaitBoot, StartEtcd, AwaitEtcd, SetConfig, RemoveFile, StartFlannel
<1>5. CASE AwaitFile
  BY <1>5 DEF AwaitFile, AfterFlannel, Types
<1>6. CASE GiveUp \/ TooSlow \/ CallFails \/ Kill \/ Reboot
  BY <1>6 DEF GiveUp, TooSlow, CallFails, Kill, Reboot
<1>7. CASE Settings
  BY <1>7 DEF Settings, AfterSettings
<1>8. CASE WriteLine \/ AddMtu \/ AddBip \/ Replace
  <2>1. conf'.present = conf.present \/ pc' = "restart"
    BY <1>8 DEF WriteLine, AddMtu, AddBip, Replace, Appended, Types, Confs
  <2> QED BY <1>8, <2>1 DEF WriteLine, AddMtu, AddBip, Replace
<1>9. CASE Restart \/ StopDocker \/ AwaitStop \/ StartAgain \/ RestartFails
  BY <1>9, NodeTypes DEF Restart, StopDocker, AwaitStop, StartAgain, RestartFails, DockerUp, AfterRestart, AfterSettings, Types
<1>10. CASE StartKubelet \/ StartProxy
  BY <1>10 DEF StartKubelet, StartProxy
<1>11. CASE Beside
  BY <1>11 DEF Beside, FlannelWrites, LeaseExpires, OldDaemonEnds, DockerEnds, StartStopped, RunPods, DockerUp
<1>12. CASE UNCHANGED vars
  BY <1>12 DEF vars
<1> QED
  BY <1>1, <1>2, <1>3, <1>4, <1>5, <1>6, <1>7, <1>8, <1>9, <1>10, <1>11, <1>12
     DEF Next, Script, Failure

-----------------------------------------------------------------------------
(* Containers *)

LEMMA BoxesAre ==
    ASSUME Types, NEW w \in Places
    PROVE  /\ boxes[w] \in [Services -> 0 .. 2]
           /\ \A s \in Services : boxes[w][s] \in 0 .. 2
BY DEF Types, Boxes

LEMMA NoneAre == \A s \in Services : None[s] = 0
BY DEF None

\* What a docker run does to the containers.
LEMMA RunAdds ==
    ASSUME Types, NEW w \in Places, NEW s \in Services, Run(w, s)
    PROVE  /\ \A v \in Places, t \in Services :
                v # w \/ t # s => boxes'[v][t] = boxes[v][t]
           /\ Accepts(w) => boxes'[w][s] > 0 /\ boxes'[w][s] <= boxes[w][s] + 1
           /\ ~Accepts(w) => boxes' = boxes
<1>1. boxes \in Boxes /\ boxes[w][s] \in 0 .. 2
  BY BoxesAre DEF Types
<1>2. CASE Accepts(w)
  <2> DEFINE n == IF boxes[w][s] = 2 THEN 2 ELSE boxes[w][s] + 1
  <2>1. boxes' = [boxes EXCEPT ![w][s] = n]
    BY <1>2 DEF Run
  <2>2. n > 0 /\ n <= boxes[w][s] + 1
    BY <1>1
  <2> HIDE DEF n
  <2>3. boxes'[w][s] = n
    BY <2>1, <1>1 DEF Boxes
  <2>4. \A v \in Places, t \in Services : v # w \/ t # s => boxes'[v][t] = boxes[v][t]
    BY <2>1, <1>1 DEF Boxes
  <2> QED BY <1>2, <2>2, <2>3, <2>4
<1>3. CASE ~Accepts(w)
  BY <1>3 DEF Run
<1> QED BY <1>2, <1>3

LEMMA WaitingStep == Types /\ Waiting /\ [Next]_vars => Waiting'
<1> SUFFICES ASSUME Types, Waiting, [Next]_vars PROVE Waiting'
  OBVIOUS
<1> USE DEF Goto, script, main, network, bounds, history, Waiting, Alive
<1>0. asking \subseteq Places
  BY DEF Types
<1>1. ASSUME NEW j \in {"boot", "cni", "down"}, Start(j) PROVE Waiting'
  BY <1>1 DEF Start
<1>2. CASE KillBoot \/ KillBootOnly \/ RemoveKube
  BY <1>0, <1>2 DEF KillBoot, KillBootOnly, RemoveKube, Types, Boxes, Places
<1>3. CASE RemovePods \/ RemovalFails \/ Clean \/ AwaitBoot \/ AwaitEtcd \/ SetConfig \/ RemoveFile \/ AwaitFile \/ GiveUp
  BY <1>3 DEF RemovePods, RemovalFails, Clean, AwaitBoot, AwaitEtcd, SetConfig, RemoveFile, AwaitFile, GiveUp
<1>4. CASE Daemon
  BY <1>0, <1>4 DEF Daemon, Places
<1>5. CASE StartEtcd
  BY <1>0, <1>5, RunAdds, BootstrapType DEF StartEtcd, Services
<1>6. CASE StartFlannel
  <2>1. /\ Run(Bootstrap, "flannel")
        /\ asking' = asking \cup (IF Accepts(Bootstrap) THEN {Bootstrap} ELSE {})
    BY <1>6 DEF StartFlannel
  <2>2. Accepts(Bootstrap) => Alive(Bootstrap)
    BY DEF Accepts
  <2>3. \A v \in Places : boxes[v]["flannel"] > 0 => boxes'[v]["flannel"] > 0
    BY <2>1, RunAdds, BootstrapType, BoxesAre DEF Services
  <2>4. Accepts(Bootstrap) => boxes'[Bootstrap]["flannel"] > 0
    BY <2>1, RunAdds, BootstrapType DEF Services
  <2> QED BY <1>0, <1>6, <2>1, <2>2, <2>3, <2>4 DEF StartFlannel
<1>7. CASE StartKubelet \/ StartProxy
  BY <1>0, <1>7, RunAdds DEF StartKubelet, StartProxy, Services, Places
<1>8. CASE Settings \/ WriteLine \/ AddMtu \/ AddBip \/ Replace
  BY <1>8 DEF Settings, WriteLine, AddMtu, AddBip, Replace
<1>9. CASE Restart \/ StopDocker \/ AwaitStop \/ StartAgain \/ RestartFails
  BY <1>0, <1>9 DEF Restart, StopDocker, AwaitStop, StartAgain, RestartFails, DockerUp, Places
<1>10. CASE CallFails \/ TooSlow \/ Kill
  BY <1>0, <1>10 DEF CallFails, TooSlow, Kill, Places
<1>11. CASE Reboot
  BY <1>11 DEF Reboot
<1>12. CASE Beside
  BY <1>0, <1>12 DEF Beside, FlannelWrites, LeaseExpires, OldDaemonEnds, DockerEnds, StartStopped, RunPods, DockerUp, Places
<1>13. CASE UNCHANGED vars
  BY <1>13 DEF vars
<1> QED
  BY <1>1, <1>2, <1>3, <1>4, <1>5, <1>6, <1>7, <1>8, <1>9, <1>10, <1>11, <1>12,
     <1>13 DEF Next, Script, Failure

-----------------------------------------------------------------------------
(* What turndown leaves *)

LEMMA EmptiedStep == Types /\ Way /\ Waiting /\ Emptied /\ [Next]_vars => Emptied'
<1> SUFFICES ASSUME Types, Way, Waiting, Emptied, [Next]_vars PROVE Emptied'
  OBVIOUS
<1> USE DEF Goto, script, main, network, bounds, history, Emptied, Turndown, Upwards,
            InBoot, Filing, Resting, Done
<1> USE OrderIs
<1>1. ASSUME NEW j \in {"boot", "cni", "down"}, Start(j) PROVE Emptied'
  BY <1>1 DEF Start
<1>2. CASE KillBoot
  BY <1>2 DEF KillBoot, Types, Boxes, Places
<1>3. CASE KillBootOnly \/ RemovalFails
  BY <1>3 DEF KillBootOnly, RemovalFails
<1>4. CASE RemoveKube
  BY <1>4 DEF RemoveKube, Types, Boxes, Places, Order
<1>5. CASE RemovePods
  BY <1>5 DEF RemovePods, Order
<1>6. CASE Clean
  BY <1>6, NoneAre DEF Clean, Types, Services
<1>7. CASE Daemon
  BY <1>7 DEF Daemon, Way
<1>8. CASE AwaitBoot \/ AwaitEtcd \/ SetConfig \/ RemoveFile \/ GiveUp \/ TooSlow \/ CallFails
  BY <1>8 DEF AwaitBoot, AwaitEtcd, SetConfig, RemoveFile, GiveUp, TooSlow, CallFails, Way, Types
<1>9. CASE AwaitFile
  BY <1>9 DEF AwaitFile, AfterFlannel
<1>10. CASE StartEtcd \/ StartFlannel
  <2>1. PICK s \in Services : Run(Bootstrap, s)
    BY <1>10 DEF StartEtcd, StartFlannel, Services
  <2>2. boot # "up" => boxes'["boot"] = boxes["boot"]
    BY <2>1 DEF Run, Accepts, Bootstrap, Types, Boxes, Places
  <2>3. job = "boot" => boxes'["main"]["flannel"] = boxes["main"]["flannel"]
    BY <2>1, RunAdds, BootstrapType DEF Bootstrap, Places, Services
  <2> QED BY <1>10, <2>2, <2>3 DEF StartEtcd, StartFlannel
<1>11. CASE StartKubelet \/ StartProxy
  <2>1. PICK s \in {"kubelet", "proxy"} : Run("main", s)
    BY <1>11 DEF StartKubelet, StartProxy
  <2>2. boxes'["boot"] = boxes["boot"]
    BY <2>1 DEF Run, Types, Boxes, Places
  <2>3. boxes'["main"]["flannel"] = boxes["main"]["flannel"]
    BY <2>1, RunAdds DEF Places, Services
  <2> QED BY <1>11, <2>2, <2>3, Way DEF StartKubelet, StartProxy, Way
<1>12. CASE Settings \/ WriteLine \/ AddMtu \/ AddBip \/ Replace
  BY <1>12 DEF Settings, WriteLine, AddMtu, AddBip, Replace, AfterSettings
<1>13. CASE Restart \/ StopDocker \/ AwaitStop \/ StartAgain \/ RestartFails
  BY <1>13 DEF Restart, StopDocker, AwaitStop, StartAgain, RestartFails, AfterRestart, AfterSettings
<1>14. CASE Kill \/ Reboot
  BY <1>14 DEF Kill, Reboot
<1>15. CASE RunPods
  BY <1>15, NoneAre DEF RunPods, Services
<1>16. CASE Beside /\ ~RunPods
  BY <1>16 DEF Beside, FlannelWrites, LeaseExpires, OldDaemonEnds, DockerEnds, StartStopped
<1>17. CASE UNCHANGED vars
  BY <1>17 DEF vars
<1> QED
  BY <1>1, <1>2, <1>3, <1>4, <1>5, <1>6, <1>7, <1>8, <1>9, <1>10, <1>11, <1>12,
     <1>13, <1>14, <1>15, <1>16, <1>17 DEF Next, Script, Failure

-----------------------------------------------------------------------------
(* The file of flannel *)

\* Flannel of another daemon than the one just started is not there.
LEMMA OwnFlannel ==
    ASSUME Types, Waiting, Emptied, "kept" \notin odd, job = "boot",
           pc \in Upwards \/ pc = "done", NEW w \in asking
    PROVE  w = "boot" /\ boot = "up" /\ boxes["boot"]["flannel"] > 0
<1>1. w \in Places /\ Alive(w) /\ boxes[w]["flannel"] > 0
  BY DEF Waiting, Types
<1>2. boxes["main"]["flannel"] = 0 /\ (boot = "dying" => boxes["boot"] = None)
  BY DEF Emptied, Done
<1> QED BY <1>1, <1>2, NoneAre DEF Places, Services, Alive, Types

LEMMA LeasedStep == Types /\ Way /\ Waiting /\ Emptied /\ Leased /\ [Next]_vars => Leased'
<1> SUFFICES ASSUME Types, Way, Waiting, Emptied, Leased, [Next]_vars PROVE Leased'
  OBVIOUS
<1> USE DEF Goto, script, main, network, bounds, history, Leased, Upwards, InBoot, Filing,
            Resting, Kubelets, Turndown
<1> USE OrderIs
<1>1. ASSUME NEW j \in {"boot", "cni", "down"}, Start(j) PROVE Leased'
  BY <1>1 DEF Start
<1>2. CASE KillBoot \/ KillBootOnly \/ RemoveKube \/ RemovePods \/ RemovalFails
  BY <1>2 DEF KillBoot, KillBootOnly, RemoveKube, RemovePods, RemovalFails, Order
<1>3. CASE Clean
  BY <1>3 DEF Clean, Types
<1>4. CASE Daemon \/ AwaitBoot \/ AwaitEtcd \/ SetConfig \/ RemoveFile \/ GiveUp \/ TooSlow \/ CallFails
  BY <1>4 DEF Daemon, AwaitBoot, AwaitEtcd, SetConfig, RemoveFile, GiveUp, TooSlow, CallFails
<1>5. CASE AwaitFile
  BY <1>5 DEF AwaitFile, AfterFlannel
<1>6. CASE StartEtcd
  BY <1>6 DEF StartEtcd
<1>7. CASE StartFlannel
  <2>1. boxes["boot"]["flannel"] > 0 => boxes'["boot"]["flannel"] > 0
    BY <1>7, RunAdds, BootstrapType, BoxesAre DEF StartFlannel, Places, Services
  <2> QED BY <1>7, <2>1 DEF StartFlannel
<1>8. CASE StartKubelet \/ StartProxy
  <2>1. boxes'["boot"]["flannel"] = boxes["boot"]["flannel"]
    BY <1>8, RunAdds DEF StartKubelet, StartProxy, Places, Services
  <2> QED BY <1>8, <2>1 DEF StartKubelet, StartProxy
<1>9. CASE Settings \/ WriteLine \/ AddMtu \/ AddBip \/ Replace
  BY <1>9 DEF Settings, WriteLine, AddMtu, AddBip, Replace, AfterSettings, Way
<1>10. CASE Restart \/ StopDocker \/ AwaitStop \/ StartAgain \/ RestartFails
  BY <1>10 DEF Restart, StopDocker, AwaitStop, StartAgain, RestartFails, AfterRestart, AfterSettings
<1>11. CASE Kill \/ Reboot
  BY <1>11 DEF Kill, Reboot
<1>12. ASSUME NEW w \in Places, FlannelWrites(w) PROVE Leased'
  <2>1. "kept" \notin odd /\ job = "boot" /\ (pc \in Upwards \/ pc = "done") =>
          boot = "up" /\ boxes["boot"]["flannel"] > 0
    BY <1>12, OwnFlannel DEF FlannelWrites, Writes
  <2>2. /\ file' = lease' /\ lease' # "unset"
        /\ file # "unset" /\ lease = file => file' = file
        /\ UNCHANGED <<node, script, boot, boxes, odd>>
    BY <1>12, NodeAssumption DEF FlannelWrites, Types
  <2> QED BY <2>1, <2>2
<1>13. CASE LeaseExpires
  <2>1. ~Runs("flannel") /\ UNCHANGED <<node, script, boot, boxes, odd, file>>
    BY <1>13 DEF LeaseExpires
  <2>2. boot = "up" => ~(boxes["boot"]["flannel"] > 0)
    BY <2>1 DEF Runs, Running, Alive, Places
  <2> QED BY <2>1, <2>2
<1>14. CASE OldDaemonEnds \/ DockerEnds \/ StartStopped \/ RunPods
  BY <1>14 DEF OldDaemonEnds, DockerEnds, StartStopped, RunPods
<1>15. CASE UNCHANGED vars
  BY <1>15 DEF vars
<1> QED
  BY <1>1, <1>2, <1>3, <1>4, <1>5, <1>6, <1>7, <1>8, <1>9, <1>10, <1>11, <1>12,
     <1>13, <1>14, <1>15 DEF Next, Script, Failure, Beside

-----------------------------------------------------------------------------
(* Docker's file, and what docker was started with *)

\* A record of options with some of them replaced.
LEMMA ConfFields ==
    ASSUME NEW c \in Confs, NEW v, NEW l, NEW p, NEW q
    PROVE  /\ \A name \in {"mtu", "bip"} :
                LET i == [c EXCEPT !.inside = l, ![name] = v]
                    o == [c EXCEPT !.outside = l, ![name] = v]
                IN  /\ i.present = c.present /\ i.outside = c.outside /\ i.inside = l
                    /\ o.present = c.present /\ o.inside = c.inside
                    /\ i.quote = c.quote /\ o.quote = c.quote
                    /\ i[name] = v /\ o[name] = v
                    /\ name = "mtu" => i.bip = c.bip /\ o.bip = c.bip
                    /\ name = "bip" => i.mtu = c.mtu /\ o.mtu = c.mtu
           /\ LET r == [c EXCEPT !.mtu = v, !.bip = v, !.private = p, !.quote = q]
              IN  /\ r.present = c.present /\ r.outside = c.outside /\ r.inside = c.inside
                  /\ r.mtu = v /\ r.bip = v /\ r.quote = q
           /\ LET r == [c EXCEPT !.mtu = v, !.bip = v, !.inside = l]
              IN  /\ r.present = c.present /\ r.outside = c.outside /\ r.inside = l
                  /\ r.mtu = v /\ r.bip = v /\ r.quote = c.quote
           /\ LET r == [c EXCEPT !.present = p, !.inside = l, !.mtu = v, !.bip = v]
              IN  /\ r.present = p /\ r.outside = c.outside /\ r.mtu = v /\ r.bip = v
                  /\ r.quote = c.quote
BY DEF Confs

LEMMA FaultsFall == ASSUME Types, Fault PROVE faults' # MaxFaults
BY BoundAssumption DEF Types, Fault

LEMMA NodeStays == [Next]_vars => UNCHANGED node
BY DEF Next, Start, Script, Failure, Beside, vars, KillBoot, KillBootOnly, RemoveKube,
   RemovePods, RemovalFails, Clean, Daemon, AwaitBoot, StartEtcd, AwaitEtcd, SetConfig,
   RemoveFile, StartFlannel, AwaitFile, GiveUp, Settings, WriteLine, AddMtu, AddBip,
   Replace, Restart, StopDocker, AwaitStop, StartAgain, RestartFails, StartKubelet,
   StartProxy, CallFails, TooSlow, Kill, Reboot, FlannelWrites, LeaseExpires,
   OldDaemonEnds, DockerEnds, StartStopped, RunPods

\* The steps that change docker's file.
LEMMA ConfSteps ==
    [Next]_vars => \/ Settings \/ WriteLine \/ AddMtu \/ AddBip \/ Replace
                   \/ UNCHANGED conf
BY DEF Next, Start, Script, Failure, Beside, vars, KillBoot, KillBootOnly, RemoveKube,
   RemovePods, RemovalFails, Clean, Daemon, AwaitBoot, StartEtcd, AwaitEtcd, SetConfig,
   RemoveFile, StartFlannel, AwaitFile, GiveUp, Restart, StopDocker, AwaitStop,
   StartAgain, RestartFails, StartKubelet, StartProxy, CallFails, TooSlow, Kill, Reboot,
   FlannelWrites, LeaseExpires, OldDaemonEnds, DockerEnds, StartStopped, RunPods

\* Nothing but what precedes the closing quote makes it go.
LEMMA QuoteKept ==
    ASSUME UNCHANGED node
    PROVE  /\ UNCHANGED <<conf.quote, conf.inside>> => (TakesQuote(conf)' <=> TakesQuote(conf))
           /\ (Systemd \/ conf'.quote # "tight" => ~TakesQuote(conf)')
           /\ TakesQuote(conf) => ~Systemd /\ conf.quote = "tight"
           /\ Takes' <=> Takes
BY DEF TakesQuote, Takes, Systemd

\* Of the steps that leave docker's file alone, and docker.
LEMMA FiledIdle ==
    ASSUME Filed, UNCHANGED <<node, job, sourced, conf, options>>, docker' \in {docker, "stopped", "stopping"},
           stale => stale',
           ~stale' /\ pc' \notin {"bip", "replace", "restart"} =>
               pc \notin {"bip", "replace", "restart"} \/ docker' # "running",
           pc' \in {"restart", "awaitstop", "start"} \cup Kubelets =>
               pc \in {"restart", "awaitstop", "start"} \cup Kubelets \/ job # "boot",
           pc' \in Kubelets /\ docker' = "running" => pc \in Kubelets \/ job # "boot"
    PROVE  Filed'
BY QuoteKept DEF Filed, Systemd, Kubelets

LEMMA FiledStep == Types /\ Way /\ Filed /\ [Next]_vars => Filed'
<1> SUFFICES ASSUME Types, Way, Filed, [Next]_vars PROVE Filed'
  OBVIOUS
<1> USE DEF Goto, script, main, network, bounds, history, Upwards, InBoot, Filing,
            Resting, Kubelets, Turndown
<1> USE OrderIs
<1>n. UNCHANGED node
  BY NodeStays
<1>0. sourced # "none" \/ pc \notin Filing
  BY NodeAssumption DEF Types
<1>1. ASSUME NEW j \in {"boot", "cni", "down"}, Start(j) PROVE Filed'
  BY <1>1, <1>n, QuoteKept DEF Start, Filed, Systemd
<1>2. CASE KillBoot \/ RemoveKube \/ RemovePods \/ KillBootOnly \/ RemovalFails
  BY <1>2, FiledIdle DEF KillBoot, RemoveKube, RemovePods, KillBootOnly, RemovalFails, Order
<1>3. CASE TooSlow \/ CallFails
  BY <1>3, FiledIdle DEF TooSlow, CallFails, Way
<1>4. CASE Kill
  BY <1>4, FiledIdle DEF Kill, Types
<1>5. CASE Clean
  BY <1>5, FiledIdle DEF Clean, Types
<1>6. CASE Daemon \/ AwaitBoot \/ StartEtcd \/ AwaitEtcd \/ SetConfig \/ RemoveFile \/ StartFlannel \/ GiveUp
  BY <1>6, FiledIdle DEF Daemon, AwaitBoot, StartEtcd, AwaitEtcd, SetConfig, RemoveFile, StartFlannel, GiveUp
<1>7. CASE AwaitFile
  BY <1>7, <1>n, QuoteKept DEF AwaitFile, AfterFlannel, Filed, Systemd
<1>8. CASE StartKubelet \/ StartProxy \/ StopDocker \/ AwaitStop
  BY <1>8, FiledIdle DEF StartKubelet, StartProxy, StopDocker, AwaitStop
<1>9. CASE Settings
  BY <1>9, <1>n, ConfFields, QuoteKept DEF Settings, AfterSettings, Way, Types, Filed, Systemd
<1>10. CASE WriteLine
  <2>1. conf.quote = "apart" /\ ~Systemd
    BY <1>10 DEF WriteLine, Way, Filed, Systemd
  <2>2. /\ conf'.present = TRUE /\ conf'.outside = conf.outside /\ conf'.quote = "apart"
        /\ conf'.mtu = sourced /\ conf'.bip = sourced
    BY <1>10, <2>1, ConfFields DEF WriteLine, Types
  <2> QED BY <1>10, <1>n, <1>0, <2>1, <2>2, QuoteKept DEF WriteLine, Filed, Systemd
<1>11. CASE AddMtu
  <2>1. /\ conf'.present = conf.present /\ conf'.quote = conf.quote
        /\ Takes => conf'.outside = <<>> /\ (~Systemd => conf' = conf)
    <3>1. CASE conf.mtu # "none"
      BY <1>11, <3>1 DEF AddMtu, Filed
    <3>2. CASE conf.mtu = "none"
      <4>1. conf' = IF Systemd
                    THEN [conf EXCEPT !.inside = Append(conf.inside, "mtu"), !["mtu"] = sourced]
                    ELSE [conf EXCEPT !.outside = Append(conf.outside, "mtu"), !["mtu"] = sourced]
        BY <1>11, <3>2 DEF AddMtu, Appended
      <4>2. /\ conf'.present = conf.present /\ conf'.quote = conf.quote
            /\ Systemd => conf'.outside = conf.outside
        BY <4>1 DEF Types, Confs
      <4>3. Takes => Systemd
        BY <1>11, <3>2 DEF AddMtu, Way, Filed, Systemd
      <4> QED BY <4>2, <4>3 DEF Filed
    <3> QED BY <3>1, <3>2
  <2> QED BY <1>11, <1>n, <2>1, QuoteKept DEF AddMtu, Filed, Systemd
<1>12. CASE AddBip
  <2>1. /\ conf'.present = conf.present /\ conf'.quote = conf.quote
        /\ Takes => conf'.outside = <<>> /\ (~Systemd => conf' = conf)
    <3>1. CASE conf.bip # "none"
      BY <1>12, <3>1 DEF AddBip, Filed
    <3>2. CASE conf.bip = "none"
      <4>1. conf' = IF Systemd
                    THEN [conf EXCEPT !.inside = Append(conf.inside, "bip"), !["bip"] = sourced]
                    ELSE [conf EXCEPT !.outside = Append(conf.outside, "bip"), !["bip"] = sourced]
        BY <1>12, <3>2 DEF AddBip, Appended
      <4>2. /\ conf'.present = conf.present /\ conf'.quote = conf.quote
            /\ Systemd => conf'.outside = conf.outside
        BY <4>1 DEF Types, Confs
      <4>3. Takes => Systemd
        BY <1>12, <3>2 DEF AddBip, Way, Filed, Systemd
      <4> QED BY <4>2, <4>3 DEF Filed
    <3> QED BY <3>1, <3>2
  <2> QED BY <1>12, <1>n, <2>1, QuoteKept DEF AddBip, Filed, Systemd
<1>13. CASE Replace
  <2>1. /\ conf'.present = conf.present /\ conf'.outside = conf.outside
        /\ conf'.inside = conf.inside /\ conf'.mtu = sourced /\ conf'.bip = sourced
        /\ conf'.quote = IF TakesQuote(conf) THEN "lost" ELSE conf.quote
    BY <1>13, ConfFields DEF Replace, Types
  <2>2. ~conf'.present => conf'.quote = "apart"
    BY <2>1, <1>n, QuoteKept DEF Filed
  <2>3. Takes => /\ conf'.outside = <<>> /\ conf'.quote # "lost" /\ ~TakesQuote(conf)'
    BY <2>1, <1>n, QuoteKept DEF Filed
  <2> QED BY <1>13, <1>n, <1>0, <2>1, <2>2, <2>3, QuoteKept DEF Replace, Filed, Systemd
<1>14. CASE Restart /\ ~Systemd
  BY <1>14, <1>n, QuoteKept, NodeTypes DEF Restart, AfterRestart, AfterSettings, Way, Filed, Systemd, Takes, Types
<1>15. CASE (Restart /\ Systemd) \/ StartAgain \/ StartStopped
  <2>1. /\ docker' = "running" => options' = Given(conf)
        /\ UNCHANGED <<node, job, sourced, conf>>
        /\ pc' \in {"kubelet", "etcd", "config"} \/ pc' = pc
        /\ pc \in {"restart", "start"} \/ pc' = pc
    BY <1>15 DEF Restart, StartAgain, StartStopped, DockerUp, AfterRestart, AfterSettings
  <2> QED BY <2>1, QuoteKept DEF Filed, Systemd
<1>16. CASE RestartFails
  BY <1>16, FiledIdle DEF RestartFails, AfterRestart, AfterSettings
<1>17. CASE Reboot
  BY <1>17, QuoteKept DEF Reboot, Filed, Systemd
<1>18. CASE (\E w \in Places : FlannelWrites(w)) \/ LeaseExpires \/ OldDaemonEnds \/ DockerEnds \/ RunPods
  BY <1>18, FiledIdle DEF FlannelWrites, LeaseExpires, OldDaemonEnds, DockerEnds, RunPods
<1>19. CASE UNCHANGED vars
  BY <1>19, FiledIdle DEF vars
<1> QED
  BY <1>1, <1>2, <1>3, <1>4, <1>5, <1>6, <1>7, <1>8, <1>9, <1>10, <1>11, <1>12,
     <1>13, <1>14, <1>15, <1>16, <1>17, <1>18, <1>19 DEF Next, Script, Failure, Beside

-----------------------------------------------------------------------------
(* The line of docker's file *)

\* An option added to the end comes after those that are there.
LEMMA AppendedPlace ==
    ASSUME NEW c \in Confs, NEW d \in Confs, NEW n \in Names, NEW name \in Names,
           d.inside = Append(c.inside, n)
    PROVE  Position(d, name) = IF Position(c, name) > 0 THEN Position(c, name)
                               ELSE IF name = n THEN Len(c.inside) + 1 ELSE 0
<1> DEFINE p == Position(c, name)
           q == Position(d, name)
<1>0. c.inside \in Seq(Names) /\ d.inside \in Seq(Names)
  BY DEF Confs
<1>1. /\ Len(d.inside) = Len(c.inside) + 1 /\ d.inside[Len(c.inside) + 1] = n
      /\ \A i \in 1 .. Len(c.inside) : d.inside[i] = c.inside[i]
  BY <1>0
<1>2. /\ p \in 0 .. Len(c.inside) /\ (p > 0 => c.inside[p] = name)
      /\ \A i \in 1 .. Len(c.inside) : c.inside[i] = name => 0 < p /\ p <= i
  BY FirstPlace
<1>3. /\ q \in 0 .. Len(d.inside) /\ (q > 0 => d.inside[q] = name)
      /\ \A i \in 1 .. Len(d.inside) : d.inside[i] = name => 0 < q /\ q <= i
  BY FirstPlace
<1>4. Len(c.inside) \in Nat
  BY <1>0
<1> HIDE DEF p, q
<1>5. CASE p > 0
  <2>1. d.inside[p] = name /\ 0 < q /\ q <= p
    BY <1>1, <1>2, <1>3, <1>4, <1>5
  <2>2. c.inside[q] = name
    BY <2>1, <1>1, <1>2, <1>3, <1>4
  <2> QED BY <2>1, <2>2, <1>2, <1>3, <1>4, <1>5 DEF p, q
<1>6. CASE p = 0
  <2>1. \A i \in 1 .. Len(c.inside) : d.inside[i] # name
    BY <1>1, <1>2, <1>6
  <2>2. q = 0 \/ q = Len(c.inside) + 1
    BY <2>1, <1>1, <1>3, <1>4
  <2>3. name = n => q > 0
    BY <1>1, <1>3, <1>4
  <2>4. q = Len(c.inside) + 1 => name = n
    BY <1>1, <1>3, <1>4
  <2> QED BY <2>2, <2>3, <2>4, <1>4, <1>6 DEF p, q
<1> QED BY <1>2, <1>4, <1>5, <1>6

\* What is cut off is no longer there, and the rest stays where it is.
LEMMA CutPlace ==
    ASSUME NEW c \in Confs, NEW d \in Confs, NEW name \in Names,
           NEW k \in 0 .. Len(c.inside), d.inside = SubSeq(c.inside, 1, k)
    PROVE  Position(d, name) = IF Position(c, name) <= k THEN Position(c, name) ELSE 0
<1> DEFINE p == Position(c, name)
           q == Position(d, name)
<1>0. c.inside \in Seq(Names) /\ d.inside \in Seq(Names)
  BY DEF Confs
<1>1. Len(d.inside) = k /\ \A i \in 1 .. k : d.inside[i] = c.inside[i]
  BY <1>0
<1>2. /\ p \in 0 .. Len(c.inside) /\ (p > 0 => c.inside[p] = name)
      /\ \A i \in 1 .. Len(c.inside) : c.inside[i] = name => 0 < p /\ p <= i
  BY FirstPlace
<1>3. /\ q \in 0 .. Len(d.inside) /\ (q > 0 => d.inside[q] = name)
      /\ \A i \in 1 .. Len(d.inside) : d.inside[i] = name => 0 < q /\ q <= i
  BY FirstPlace
<1>4. Len(c.inside) \in Nat /\ k \in Nat /\ k <= Len(c.inside)
  BY <1>0
<1> HIDE DEF p, q
<1>5. CASE p > 0 /\ p <= k
  <2>1. d.inside[p] = name /\ 0 < q /\ q <= p
    BY <1>1, <1>2, <1>3, <1>4, <1>5
  <2>2. c.inside[q] = name
    BY <2>1, <1>1, <1>3, <1>4, <1>5
  <2>3. p <= q
    BY <2>1, <2>2, <1>1, <1>2, <1>3, <1>4
  <2>4. q = p
    BY <2>1, <2>3, <1>2, <1>3, <1>4
  <2> QED BY <2>4, <1>5 DEF p, q
<1>6. CASE p = 0 \/ p > k
  <2>1. \A i \in 1 .. k : d.inside[i] # name
    BY <1>1, <1>2, <1>4, <1>6
  <2>2. q = 0
    BY <2>1, <1>1, <1>3, <1>4
  <2> QED BY <2>2, <1>2, <1>4, <1>6 DEF p, q
<1> QED BY <1>2, <1>4, <1>5, <1>6

LEMMA SamePlace ==
    ASSUME NEW c, NEW d, NEW name, d.inside = c.inside
    PROVE  Position(d, name) = Position(c, name)
BY DEF Position

\* What a user's file allows does not change.
LEMMA ClearableKept ==
    ASSUME UNCHANGED node
    PROVE  /\ Clearable' <=> Clearable
           /\ Systemd' <=> Systemd
           /\ Position(node.conf, "other")' = Position(node.conf, "other")
BY DEF Clearable, Systemd, Matches

\* Of the steps that leave docker's file alone.
LEMMA LinedIdle ==
    ASSUME Lined, UNCHANGED <<node, conf>>,
           pc' \in {"bip", "replace"} => pc' = pc,
           job' = "cni" /\ pc' \in Upwards \cup {"done"} /\ pc' # "settings" =>
               job = "cni" /\ pc \in Upwards \cup {"done"} /\ pc # "settings"
    PROVE  Lined'
<1>1. Matches(conf)' <=> Matches(conf)
  BY DEF Matches
<1>2. \A name \in Names : Position(conf, name)' = Position(conf, name)
  OBVIOUS
<1>3. {"mtu", "bip", "other"} \subseteq Names
  BY DEF Names
<1> QED BY <1>1, <1>2, <1>3, ClearableKept DEF Lined

LEMMA LinedStep == Types /\ Types' /\ Way /\ Lined /\ [Next]_vars => Lined'
<1> SUFFICES ASSUME Types, Types', Way, Lined, [Next]_vars PROVE Lined'
  OBVIOUS
<1> USE DEF Goto, script, main, network, bounds, history, Upwards, InBoot, Filing,
            Resting, Turndown
<1> USE OrderIs
<1>0. /\ conf \in Confs /\ conf' \in Confs /\ {"mtu", "bip", "other"} \subseteq Names
      /\ "none" \notin Subnets
      /\ \A name \in Names : Position(conf, name) \in 0 .. Len(conf.inside)
      /\ Len(conf.inside) \in Nat
  <2>1. conf \in Confs /\ conf' \in Confs /\ {"mtu", "bip", "other"} \subseteq Names
    BY DEF Types, Names
  <2>2. Len(conf.inside) \in Nat
    BY <2>1 DEF Confs
  <2> QED BY <2>1, <2>2, NodeAssumption, FirstPlace
<1>1. ASSUME NEW j \in {"boot", "cni", "down"}, Start(j) PROVE Lined'
  BY <1>1, LinedIdle DEF Start
<1>n. UNCHANGED node
  BY NodeStays
<1>2. CASE KillBoot \/ KillBootOnly \/ RemoveKube \/ RemovePods \/ RemovalFails
  BY <1>2, LinedIdle DEF KillBoot, KillBootOnly, RemoveKube, RemovePods, RemovalFails, Order
<1>3. CASE Clean
  BY <1>3, LinedIdle DEF Clean, Types
<1>4. CASE Daemon \/ AwaitBoot \/ StartEtcd \/ AwaitEtcd \/ SetConfig \/ RemoveFile \/ StartFlannel
  BY <1>4, LinedIdle DEF Daemon, AwaitBoot, StartEtcd, AwaitEtcd, SetConfig, RemoveFile, StartFlannel
<1>5. CASE AwaitFile
  BY <1>5, LinedIdle DEF AwaitFile, AfterFlannel
<1>6. CASE GiveUp \/ TooSlow \/ CallFails \/ Kill \/ Reboot
  BY <1>6, LinedIdle DEF GiveUp, TooSlow, CallFails, Kill, Reboot, Way
<1>7. CASE Settings
  <2> DEFINE k == Position(conf, "mtu") - 1
  <2>1. pc = "settings" /\ pc' \in {"restart", "etcd", "config"} /\ job' = job /\ node' = node
    BY <1>7 DEF Settings, AfterSettings
  <2>2. CASE Systemd /\ conf.mtu # "none" /\ conf.bip # "none" /\ Matches(conf)
    <3>1. conf' = [conf EXCEPT !.mtu = "none", !.bip = "none",
                               !.inside = SubSeq(conf.inside, 1, k)]
      BY <1>7, <2>2 DEF Settings
    <3>2. conf'.inside = SubSeq(conf.inside, 1, k) /\ conf'.mtu = "none" /\ conf'.bip = "none"
      BY <3>1, <1>0 DEF Confs
    <3>3. k \in 0 .. Len(conf.inside) /\ Position(conf, "mtu") <= Position(conf, "bip")
      BY <1>0, <2>2 DEF Matches
    <3>4. \A name \in Names :
            Position(conf', name) = IF Position(conf, name) <= k THEN Position(conf, name) ELSE 0
      BY <1>0, <3>2, <3>3, CutPlace
    <3> QED BY <1>0, <1>n, <2>1, <2>2, <3>2, <3>3, <3>4, ClearableKept DEF Lined, Matches
  <2>3. CASE Systemd /\ ~(conf.mtu # "none" /\ conf.bip # "none" /\ Matches(conf))
    <3>1. conf' = conf
      BY <1>7, <2>3 DEF Settings
    <3>2. conf.bip = "none" \/ ~Clearable \/ (Matches(conf) /\ conf.mtu = "none")
      BY <2>3 DEF Lined
    <3>3. Position(conf, "mtu") > 0 => conf.mtu # "none"
      BY <2>3, <1>0 DEF Lined
    <3>4. Clearable => conf.bip = "none"
      BY <1>0, <3>2, <3>3 DEF Matches
    <3>5. \A name \in Names : Position(conf', name) = Position(conf, name)
      BY <3>1
    <3> QED BY <1>0, <1>n, <2>1, <2>3, <3>1, <3>4, <3>5, ClearableKept DEF Lined, Matches
  <2>4. ~Systemd => Lined'
    BY <1>n, ClearableKept DEF Lined
  <2> QED BY <2>1, <2>2, <2>3, <2>4
<1>8. CASE (WriteLine \/ AddMtu \/ AddBip \/ Replace) /\ ~Systemd
  BY <1>8, <1>n, ClearableKept DEF Lined
<1>9. CASE AddMtu /\ Systemd
  <2>1. pc = "mtu" /\ pc' = "bip" /\ node' = node /\ job' = job /\ job = "boot"
    BY <1>9 DEF AddMtu, Way
  <2>2. CASE conf.mtu # "none"
    BY <1>9, <2>1, <2>2, <1>n, ClearableKept DEF AddMtu, Lined, Matches
  <2>3. CASE conf.mtu = "none"
    <3>1. conf' = [conf EXCEPT !.inside = Append(conf.inside, "mtu"), !["mtu"] = sourced]
      BY <1>9, <2>3 DEF AddMtu, Appended
    <3>2. conf'.inside = Append(conf.inside, "mtu") /\ conf'.mtu = sourced /\ conf'.bip = conf.bip
      BY <3>1, <1>0 DEF Confs
    <3>3. \A name \in Names :
            Position(conf', name) = IF Position(conf, name) > 0 THEN Position(conf, name)
                                    ELSE IF name = "mtu" THEN Len(conf.inside) + 1 ELSE 0
      BY <1>0, <3>2, AppendedPlace
    <3>4. sourced \in Subnets
      BY <2>1 DEF Types
    <3>5. conf.bip # "none" => ~Matches(conf)
      BY <1>0, <1>9, <2>3 DEF Matches, Lined
    <3>6. ~Clearable => ~Matches(conf')
      BY <1>0, <1>9, <2>3, <3>3 DEF Lined, Matches
    <3> QED BY <1>0, <1>n, <1>9, <2>1, <2>3, <3>2, <3>3, <3>4, <3>5, <3>6, ClearableKept DEF Lined
  <2> QED BY <2>2, <2>3
<1>10. CASE AddBip /\ Systemd
  <2>1. pc = "bip" /\ pc' = "replace" /\ node' = node /\ job' = job /\ job = "boot"
    BY <1>10 DEF AddBip, Way
  <2>2. CASE conf.bip # "none"
    BY <1>10, <2>1, <2>2, <1>n, ClearableKept DEF AddBip, Lined, Matches
  <2>3. CASE conf.bip = "none"
    <3>1. conf' = [conf EXCEPT !.inside = Append(conf.inside, "bip"), !["bip"] = sourced]
      BY <1>10, <2>3 DEF AddBip, Appended
    <3>2. conf'.inside = Append(conf.inside, "bip") /\ conf'.bip = sourced /\ conf'.mtu = conf.mtu
      BY <3>1, <1>0 DEF Confs
    <3>3. \A name \in Names :
            Position(conf', name) = IF Position(conf, name) > 0 THEN Position(conf, name)
                                    ELSE IF name = "bip" THEN Len(conf.inside) + 1 ELSE 0
      BY <1>0, <3>2, AppendedPlace
    <3>4. sourced \in Subnets
      BY <2>1 DEF Types
    <3>5. Matches(conf')
      BY <1>0, <1>10, <2>1, <2>3, <3>3 DEF Matches, Lined
    <3> QED BY <1>0, <1>n, <1>10, <2>1, <2>3, <3>2, <3>3, <3>4, <3>5, ClearableKept DEF Lined
  <2> QED BY <2>2, <2>3
<1>11. CASE Replace /\ Systemd
  <2>1. pc = "replace" /\ pc' = "restart" /\ node' = node /\ job' = job /\ job = "boot"
    BY <1>11 DEF Replace, Way
  <2>2. conf'.inside = conf.inside /\ conf'.mtu = sourced /\ conf'.bip = sourced
    BY <1>11, <1>0 DEF Replace, Confs
  <2>3. \A name \in Names : Position(conf', name) = Position(conf, name)
    BY <2>2, SamePlace
  <2>4. sourced \in Subnets
    BY <2>1 DEF Types
  <2> QED BY <1>0, <1>n, <1>11, <2>1, <2>2, <2>3, <2>4, ClearableKept DEF Lined, Matches
<1>12. WriteLine => ~Systemd
  BY DEF WriteLine, Way, Systemd
<1>13. CASE Restart \/ StopDocker \/ AwaitStop \/ StartAgain \/ RestartFails
  BY <1>13, LinedIdle DEF Restart, StopDocker, AwaitStop, StartAgain, RestartFails, AfterRestart, AfterSettings, Way
<1>14. CASE StartKubelet \/ StartProxy
  BY <1>14, LinedIdle DEF StartKubelet, StartProxy, Way
<1>15. CASE Beside
  BY <1>15, LinedIdle DEF Beside, FlannelWrites, LeaseExpires, OldDaemonEnds, DockerEnds, StartStopped, RunPods
<1>16. CASE UNCHANGED vars
  BY <1>16, LinedIdle DEF vars
<1> QED
  BY <1>1, <1>2, <1>3, <1>4, <1>5, <1>6, <1>7, <1>8, <1>9, <1>10, <1>11, <1>12,
     <1>13, <1>14, <1>15, <1>16 DEF Next, Script, Failure

-----------------------------------------------------------------------------
(* How many of each service there are *)

\* While the script turns the node up a service runs at its home or nowhere.
LEMMA AtHome ==
    ASSUME Types, Emptied, Counted, odd = {}, pc \in Upwards \/ Done({"boot", "cni"}),
           NEW w \in Places, NEW s \in Services, Alive(w), boxes[w][s] > 0
    PROVE  w = Home(s) /\ Begun(s) /\ boxes[w][s] = 1 /\ (w = "boot" => boot = "up")
<1>1. w = "boot" => boot = "up"
  <2>1. boot = "dying" => boxes["boot"] = None
    BY DEF Emptied
  <2> QED BY <2>1, NoneAre DEF Types, Alive
<1>2. w = "main" \/ boot = "up"
  BY <1>1 DEF Places
<1>3. boxes[w][s] <= IF w = Home(s) /\ Begun(s) THEN 1 ELSE 0
  BY <1>2 DEF Counted
<1>4. boxes[w][s] \in 0 .. 2
  BY BoxesAre
<1> QED BY <1>1, <1>3, <1>4

LEMMA CountedStep == Types /\ Way /\ Waiting /\ Emptied /\ Counted /\ [Next]_vars => Counted'
<1> SUFFICES ASSUME Types, Way, Waiting, Emptied, Counted, [Next]_vars PROVE Counted'
  OBVIOUS
<1> USE DEF Goto, script, main, network, bounds, history, Upwards, InBoot, Filing,
            Resting, Kubelets, Turndown, Done, Bootstrap, Master
<1> USE OrderIs
<1> DEFINE Turning == pc \in Upwards \/ Done({"boot", "cni"})
<1>0. \A w \in Places, s \in Services : boxes[w][s] \in 0 .. 2
  BY BoxesAre
<1>1. ASSUME NEW j \in {"boot", "cni", "down"}, Start(j) PROVE Counted'
  BY <1>1 DEF Start, Counted
<1>2. CASE KillBoot \/ KillBootOnly \/ RemoveKube \/ RemovePods \/ RemovalFails
  BY <1>2 DEF KillBoot, KillBootOnly, RemoveKube, RemovePods, RemovalFails, Order, Counted
<1>3. CASE Clean
  <2>1. odd = {} => /\ \A s \in Services : boxes["main"][s] = 0
                    /\ boot = "dying" => \A s \in Services : boxes["boot"][s] = 0
                    /\ boot # "up"
    BY <1>3, NoneAre DEF Clean, Emptied
  <2>2. pc' \in {"done", "settings", "daemon"} /\ UNCHANGED <<node, job, boxes, boot, odd>>
        /\ (pc' = "done" => job = "down")
    BY <1>3 DEF Clean, Types
  <2>3. boot \in {"none", "up", "dying"} /\ \A w \in Places : w = "main" \/ w = "boot"
    BY DEF Types, Places
  <2>4. CASE pc' = "done"
    BY <2>2, <2>4 DEF Counted
  <2>5. CASE pc' # "done"
    <3>1. \A s \in Services : ~Begun(s)'
      BY <2>2, <2>5 DEF Begun, From, Services
    <3> QED BY <2>1, <2>2, <2>3, <2>5, <3>1 DEF Counted, Home, Running, Services
  <2> QED BY <2>4, <2>5
<1>4. CASE Daemon
  <2>1. UNCHANGED <<node, job, boxes, docker, file>> /\ pc = "daemon" /\ pc' = "awaitboot"
    BY <1>4 DEF Daemon
  <2>2. \A s \in Services : ~Begun(s) /\ ~Begun(s)'
    BY <2>1 DEF Begun, From, Services
  <2>3. odd' = {} => odd = {} /\ (boot = boot' \/ \A s \in Services : boxes["boot"][s] = 0)
    BY <1>4, NoneAre DEF Daemon
  <2>4. \A w \in Places, s \in Services :
          odd' = {} /\ (w = "main" \/ boot' = "up") => boxes[w][s] <= 0
    <3>1. \A w \in Places, s \in Services :
            odd' = {} /\ (w = "main" \/ boot = "up") => boxes[w][s] <= 0
      BY <2>1, <2>2, <2>3 DEF Counted
    <3>2. \A w \in Places : w = "main" \/ w = "boot"
      BY DEF Places
    <3> QED BY <2>3, <3>1, <3>2
  <2>5. odd' = {} /\ ~Master /\ job = "boot" /\ boot' # "none" => boxes["boot"]["etcd"] = 0
    BY <2>1, <2>3 DEF Counted, Services
  <2>6. job = "boot"
    BY <2>1 DEF Way
  <2> QED BY <2>1, <2>2, <2>4, <2>5, <2>6, <1>0 DEF Counted, Services
<1>5. CASE AwaitBoot \/ SetConfig \/ RemoveFile
  BY <1>5, <1>0 DEF AwaitBoot, SetConfig, RemoveFile, Begun, From, Services, Counted, Home, Running, Alive
<1>6. CASE StartEtcd
  <2>1. pc = "etcd" /\ pc' = "awaitetcd" /\ Run(Bootstrap, "etcd") /\ Master
        /\ UNCHANGED <<node, job, boot, docker, odd, file>>
    BY <1>6 DEF StartEtcd, Way
  <2>2. (\A s \in Services : ~Begun(s)) /\ \A s \in Services : Begun(s)' <=> s = "etcd"
    BY <2>1 DEF Begun, From, Services
  <2>3. /\ \A v \in Places, t \in Services :
             v # Bootstrap \/ t # "etcd" => boxes'[v][t] = boxes[v][t]
        /\ boxes'[Bootstrap]["etcd"] <= boxes[Bootstrap]["etcd"] + 1
    BY <2>1, RunAdds, BootstrapType, <1>0 DEF Services
  <2>4. boxes'[Bootstrap]["etcd"] \in 0 .. 2 /\ boxes[Bootstrap]["etcd"] \in 0 .. 2
    BY <2>1, <1>0, RunType, BootstrapType DEF Types, Boxes, Services
  <2> QED BY <2>1, <2>2, <2>3, <2>4 DEF Counted, Home, Running, Services
<1>7. CASE AwaitEtcd
  <2>1. pc = "awaitetcd" /\ pc' = "config" /\ (Master => Runs("etcd")) /\ Master
        /\ UNCHANGED <<node, job, boot, docker, boxes, odd, file>>
    BY <1>7 DEF AwaitEtcd, EtcdUp, Way
  <2>2. \A s \in Services : Begun(s)' <=> Begun(s)
    BY <2>1 DEF Begun, From, Services
  <2>3. PICK w \in Places : Running(w, "etcd") > 0
    BY <2>1 DEF Runs
  <2>4. odd = {} => Running(Bootstrap, "etcd") > 0
    BY <2>1, <2>3, AtHome, <1>0 DEF Running, Home, Services
  <2> QED BY <2>1, <2>2, <2>4 DEF Counted, Home, Running, Alive, Services
<1>8. CASE StartFlannel
  <2>1. pc = "flannel" /\ pc' = "awaitfile" /\ Run(Bootstrap, "flannel")
        /\ UNCHANGED <<node, job, boot, docker, odd, file>>
    BY <1>8 DEF StartFlannel
  <2>2. ~Begun("flannel") /\ Begun("etcd") /\ \A s \in Services : Begun(s)' <=> Begun(s) \/ s = "flannel"
    BY <2>1 DEF Begun, From, Services
  <2>3. /\ \A v \in Places, t \in Services :
             v # Bootstrap \/ t # "flannel" => boxes'[v][t] = boxes[v][t]
        /\ boxes'[Bootstrap]["flannel"] <= boxes[Bootstrap]["flannel"] + 1
        /\ boxes[Bootstrap]["flannel"] > 0 => boxes'[Bootstrap]["flannel"] > 0
    BY <2>1, RunAdds, BootstrapType, <1>0 DEF Services
  <2>4. boxes'[Bootstrap]["flannel"] \in 0 .. 2 /\ boxes[Bootstrap]["flannel"] \in 0 .. 2
    BY <2>1, <1>0, RunType, BootstrapType DEF Types, Boxes, Services
  <2>5. odd = {} => \A w \in Places, s \in Services :
          w = "main" \/ boot = "up" =>
            boxes'[w][s] <= IF w = Home(s) /\ Begun(s)' THEN 1 ELSE 0
    <3>1. odd = {} => \A w \in Places, s \in Services :
            w = "main" \/ boot = "up" =>
              boxes[w][s] <= IF w = Home(s) /\ Begun(s) THEN 1 ELSE 0
      BY <2>1 DEF Counted
    <3>2. Home("flannel") = Bootstrap
      BY DEF Home
    <3> QED BY <2>2, <2>3, <2>4, <3>1, <3>2, BootstrapType DEF Services
  <2>6. boxes'[Bootstrap]["etcd"] = boxes[Bootstrap]["etcd"]
    BY <2>3, BootstrapType DEF Services
  <2> QED BY <2>1, <2>2, <2>3, <2>5, <2>6 DEF Counted, Home, Running, Alive
<1>9. CASE AwaitFile
  <2>1. /\ pc = "awaitfile" /\ file # "unset"
        /\ pc' \in {"kubelet", "mtu", "line"} /\ (pc' # "kubelet" => job = "boot")
        /\ UNCHANGED <<node, job, boot, docker, boxes, odd, file>>
    BY <1>9, NodeTypes DEF AwaitFile, AfterFlannel, Way, Types
  <2>2. \A s \in Services : Begun(s)' <=> Begun(s)
    BY <2>1 DEF Begun, From, Services
  <2> QED BY <2>1, <2>2 DEF Counted, Home, Running, Alive, Services
<1>10. CASE GiveUp \/ TooSlow \/ Kill \/ Reboot
  BY <1>10 DEF GiveUp, TooSlow, Kill, Reboot, Counted
<1>11. CASE CallFails
  <2>1. /\ <<pc, pc'>> \in {<<"etcd", "awaitetcd">>, <<"config", "rmfile">>,
                           <<"flannel", "awaitfile">>, <<"kubelet", "done">>, <<"proxy", "done">>}
        /\ UNCHANGED <<node, job, boot, docker, boxes, odd, file>>
    BY <1>11 DEF CallFails
  <2>2. \A s \in Services : Begun(s) => Begun(s)'
    BY <2>1 DEF Begun, From, Services
  <2> QED BY <2>1, <2>2, <1>0 DEF Counted, Home, Running, Alive, Begun, From
<1>12. CASE Settings
  <2>1. /\ pc = "settings" /\ pc' \in {"restart", "etcd", "config"} /\ job = "cni"
        /\ pc' = "config" => ~Master
        /\ UNCHANGED <<node, job, boot, docker, boxes, odd, file>>
    BY <1>12 DEF Settings, AfterSettings, Way
  <2>2. /\ ~Begun("flannel")' /\ (pc' # "config" => ~Begun("etcd")')
        /\ \A s \in Services : ~Begun(s)
    BY <2>1 DEF Begun, From, Services
  <2> QED BY <2>1, <2>2, <1>0 DEF Counted, Home, Running, Alive, Services
<1>13. CASE WriteLine \/ AddMtu \/ AddBip \/ Replace
  <2>1. /\ pc \in Filing /\ pc' \in {"restart", "bip", "replace"} /\ job = "boot"
        /\ UNCHANGED <<node, job, boot, docker, boxes, odd, file>>
    BY <1>13 DEF WriteLine, AddMtu, AddBip, Replace, Way
  <2>2. \A s \in Services : Begun(s)' <=> Begun(s)
    BY <2>1 DEF Begun, From, Services
  <2>3. Begun("flannel") /\ Begun("etcd")
    BY <2>1 DEF Begun, From
  <2> QED BY <2>1, <2>2, <2>3 DEF Counted, Home, Running, Alive
<1>14. CASE Restart \/ StopDocker \/ AwaitStop \/ StartAgain \/ RestartFails
  <2>1. /\ pc \in {"restart", "awaitstop", "start"} /\ (job = "boot" \/ pc = "restart")
        /\ pc' \in {"kubelet", "awaitstop", "start", "etcd", "config"}
        /\ pc' \in {"kubelet", "awaitstop", "start"} <=> job = "boot"
        /\ pc' = "config" => ~Master
        /\ UNCHANGED <<node, job, boot, boxes, odd, file>>
    BY <1>14 DEF Restart, StopDocker, AwaitStop, StartAgain, RestartFails, AfterRestart, AfterSettings, Way, Types, Systemd
  <2>2. CASE job = "boot"
    <3>1. \A s \in Services : Begun(s)' <=> Begun(s)
      BY <2>1, <2>2 DEF Begun, From, Services
    <3>2. Begun("etcd") /\ Begun("flannel")
      BY <2>1, <2>2 DEF Begun, From
    <3> QED BY <2>1, <2>2, <3>1, <3>2 DEF Counted, Home, Running, Alive, Services
  <2>3. CASE job # "boot"
    <3>1. /\ ~Begun("flannel")' /\ (pc' # "config" => ~Begun("etcd")')
          /\ \A s \in Services : ~Begun(s)
      BY <2>1, <2>3 DEF Begun, From, Services
    <3> QED BY <2>1, <2>3, <3>1, <1>0 DEF Counted, Home, Running, Alive, Services
  <2> QED BY <2>2, <2>3
<1>15. ASSUME NEW s \in {"kubelet", "proxy"}, pc = s, Run("main", s),
              pc' = "done" \/ (s = "kubelet" /\ pc' = "proxy"),
              UNCHANGED <<node, job, boot, docker, odd, file>>
       PROVE  Counted'
  <2>1. ~Begun(s) /\ Begun(s)' /\ \A t \in Services : Begun(t) => Begun(t)'
    BY <1>15 DEF Begun, From, Services
  <2>2. Begun("etcd") /\ Begun("flannel") /\ Home(s) = "main" /\ s \in Services
    BY <1>15 DEF Begun, From, Home, Services
  <2>3. /\ \A v \in Places, t \in Services :
             v # "main" \/ t # s => boxes'[v][t] = boxes[v][t]
        /\ boxes'["main"][s] <= boxes["main"][s] + 1
        /\ boxes'["main"][s] \in 0 .. 2
    BY <1>15, <2>2, RunAdds, RunType, <1>0 DEF Types, Boxes, Places
  <2>4. odd = {} => \A w \in Places, t \in Services :
          w = "main" \/ boot = "up" =>
            boxes'[w][t] <= IF w = Home(t) /\ Begun(t)' THEN 1 ELSE 0
    <3>1. odd = {} => \A w \in Places, t \in Services :
            w = "main" \/ boot = "up" =>
              boxes[w][t] <= IF w = Home(t) /\ Begun(t) THEN 1 ELSE 0
      BY <1>15 DEF Counted
    <3> QED BY <1>0, <2>1, <2>2, <2>3, <3>1 DEF Places
  <2>5. \A w \in Places : boxes'[w]["etcd"] = boxes[w]["etcd"]
                          /\ boxes'[w]["flannel"] = boxes[w]["flannel"]
    BY <1>15, <2>3 DEF Services
  <2>6. Bootstrap' = Bootstrap /\ Bootstrap \in Places /\ \A t \in Services : Home(t)' = Home(t)
    BY <1>15 DEF Home, Places
  <2> QED BY <1>15, <2>1, <2>2, <2>4, <2>5, <2>6 DEF Counted, Running, Alive
<1>16. CASE StartKubelet \/ StartProxy
  BY <1>15, <1>16 DEF StartKubelet, StartProxy
<1>17. ASSUME NEW w \in Places, FlannelWrites(w) PROVE Counted'
  <2>1. w \in asking /\ Alive(w) /\ boxes[w]["flannel"] > 0
        /\ UNCHANGED <<node, pc, job, boot, docker, boxes, odd>>
    BY <1>17 DEF FlannelWrites, Writes, Waiting
  <2>2. \A s \in Services : Begun(s)' <=> Begun(s)
    BY <2>1 DEF Begun, From, Services
  <2>3. pc = "flannel" => ~Begun("flannel")
    BY DEF Begun, From
  <2>4. odd = {} /\ pc \in {"flannel", "awaitfile"} => Running(Bootstrap, "flannel") > 0
    BY <2>1, <2>3, AtHome DEF Running, Home, Services
  <2> QED BY <2>1, <2>2, <2>4 DEF Counted, Home, Running, Alive, Services
<1>18. CASE DockerEnds \/ OldDaemonEnds
  <2>1. UNCHANGED <<node, pc, job, boxes, odd, file>>
    BY <1>18 DEF DockerEnds, OldDaemonEnds
  <2>2. \A s \in Services : Begun(s)' <=> Begun(s)
    BY <2>1 DEF Begun, From, Services
  <2>3. odd = {} /\ Turning => \A s \in {"etcd", "flannel"} :
          Running(Bootstrap, s) > 0 => Running(Bootstrap, s)' > 0
    <3>1. CASE DockerEnds
      BY <3>1 DEF DockerEnds, Way, Running, Alive
    <3>2. CASE OldDaemonEnds
      BY <3>2, NoneAre DEF OldDaemonEnds, Emptied, Running, Alive, Services
    <3> QED BY <1>18, <3>1, <3>2
  <2> QED BY <1>18, <2>1, <2>2, <2>3 DEF DockerEnds, OldDaemonEnds, Counted, Home, Services
<1>19. CASE LeaseExpires \/ StartStopped \/ RunPods \/ UNCHANGED vars
  <2>1. UNCHANGED <<node, pc, job, boot, boxes, odd, file>> /\ docker' \in {docker, "running"}
    BY <1>19 DEF LeaseExpires, StartStopped, RunPods, DockerUp, vars
  <2>2. \A s \in Services : Begun(s)' <=> Begun(s)
    BY <2>1 DEF Begun, From, Services
  <2> QED BY <2>1, <2>2, <1>0 DEF Counted, Home, Running, Alive, Services, Places
<1> QED
  BY <1>1, <1>2, <1>3, <1>4, <1>5, <1>6, <1>7, <1>8, <1>9, <1>10, <1>11, <1>12,
     <1>13, <1>14, <1>16, <1>17, <1>18, <1>19 DEF Next, Script, Failure, Beside

-----------------------------------------------------------------------------
(* The invariant *)

LEMMA InitInductive == Init => Inductive
<1> SUFFICES ASSUME Init PROVE Inductive
  OBVIOUS
<1> USE DEF Init, Upwards, InBoot, Filing, Turndown, Kubelets, Done
<1>0. conf = node.conf /\ node.conf \in Confs /\ WellFormed(node.conf)
  BY NodeTypes
<1>1. Way /\ Waiting /\ Leased /\ Counted
  BY DEF Way, Waiting, Leased, Counted
<1>2. Emptied
  BY DEF Emptied
<1>3. Filed
  BY <1>0 DEF Filed, Takes, TakesQuote, WellFormed, Systemd
<1>4. Lined
  BY <1>0, NodeAssumption DEF Lined, WellFormed, Clearable
<1> QED BY <1>1, <1>2, <1>3, <1>4 DEF Inductive

\* The invariant the runs check holds of every machine, for any number of
\* failures and reboots: none of its parts rests on the bounds.
THEOREM InductiveHolds == Spec => []Inductive
<1>1. Init => Types /\ Inductive
  BY TypeInit, InitInductive
<1>2. Types /\ Inductive /\ [Next]_vars => (Types /\ Inductive)'
  <2> SUFFICES ASSUME Types, Inductive, [Next]_vars PROVE Types' /\ Inductive'
    OBVIOUS
  <2>1. Types'
    BY StepTypes
  <2>2. Way' /\ Waiting'
    BY WayStep, WaitingStep DEF Inductive
  <2>3. Emptied' /\ Leased' /\ Counted'
    BY EmptiedStep, LeasedStep, CountedStep DEF Inductive
  <2>4. Filed' /\ Lined'
    BY <2>1, FiledStep, LinedStep DEF Inductive
  <2> QED BY <2>1, <2>2, <2>3, <2>4 DEF Inductive
<1> QED BY <1>1, <1>2, PTL DEF Spec

\* A node that was turned up has docker's bridge in the subnet flannel leased,
\* whatever leases, files and options earlier runs have left.  Leased says that
\* the file the script sourced is the one of its own flannel, which is still up
\* and so keeps the lease; Filed that docker was started with what was sourced.
THEOREM BridgeInLease == Spec => []Networked
<1>1. Types /\ Inductive => Networked
  <2> SUFFICES ASSUME Types, Inductive, Done({"boot"}), docker = "running", Takes,
                      "kept" \notin odd
               PROVE  options = [mtu |-> lease, bip |-> lease] /\ file = lease /\ Runs("flannel")
    BY DEF Networked
  <2>1. pc = "done" /\ job = "boot" /\ pc \in Kubelets
    BY DEF Done, Kubelets
  <2>2. sourced = file /\ lease = file /\ boot = "up" /\ boxes["boot"]["flannel"] > 0
    BY <2>1 DEF Inductive, Leased
  <2>3. options = Given(conf) /\ conf.outside = <<>> /\ conf.quote # "lost"
        /\ conf.mtu = sourced /\ conf.bip = sourced
    BY <2>1 DEF Inductive, Filed
  <2>4. Running("boot", "flannel") > 0
    BY <2>2 DEF Running, Alive
  <2> QED BY <2>2, <2>3, <2>4 DEF Given, Runs, Places
<1> QED BY <1>1, InvariantTypes, InductiveHolds, PTL

\* A node that was turned down runs nothing, and what it ran does not come
\* back: the kubelet goes before the pods it would start again, and no daemon
\* is left that would start its containers.
THEOREM TurnedDown == Spec => []DownIsDown
<1>1. Types /\ Inductive => DownIsDown
  <2> SUFFICES ASSUME Types, Inductive, Done({"down"}), "kept" \notin odd
               PROVE  boot # "up" /\ boxes["main"] = None /\ ~pods
    BY DEF DownIsDown
  <2>1. pc = "done" /\ job = "down"
    BY DEF Done
  <2> QED BY <2>1 DEF Inductive, Emptied, Done, Upwards, InBoot, Filing
<1> QED BY <1>1, InvariantTypes, InductiveHolds, PTL

\* A node that was turned up runs one of each service, where it belongs,
\* whatever was there before.
THEOREM OneEach == Spec => []OneOfEach
<1>1. Types /\ Inductive => OneOfEach
  <2> SUFFICES ASSUME Types, Inductive, Done({"boot", "cni"}), docker = "running", odd = {}
               PROVE  /\ Running(Bootstrap, "flannel") = 1
                      /\ Running(Bootstrap, "etcd") = IF Master THEN 1 ELSE 0
                      /\ \A w \in Places, s \in Services :
                           /\ Running(w, s) < 2
                           /\ Running(w, s) = 1 =>
                                w = IF s \in {"etcd", "flannel"} THEN Bootstrap ELSE "main"
    BY DEF OneOfEach
  <2>1. pc = "done" /\ Begun("flannel") /\ Begun("etcd")
    BY DEF Done, Begun, From, Kubelets
  <2>2. \A w \in Places, s \in Services : Running(w, s) \in 0 .. 2
    BY BoxesAre DEF Running
  <2>3. ASSUME NEW w \in Places, NEW s \in Services, Running(w, s) > 0
        PROVE  Running(w, s) = 1 /\ w = Home(s)
    BY <2>3, <2>2, AtHome DEF Running, Inductive
  <2>4. Running(Bootstrap, "flannel") > 0 /\ (Master => Running(Bootstrap, "etcd") > 0)
    BY <2>1 DEF Inductive, Counted
  <2>5. ~Master => Running(Bootstrap, "etcd") = 0
    <3>1. Alive(Bootstrap) => (job = "boot" => boot # "none")
      BY DEF Alive, Bootstrap
    <3> QED BY <3>1, <2>1 DEF Inductive, Counted, Running
  <2>6. {"etcd", "flannel"} \subseteq Services /\ Bootstrap \in Places
    BY BootstrapType DEF Services
  <2> QED BY <2>2, <2>3, <2>4, <2>5, <2>6 DEF Home
<1> QED BY <1>1, InvariantTypes, InductiveHolds, PTL

\* Where the CNI script can clear what a bootstrap daemon's has written, no subnet
\* of flannel's stays in docker's file: an mtu the scripts have added comes
\* before the bip they have added, so that the pattern of the CNI script finds
\* both.  Nor does docker keep one, unless a script was stopped before its
\* restart and docker has been up since.  On the other machines, with apt or yum
\* or a bip that its user has put before or without an mtu, it stays for good.
THEOREM SubnetsCleared == Spec => CniClears
<1>1. Types /\ Inductive =>
        (Clearable /\ Done({"cni"}) /\ docker = "running" =>
           conf.bip \notin Subnets /\ (~stale => options.bip \notin Subnets))
  <2> SUFFICES ASSUME Types, Inductive, Clearable, Done({"cni"}), docker = "running"
               PROVE  conf.bip \notin Subnets /\ (~stale => options.bip \notin Subnets)
    OBVIOUS
  <2>1. pc = "done" /\ job = "cni" /\ Systemd
    BY DEF Done, Clearable
  <2>2. conf.bip \notin Subnets
    BY <2>1 DEF Inductive, Lined
  <2>3. ~stale => options = Given(conf)
    BY <2>1 DEF Inductive, Filed
  <2>4. Given(conf).bip \in {conf.bip, "none"}
    BY DEF Given
  <2> QED BY <2>2, <2>3, <2>4, NodeAssumption
<1>2. ASSUME Types, Types', Inductive, [Next]_vars, ~Clearable, conf.bip \in Subnets
      PROVE  conf'.bip \in Subnets
  <2> USE <1>2
  <2>0. sourced \in Subnets \/ pc \notin Filing
    BY DEF Types
  <2>1. CASE Settings
    <3>1. ~(Systemd /\ Matches(conf))
      BY DEF Inductive, Lined
    <3> QED BY <2>1, <3>1 DEF Settings
  <2>2. CASE WriteLine \/ Replace
    BY <2>0, <2>2 DEF WriteLine, Replace, Filing, Types, Confs
  <2>3. CASE AddMtu
    <3>1. \/ conf' = conf
          \/ conf' = [conf EXCEPT !.inside = Append(conf.inside, "mtu"), !["mtu"] = sourced]
          \/ conf' = [conf EXCEPT !.outside = Append(conf.outside, "mtu"), !["mtu"] = sourced]
      BY <2>3 DEF AddMtu, Appended
    <3> QED BY <3>1 DEF Types, Confs
  <2>4. CASE AddBip
    BY <2>4, NodeAssumption DEF AddBip
  <2>5. CASE UNCHANGED conf
    BY <2>5
  <2> QED BY <2>1, <2>2, <2>3, <2>4, <2>5, ConfSteps
<1>3. Types /\ Types' /\ Inductive /\ [Next]_vars =>
        [~Clearable /\ conf.bip \in Subnets => conf'.bip \in Subnets]_vars
  BY <1>2
<1> QED BY <1>1, <1>3, InvariantTypes, InductiveHolds, PTL DEF Spec, CniClears

\* Options other than mtu and bip stay in docker's file however often the node
\* changes between bootstrap daemon and CNI, unless their user had given an mtu:
\* those of the scripts come after them, and only those are cut off.
THEOREM OtherOptionsStay == Spec => []OthersStay
<1>1. Inductive => OthersStay
  BY DEF Inductive, Lined, OthersStay
<1> QED BY <1>1, InductiveHolds, PTL
-----------------------------------------------------------------------------
(* What needs no fault, and what none does *)

\* Docker runs with the settings of flannel after a turn-up on every host where
\* docker's file can take them, whatever has failed.  Takes leaves out three
\* kinds of machine: those with yum and no systemctl, those where an option
\* would have to be added behind the closing quote, and those where an option
\* that is replaced stands directly before it (docker-bootstrap.sh:122).
THEOREM SettingsWhereTaken == Spec => [](Takes => NewSettings)
<1>1. Types /\ Inductive => (Takes => NewSettings)
  <2> SUFFICES ASSUME Types, Inductive, Takes, Done({"boot"}), docker = "running"
               PROVE  options = [mtu |-> sourced, bip |-> sourced]
    BY DEF NewSettings
  <2>1. job = "boot" /\ pc \in Kubelets
    BY DEF Done, Kubelets
  <2>2. options = Given(conf) /\ conf.outside = <<>> /\ conf.quote # "lost"
        /\ conf.mtu = sourced /\ conf.bip = sourced
    BY <2>1 DEF Inductive, Filed
  <2> QED BY <2>2 DEF Given
<1> QED BY <1>1, InvariantTypes, InductiveHolds, PTL

\* A signal or a failure ends the calm for good.
LEMMA CalmEnds ==
    /\ Types /\ Fault => ~Calm'
    /\ Types /\ Reboot => ~Calm'
BY FaultsFall, BoundAssumption DEF Types, Calm, Reboot

\* No script puts the closing quote back.
LEMMA QuoteStaysLost ==
    ASSUME Types, [Next]_vars, conf.quote = "lost"
    PROVE  conf'.quote = "lost"
<1>1. CASE Settings
  BY <1>1, ConfFields DEF Settings, Types
<1>2. CASE WriteLine \/ Replace
  BY <1>2 DEF WriteLine, Replace, Types, Confs
<1>3. CASE AddMtu \/ AddBip
  BY <1>3 DEF AddMtu, AddBip, Appended, Types, Confs
<1> QED BY <1>1, <1>2, <1>3, ConfSteps

LEMMA UndisturbedInit == Init => Undisturbed
BY NodeTypes DEF Init, Undisturbed, FatalBehindOld, Places, Master

LEMMA UndisturbedStep ==
    ASSUME Types, Types', Inductive, Inductive', Undisturbed, [Next]_vars
    PROVE  Undisturbed'
<1> SUFFICES ASSUME Calm', conf'.quote # "lost" PROVE Undisturbed'
  BY DEF Undisturbed
<1> USE DEF Undisturbed, FatalBehindOld, Calm, Goto, script, main, network, bounds, history, Master
<1> USE OrderIs
<1>0. /\ Calm \/ Fault \/ Reboot
      /\ ~Fault /\ ~Reboot
  <2>1. ~Fault /\ ~Reboot
    BY CalmEnds
  <2>2. UNCHANGED bounds
    BY <2>1 DEF Next, Start, Script, Failure, Beside, vars, KillBoot, KillBootOnly,
         RemoveKube, RemovePods, RemovalFails, Clean, Daemon, AwaitBoot, StartEtcd,
         AwaitEtcd, SetConfig, RemoveFile, StartFlannel, AwaitFile, GiveUp, Settings,
         WriteLine, AddMtu, AddBip, Replace, Restart, StopDocker, AwaitStop, StartAgain,
         RestartFails, StartKubelet, StartProxy, CallFails, TooSlow, Kill,
         FlannelWrites, LeaseExpires, OldDaemonEnds, DockerEnds, StartStopped, RunPods
  <2> QED BY <2>1, <2>2
<1>l. conf.quote # "lost"
  BY QuoteStaysLost
<1>c. Calm /\ conf.quote # "lost" /\ odd = {} /\ (boot # "up" => boxes["boot"] = None)
  BY <1>0, <1>l
<1>1. ASSUME NEW j \in {"boot", "cni", "down"}, Start(j) PROVE Undisturbed'
  BY <1>0, <1>1 DEF Start, Resting
<1>2. CASE KillBoot
  BY <1>c, <1>2 DEF KillBoot, Types, Boxes, Places
<1>3. CASE RemoveKube
  BY <1>c, <1>3 DEF RemoveKube, Types, Boxes, Places
<1>4. CASE RemovePods \/ Clean
  BY <1>c, <1>4 DEF RemovePods, Clean, Types
<1>5. CASE Daemon
  BY <1>c, <1>5 DEF Daemon, None
<1>6. CASE AwaitBoot \/ AwaitEtcd \/ RemoveFile \/ AwaitFile
  BY <1>c, <1>6 DEF AwaitBoot, AwaitEtcd, RemoveFile, AwaitFile, AfterFlannel
<1>7. CASE StartEtcd
  <2>1. /\ Run(Bootstrap, "etcd") /\ pc = "etcd" /\ pc' = "awaitetcd"
        /\ UNCHANGED <<node, job, boot, docker, net, odd>>
    BY <1>7 DEF StartEtcd
  <2>2. boot # "up" => boxes'["boot"] = boxes["boot"]
    BY <2>1 DEF Run, Accepts, Bootstrap, Types, Boxes, Places
  <2>3. Accepts(Bootstrap) => boxes'[Bootstrap]["etcd"] > 0
    BY <2>1, RunAdds, BootstrapType DEF Services
  <2> QED BY <1>c, <2>1, <2>2, <2>3 DEF Accepts, Bootstrap, Running, Alive
<1>8. CASE SetConfig
  <2>1. /\ pc = "config" /\ pc' = "rmfile" /\ net' = (net \/ (Master /\ EtcdUp))
        /\ UNCHANGED <<node, job, boot, docker, boxes, odd>>
    BY <1>8 DEF SetConfig
  <2>2. Master => EtcdUp
    BY <1>c, <2>1, BootstrapType DEF Inductive, Counted, Begun, From, Upwards, EtcdUp, Runs
  <2> QED BY <1>c, <2>1, <2>2
<1>9. CASE StartFlannel
  <2>1. /\ Run(Bootstrap, "flannel") /\ pc = "flannel" /\ pc' = "awaitfile"
        /\ Accepts(Bootstrap) => Bootstrap \in asking'
        /\ UNCHANGED <<node, job, boot, docker, net, odd>>
    BY <1>9 DEF StartFlannel
  <2>2. boot # "up" => boxes'["boot"] = boxes["boot"]
    BY <2>1 DEF Run, Accepts, Bootstrap, Types, Boxes, Places
  <2> QED BY <1>c, <2>1, <2>2 DEF Accepts, Bootstrap
<1>10. CASE GiveUp
  <2>0. /\ pc' = "fatal" /\ UNCHANGED <<node, job, boot, docker, boxes, asking, net, file, odd>>
        /\ docker = "running" /\ job # "down"
    BY <1>c, <1>10 DEF GiveUp, Inductive, Way, Upwards, InBoot
  <2>1. ~Accepts(Bootstrap) => job = "boot" /\ boot # "up"
    BY <2>0 DEF Accepts, Bootstrap
  <2>2. CASE pc = "awaitboot" /\ boot # "up"
    BY <1>c, <2>0, <2>2 DEF Inductive, Way, InBoot
  <2>3. CASE pc = "awaitetcd" /\ ~EtcdUp
    BY <1>c, <2>0, <2>1, <2>3, BootstrapType DEF EtcdUp, Runs
  <2>4. CASE pc = "awaitfile" /\ file = "unset" /\ \A w \in Places : ~Writes(w)
    <3>1. EtcdUp
      BY <1>c, <2>4, BootstrapType DEF Inductive, Counted, Begun, From, Upwards, EtcdUp, Runs
    <3>2. ~Accepts(Bootstrap)
      BY <1>c, <2>4, <3>1, BootstrapType DEF Writes, Accepts, Alive
    <3> QED BY <1>c, <2>0, <2>1, <3>2
  <2> QED BY <1>10, <2>2, <2>3, <2>4 DEF GiveUp
<1>11. CASE Settings \/ WriteLine \/ AddMtu \/ AddBip \/ Replace
  BY <1>c, <1>11 DEF Settings, WriteLine, AddMtu, AddBip, Replace, AfterSettings
<1>12. CASE Restart \/ StopDocker \/ AwaitStop \/ StartAgain
  BY <1>c, <1>12 DEF Restart, StopDocker, AwaitStop, StartAgain, DockerUp, AfterRestart, AfterSettings
<1>13. CASE StartKubelet \/ StartProxy
  <2>1. PICK s \in {"kubelet", "proxy"} : Run("main", s)
    BY <1>13 DEF StartKubelet, StartProxy
  <2>2. boxes'["boot"] = boxes["boot"]
    BY <2>1 DEF Run, Types, Boxes, Places
  <2> QED BY <1>c, <1>13, <2>2 DEF StartKubelet, StartProxy
<1>14. ASSUME NEW w \in Places, FlannelWrites(w) PROVE Undisturbed'
  <2>1. /\ file' # "unset"
        /\ UNCHANGED <<node, pc, job, boot, docker, boxes, net, odd>>
    BY <1>14, NodeAssumption DEF FlannelWrites, Types
  <2> QED BY <1>c, <2>1 DEF Accepts, Bootstrap, Running, Alive
<1>15. CASE OldDaemonEnds
  BY <1>c, <1>15 DEF OldDaemonEnds, Accepts, Bootstrap, Running, Alive
<1>16. CASE DockerEnds
  BY <1>c, <1>16 DEF DockerEnds
<1>17. CASE LeaseExpires \/ StartStopped \/ RunPods
  BY <1>c, <1>17 DEF LeaseExpires, StartStopped, DockerUp, RunPods, Accepts, Bootstrap, Running, Alive
<1>18. CASE UNCHANGED vars
  BY <1>c, <1>18 DEF vars, Accepts, Bootstrap, Running, Alive
<1>19. ~Failure
  BY <1>0 DEF Failure, KillBootOnly, RemovalFails, RestartFails, CallFails, TooSlow, Kill
<1> QED
  BY <1>1, <1>2, <1>3, <1>4, <1>5, <1>6, <1>7, <1>8, <1>9, <1>10, <1>11, <1>12,
     <1>13, <1>14, <1>15, <1>16, <1>17, <1>18, <1>19 DEF Next, Script, Beside

\* Where nothing fails and docker's file has its closing quote, the one thing
\* that makes a script fatal is the bootstrap daemon of an earlier one, which
\* turndown has killed and not waited for: the new daemon ends on its pid file.
\* In particular no script with USE_CNI is, nor is one that finds docker as an
\* earlier one has left it.
THEOREM FatalOnlyBehindOld == Spec => []FatalBehindOld
<1>1. Init => Undisturbed
  BY UndisturbedInit
<1>2. Types /\ Types' /\ Inductive /\ Inductive' /\ Undisturbed /\ [Next]_vars => Undisturbed'
  BY UndisturbedStep
<1>3. Undisturbed => FatalBehindOld
  BY DEF Undisturbed, FatalBehindOld
<1> QED BY <1>1, <1>2, <1>3, InvariantTypes, InductiveHolds, PTL DEF Spec
-----------------------------------------------------------------------------
(* How much of a script is left *)

\* Left, place by place.
LeftTable ==
    /\ pc \in Resting => Left = 0
    /\ (pc = "kill" => Left = 24) /\ (pc = "kube" => Left = 23)
    /\ (pc = "pods" => Left = 22) /\ (pc = "clean" => Left = 21)
    /\ (pc = "daemon" => Left = 20) /\ (pc = "awaitboot" => Left = 19)
    /\ pc = "settings" => Left = 18
    /\ pc = "restart" => Left = IF job = "cni" THEN 17 ELSE 7
    /\ (pc = "etcd" => Left = 16) /\ (pc = "awaitetcd" => Left = 15)
    /\ (pc = "config" => Left = 14) /\ (pc = "rmfile" => Left = 13)
    /\ (pc = "flannel" => Left = 12) /\ (pc = "awaitfile" => Left = 11)
    /\ (pc = "mtu" => Left = 10) /\ (pc = "bip" => Left = 9)
    /\ (pc = "replace" => Left = 8) /\ (pc = "line" => Left = 8)
    /\ (pc = "awaitstop" => Left = 6) /\ (pc = "start" => Left = 5)
    /\ (pc = "kubelet" => Left = 2) /\ (pc = "proxy" => Left = 1)

LEMMA LeftIs == LeftTable
<1>1. /\ Course["kill"] = 24     /\ Course["kube"] = 23   /\ Course["pods"] = 22
      /\ Course["clean"] = 21    /\ Course["daemon"] = 20 /\ Course["awaitboot"] = 19
      /\ Course["settings"] = 18 /\ Course["etcd"] = 16   /\ Course["awaitetcd"] = 15
      /\ Course["config"] = 14   /\ Course["rmfile"] = 13 /\ Course["flannel"] = 12
      /\ Course["awaitfile"] = 11 /\ Course["mtu"] = 10   /\ Course["bip"] = 9
      /\ Course["replace"] = 8   /\ Course["line"] = 8    /\ Course["restart"] = 7
      /\ Course["awaitstop"] = 6 /\ Course["start"] = 5   /\ Course["kubelet"] = 2
      /\ Course["proxy"] = 1
  BY DEF Course
<1>2. Left = IF pc \in Resting THEN 0
             ELSE IF pc = "restart" /\ job = "cni" THEN 17 ELSE Course[pc]
  BY DEF Left
<1> QED BY <1>1, <1>2 DEF LeftTable, Resting

\* No script goes back or is in two minds: each of its steps leaves less to do,
\* and so does what fails.  With docker restarted before etcd where USE_CNI is
\* set, and after flannel otherwise, the course is still one; that it comes to
\* its end then rests on the waits ending alone.
THEOREM ScriptsGoForward == Spec => OnlyForward
<1>1. ASSUME Types, Way, LeftTable, LeftTable', [Next]_vars, pc \notin Resting
      PROVE  IF UNCHANGED pc THEN ~Script /\ UNCHANGED Left ELSE Left' < Left
  <2> USE <1>1
  <2> USE DEF Goto, script, LeftTable, Resting, Way, InBoot, Filing
  <2> USE OrderIs
  <2>1. Script => pc' # pc /\ Left' < Left
    <3>1. ASSUME KillBoot \/ RemoveKube \/ RemovePods PROVE pc' # pc /\ Left' < Left
      BY <3>1 DEF KillBoot, RemoveKube, RemovePods
    <3>2. ASSUME Clean PROVE pc' # pc /\ Left' < Left
      BY <3>2 DEF Clean, Types
    <3>3. ASSUME \/ Daemon \/ AwaitBoot \/ StartEtcd \/ AwaitEtcd \/ SetConfig
                 \/ RemoveFile \/ StartFlannel
          PROVE  pc' # pc /\ Left' < Left
      BY <3>3 DEF Daemon, AwaitBoot, StartEtcd, AwaitEtcd, SetConfig, RemoveFile, StartFlannel
    <3>4. ASSUME AwaitFile PROVE pc' # pc /\ Left' < Left
      BY <3>4 DEF AwaitFile, AfterFlannel
    <3>5. ASSUME GiveUp PROVE pc' # pc /\ Left' < Left
      BY <3>5 DEF GiveUp
    <3>6. ASSUME Settings PROVE pc' # pc /\ Left' < Left
      BY <3>6 DEF Settings, AfterSettings
    <3>7. ASSUME WriteLine \/ AddMtu \/ AddBip \/ Replace PROVE pc' # pc /\ Left' < Left
      BY <3>7 DEF WriteLine, AddMtu, AddBip, Replace
    <3>8. ASSUME Restart \/ StopDocker \/ AwaitStop \/ StartAgain
          PROVE  pc' # pc /\ Left' < Left
      BY <3>8, NodeTypes DEF Restart, StopDocker, AwaitStop, StartAgain, AfterRestart,
           AfterSettings, Systemd, Types
    <3>9. ASSUME StartKubelet \/ StartProxy PROVE pc' # pc /\ Left' < Left
      BY <3>9 DEF StartKubelet, StartProxy
    <3> QED
      BY <3>1, <3>2, <3>3, <3>4, <3>5, <3>6, <3>7, <3>8, <3>9 DEF Script
  <2>2. Failure => pc' # pc /\ Left' < Left
    <3>1. ASSUME KillBootOnly \/ RemovalFails \/ RestartFails
          PROVE  pc' # pc /\ Left' < Left
      BY <3>1 DEF KillBootOnly, RemovalFails, RestartFails, AfterRestart, AfterSettings, Types
    <3>2. ASSUME CallFails \/ TooSlow PROVE pc' # pc /\ Left' < Left
      BY <3>2 DEF CallFails, TooSlow
    <3>3. ASSUME Kill \/ Reboot PROVE pc' # pc /\ Left' < Left
      BY <3>3 DEF Kill, Reboot, Types, Pcs, Turndown, Upwards
    <3> QED BY <3>1, <3>2, <3>3 DEF Failure
  <2>3. Beside \/ UNCHANGED vars => UNCHANGED <<pc, job>>
    BY DEF Beside, FlannelWrites, LeaseExpires, OldDaemonEnds, DockerEnds, StartStopped,
         RunPods, vars
  <2>4. UNCHANGED <<pc, job>> => UNCHANGED Left
    BY DEF Left
  <2>5. ~\E j \in {"boot", "cni", "down"} : Start(j)
    BY DEF Start
  <2> QED BY <2>1, <2>2, <2>3, <2>4, <2>5 DEF Next
<1>2. Types /\ Inductive /\ LeftTable /\ LeftTable' /\ [Next]_vars =>
        [pc \notin Resting => IF UNCHANGED pc THEN ~Script /\ UNCHANGED Left
                                             ELSE Left' < Left]_vars
  BY <1>1 DEF Inductive
<1> QED BY <1>2, LeftIs, InvariantTypes, InductiveHolds, PTL DEF Spec, OnlyForward
=============================================================================
