---------------------------- MODULE MCNodeTurnup ----------------------------
(* Instances of NodeTurnup for TLC.                                         *)
EXTENDS NodeTurnup

Has(line, name) == IF \E i \in DOMAIN line : line[i] = name THEN "user" ELSE "none"

File(line, isPrivate) ==
    [present |-> TRUE, inside |-> line, outside |-> <<>>,
     mtu |-> Has(line, "mtu"), bip |-> Has(line, "bip"), private |-> isPrivate,
     quote |-> "apart"]

\* With the closing quote directly behind the last option.
Tight(line) == [File(line, FALSE) EXCEPT !.quote = "tight"]

NoLine == [File(<<>>, FALSE) EXCEPT !.present = FALSE]

Of(host, role, c) == [host |-> host, role |-> role, conf |-> c]

Manifold ==
    {Of("systemd", "master", File(<<"other">>, TRUE)),
     Of("systemd", "master", File(<<"bip">>, FALSE)),
     Of("systemd", "worker", File(<<"mtu", "other">>, FALSE)),
     Of("systemd", "worker", File(<<"mtu", "bip">>, FALSE)),
     Of("apt", "master", NoLine),
     Of("apt", "worker", File(<<"bip", "mtu", "other">>, FALSE)),
     Of("apt", "worker", File(<<"other">>, FALSE)),
     Of("apt", "worker", Tight(<<"bip", "mtu">>)),
     Of("yum", "worker", NoLine)}

\* The hosts with yum and without systemd.
Yum == {Of("yum", "worker", NoLine), Of("yum", "master", File(<<"other">>, FALSE))}

TwoSubnets == {"s1", "s2"}
=============================================================================
