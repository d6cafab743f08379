-------------------------- MODULE MCAddonReconcile --------------------------
(* Instances of AddonReconcile for TLC: versions of one add-on and one      *)
(* of another, all in kube-system, and two manifests.                      *)
EXTENDS AddonReconcile

CONSTANTS p1, p2

DnsV1 == << <<"kube">>, <<"system", "dns">>, <<"v1">> >>
DnsV2 == << <<"kube">>, <<"system", "dns">>, <<"v2">> >>
DnsV3 == << <<"kube">>, <<"system", "dns">>, <<"v3">> >>
UiV1  == << <<"kube">>, <<"system", "ui">>, <<"v1">> >>

TwoVersions   == {DnsV1, DnsV2, UiV1}
ThreeVersions == {DnsV1, DnsV2, DnsV3, UiV1}
OneUpgrade    == {DnsV1, DnsV2}

\* Names without a version.
Dns   == << <<"kube">>, <<"system", "dns">> >>
Ui    == << <<"kube">>, <<"system", "ui">> >>
Plain == {Dns, Ui}

TwoPaths == {p1, p2}

\* Each path occurs in itself only.
OwnHits == {<<p, p>> : p \in TwoPaths}

EitherPath == Permutations(TwoPaths)
=============================================================================
