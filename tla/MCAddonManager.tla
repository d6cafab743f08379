--------------------------- MODULE MCAddonManager ---------------------------
(* Instances of AddonManager for TLC.                                       *)
EXTENDS AddonManager, TLC

CONSTANTS i1, i2, l1, rc, svc

\* Lines of known_tokens.csv.  The first two are one name to SafeUsername.
SystemDns    == <<"system", ":", "dns">>
SystemDnsToo == <<"system", "_", "dns">>
SystemUi     == <<"system", ":", "ui">>

ThreeUsers == {SystemDns, SystemDnsToo, SystemUi}
TwoImages  == {i1, i2}
OneLimit   == {l1}
TwoKinds   == {rc, svc}
=============================================================================
