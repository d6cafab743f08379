--------------------------- MODULE MCImageBuilder ---------------------------
(* Instances of ImageBuilder for TLC.                                       *)
EXTENDS ImageBuilder, TLC

CONSTANTS b1, b2, m1, m2, m3, home, abroad

OneBuilder  == {b1}
TwoBuilders == {b1, b2}
OneMach     == {m1}
TwoMachines == {m1, m2}
MoreMachines == {m1, m2, m3}
HomeOnly    == {home}
TwoRegions  == {home, abroad}

\* No flag given.
Default == [up |-> TRUE, build |-> TRUE, tag |-> TRUE, publish |-> TRUE,
            replicate |-> TRUE, down |-> TRUE]

\* --publish=false, the way the README runs the program on GCE.
Unpublished == [Default EXCEPT !.publish = FALSE]

\* What does work on GCE.
Untagged == [Unpublished EXCEPT !.tag = FALSE]

\* The image is there and is only to be published.
Republish == [Default EXCEPT !.up = FALSE, !.build = FALSE, !.down = FALSE]

Defaults    == {Default}
Mixture     == {Default, Republish}
OnGce       == {Untagged, Unpublished}

SameNames == Permutations(Machines) \cup Permutations(Builders)
=============================================================================
