---------------------------- MODULE BuildSession ----------------------------
(***************************************************************************)
(* What main() counts on when it has an image built on a machine: the build *)
(* ends well only if bootstrap-vz has registered the image, and only a      *)
(* build that got as far as starting bootstrap-vz can leave an image behind *)
(* after it was given up.  The actions Setup, BuildImage, CallFails and     *)
(* LeaveBuild of ImageBuilder take no more than this for granted.           *)
(***************************************************************************)
VARIABLES
    stage,   \* how far the build is
    image    \* has bootstrap-vz registered the image?

vars == <<stage, image>>

Stages == {"setup", "build", "built", "failed", "left"}

Init == stage = "setup" /\ image = FALSE

\* Everything is in place on the machine, and bootstrap-vz starts.
Begin ==
    /\ stage = "setup"
    /\ stage' = "build"
    /\ UNCHANGED image

\* bootstrap-vz may outlive the program that started it.
Register ==
    /\ stage \in {"build", "left"}
    /\ ~image /\ image' = TRUE
    /\ UNCHANGED stage

Finish ==
    /\ stage = "build" /\ image
    /\ stage' = "built"
    /\ UNCHANGED image

\* An error, or the end of the program.
GiveUp ==
    /\ \/ stage = "setup" /\ stage' = "failed"
       \/ stage \in {"build", "built"} /\ stage' = "left"
    /\ UNCHANGED image

Next == Begin \/ Register \/ Finish \/ GiveUp

Spec == Init /\ [][Next]_vars
-----------------------------------------------------------------------------
\* An image is there after a build that ended well, and there is none, nor will
\* there be one, if bootstrap-vz was never started.
Honest ==
    /\ stage = "built" => image
    /\ stage \in {"setup", "failed"} => ~image
=============================================================================
